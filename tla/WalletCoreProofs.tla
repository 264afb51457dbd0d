--------------------------- MODULE WalletCoreProofs ---------------------------
(***************************************************************************)
(* Proofs about WalletCore, for any coins, needs, rates and offers, from   *)
(* BoundsAssumption and FeesAssumption.                                    *)
(*                                                                         *)
(* The builder is followed from the selection of coins to the PSET it      *)
(* hands out (...Gives) and the PSET to the review that the user sees      *)
(* (...Review, FairGives).  Then the other way round, from what the review *)
(* asks of a PSET to the builder: funding adds up in every asset           *)
(* (FundBalances), so the review accepts whatever is put together from it  *)
(* (FundedPasses), request by request (...Passes).                         *)
(***************************************************************************)
EXTENDS WalletCore, DataTheorems

-----------------------------------------------------------------------------
(* Funding: selection, changes and the fee, whatever the coins.              *)

(* Sorting a finite set of integers lists all of it.                         *)
LEMMA SortedNumbers ==
    ASSUME NEW T, IsFiniteSet(T), T \subseteq Int
    PROVE  Sorted(T) \in Seq(T) /\ Len(Sorted(T)) = Cardinality(T)
<1> DEFINE R == {p \in T \X T : p[1] < p[2]}
           n == Cardinality(T)
           Below(x) == {y \in T : y < x}
           ranked(i) == CHOOSE x \in T : Cardinality(Below(x)) = i - 1
<1>1. n \in Nat
  BY FS_CardinalityType
<1>2. StrictOrder(R, T)
  BY DEF StrictOrder
<1>3. \A x \in T : {y \in T : <<y, x>> \in R} = Below(x)
  OBVIOUS
<1>4. ASSUME NEW i \in 1..n PROVE ranked(i) \in T
  <2>1. i - 1 \in 0..(n - 1)
    BY <1>1
  <2>2. \E x \in T : Cardinality(Below(x)) = i - 1
    <3> HIDE DEF R, Below, ranked
    <3>1. \A k \in 0..(n - 1) : \E x \in T : Cardinality({y \in T : <<y, x>> \in R}) = k
      BY ONLY <1>2, IsFiniteSet(T), Ranks
    <3>2. PICK x \in T : Cardinality({y \in T : <<y, x>> \in R}) = i - 1
      BY <2>1, <3>1
    <3> QED BY <1>3, <3>2
  <2> HIDE DEF Below
  <2> QED BY <2>2
<1>5. Sorted(T) = [i \in 1..n |-> ranked(i)]
  BY DEF Sorted, Rank
<1> HIDE DEF ranked, n
<1> QED BY <1>1, <1>4, <1>5 DEF n

(* Ranking coins by value and id lists all of them (Pool: largest first,     *)
(* ties by id).                                                              *)
LEMMA RankCoins ==
    ASSUME NEW S, IsFiniteSet(S), \A c \in S : c.value \in Int /\ c.id \in Int,
           \A c, d \in S : c.id = d.id => c = d
    PROVE  Rank(S, Before) \in Seq(S) /\ Len(Rank(S, Before)) = Cardinality(S)
<1> DEFINE R == {p \in S \X S : Before(p[1], p[2])}
           n == Cardinality(S)
           Below(x) == {y \in S : Before(y, x)}
           ranked(i) == CHOOSE x \in S : Cardinality(Below(x)) = i - 1
<1>1. n \in Nat
  BY FS_CardinalityType
<1>2. StrictOrder(R, S)
  <2>1. \A x, y \in S : <<x, y>> \in R <=> Before(x, y)
    OBVIOUS
  <2> HIDE DEF R
  <2>2. \A x, y, z \in S : Before(x, y) /\ Before(y, z) => Before(x, z)
    BY DEF Before
  <2>3. \A x, y \in S : x # y => Before(x, y) \/ Before(y, x)
    BY DEF Before
  <2>4. \A x \in S : ~Before(x, x)
    BY DEF Before
  <2> QED BY <2>1, <2>2, <2>3, <2>4 DEF StrictOrder
<1>3. \A x \in S : {y \in S : <<y, x>> \in R} = Below(x)
  OBVIOUS
<1>4. ASSUME NEW i \in 1..n PROVE ranked(i) \in S
  <2>1. i - 1 \in 0..(n - 1)
    BY <1>1
  <2>2. \E x \in S : Cardinality(Below(x)) = i - 1
    <3> HIDE DEF R, Below, ranked
    <3>1. PICK x \in S : Cardinality({y \in S : <<y, x>> \in R}) = i - 1
      BY <1>2, <2>1, Ranks
    <3> QED BY <1>3, <3>1
  <2> HIDE DEF Below
  <2> QED BY <2>2
<1>5. Rank(S, Before) = [i \in 1..n |-> ranked(i)]
  BY DEF Rank
<1> HIDE DEF ranked, n
<1> QED BY <1>1, <1>4, <1>5 DEF n

(* What coins of an asset add up to is an integer.                           *)
LEMMA TotalType ==
    ASSUME NEW C, \A c \in C : c.value \in Int, NEW s \in Seq(C), NEW a
    PROVE  Total(s, a) \in Int
<1> DEFINE I == {i \in DOMAIN s : s[i].asset = a}
<1>1. I \in SUBSET (1..Len(s)) /\ Len(s) \in Nat
  OBVIOUS
<1>2. \A i \in I : Values(s)[i] \in Int
  BY DEF Values
<1>3. IsFiniteSet(I)
  BY ONLY <1>1, Positions
<1> HIDE DEF I
<1>4. SumFunctionOnSet(Values(s), I) \in Int
  BY <1>2, <1>3, SumType
<1> QED BY <1>4 DEF Total, I

(* More outputs make a transaction no smaller, and a fee no lower.           *)
LEMMA VsizeGrows ==
    ASSUME NEW i \in Nat, NEW issuance, NEW m \in Nat, NEW n \in Nat, m <= n,
           NEW b \in Nat, NEW d \in Nat, b <= d
    PROVE  /\ Vsize(i, issuance, m, b) \in Int
           /\ Vsize(i, issuance, m, b) <= Vsize(i, issuance, n, d)
<1> DEFINE extra == IF issuance THEN 82 ELSE 0
<1>1. extra \in Nat
  OBVIOUS
<1> HIDE DEF extra
<1>2. /\ Vsize(i, issuance, m, b) = (4 * (15 + 41 * i + extra + 66 * m - 22 + 56 * b) + (112 * i + 2 * m + 4340 * b) + 3) \div 4
      /\ Vsize(i, issuance, n, d) = (4 * (15 + 41 * i + extra + 66 * n - 22 + 56 * d) + (112 * i + 2 * n + 4340 * d) + 3) \div 4
  BY DEF Vsize, extra
<1> QED BY <1>1, <1>2

(* A rate applied to a larger size gives no lower fee.                       *)
LEMMA RateGrows ==
    ASSUME NEW rate \in Nat, NEW x \in Int, NEW y \in Int, x <= y
    PROVE  rate * x \in Int /\ rate * x <= rate * y
OBVIOUS

(* The fee of a funding with m changes, of its own number and of one more.   *)
SizeWith(f, shape, m) ==
    Vsize(shape.foreign + Len(f.inputs), shape.issuance, shape.fixed + m + 1,
          shape.blinded + IF AnyConfidential(f.inputs) THEN m ELSE 0)

Change(A) == [asset : A, value : Int]

FairFee(f, shape, rate) ==
    /\ f.fee >= rate * SizeWith(f, shape, Len(f.changes))
    /\ f.fee < rate * SizeWith(f, shape, Len(f.changes) + 1) + Dust

IsShape(shape) == {shape.foreign, shape.fixed, shape.blinded} \subseteq Nat

Funded(f, C, A, shape, rate) ==
    /\ f.inputs \in Seq(C) /\ f.inputs # <<>> /\ f.changes \in Seq(Change(A)) /\ f.fee \in Int
    /\ FairFee(f, shape, rate)

(* The last step of fund, which keeps a change above the dust limit and      *)
(* gives a smaller one to the fee, leaves a fee that pays for the            *)
(* transaction and exceeds by less than the dust limit what one with a       *)
(* further output would need.                                                *)
LEMMA SettledGives ==
    ASSUME NEW C, NEW A, Policy \in A, NEW inputs \in Seq(C), inputs # <<>>,
           NEW changes \in Seq(Change(A)),
           NEW shape, IsShape(shape), NEW rate \in Nat, NEW rest \in Nat,
           NEW fee, fee = EstimatedFee(inputs, changes, shape, rate)
    PROVE  Funded(Settled(inputs, changes, fee, rest), C, A, shape, rate)
<1> DEFINE f == Settled(inputs, changes, fee, rest)
           n == Len(changes)
           b(m) == shape.blinded + IF AnyConfidential(inputs) THEN m ELSE 0
           size(m) == Vsize(shape.foreign + Len(inputs), shape.issuance, shape.fixed + m + 1, b(m))
<1>1. n \in Nat /\ Len(inputs) \in Nat /\ shape.foreign \in Nat /\ shape.fixed \in Nat /\ shape.blinded \in Nat
  BY DEF IsShape
<1>2. /\ f.inputs = inputs /\ f.fee = (IF rest < Dust THEN fee + rest ELSE fee)
      /\ f.changes = IF rest < Dust THEN changes ELSE Append(changes, [asset |-> Policy, value |-> rest])
  BY DEF Settled
<1>3. \A m \in Nat : SizeWith(f, shape, m) = size(m)
  BY <1>2 DEF SizeWith
<1>4. fee = rate * size(n + 1)
  <2> DEFINE o == shape.fixed + n + 2
             e == shape.fixed + (n + 1) + 1
             k == IF AnyConfidential(inputs) THEN n + 1 ELSE 0
  <2>1. o = e
    BY <1>1, SMTT(30)
  <2>2. fee = rate * Vsize(shape.foreign + Len(inputs), shape.issuance, o, shape.blinded + k)
    BY DEF EstimatedFee
  <2>3. size(n + 1) = Vsize(shape.foreign + Len(inputs), shape.issuance, e, shape.blinded + k)
    OBVIOUS
  <2> HIDE DEF o, e, k, size
  <2> QED BY <2>1, <2>2, <2>3
<1>5. \A m \in Nat : size(m) \in Int /\ size(m) <= size(m + 1)
  <2> SUFFICES ASSUME NEW m \in Nat PROVE size(m) \in Int /\ size(m) <= size(m + 1)
    OBVIOUS
  <2>1. b(m) \in Nat /\ b(m + 1) \in Nat /\ b(m) <= b(m + 1)
    BY <1>1, SMTT(30)
  <2>2. shape.foreign + Len(inputs) \in Nat /\ shape.fixed + m + 1 \in Nat /\ shape.fixed + (m + 1) + 1 \in Nat
        /\ shape.fixed + m + 1 <= shape.fixed + (m + 1) + 1
    <3>1. PICK x : x = shape.fixed
      OBVIOUS
    <3>2. x \in Nat
      BY <1>1, <3>1
    <3>3. x + m + 1 \in Nat /\ x + (m + 1) + 1 \in Nat /\ x + m + 1 <= x + (m + 1) + 1
      BY ONLY m \in Nat, <3>2
    <3>4. shape.foreign + Len(inputs) \in Nat
      BY <1>1
    <3> QED BY <3>1, <3>3, <3>4
  <2> HIDE DEF b
  <2> QED BY <2>1, <2>2, VsizeGrows
<1> HIDE DEF size, f
<1>6. \A m \in Nat : rate * size(m) \in Int /\ rate * size(m) <= rate * size(m + 1)
  <2> SUFFICES ASSUME NEW m \in Nat
               PROVE  rate * size(m) \in Int /\ rate * size(m) <= rate * size(m + 1)
    OBVIOUS
  <2>1. PICK x : x = size(m)
    OBVIOUS
  <2>2. PICK y : y = size(m + 1)
    OBVIOUS
  <2>3. x \in Int /\ y \in Int /\ x <= y
    BY <1>5, <2>1, <2>2
  <2>4. rate * x \in Int /\ rate * x <= rate * y
    BY <2>3, RateGrows
  <2> QED BY <2>1, <2>2, <2>4
<1>7. fee \in Int
  BY <1>1, <1>4, <1>6
<1>8. CASE rest < Dust
  <2>1. f.changes = changes /\ f.fee = fee + rest /\ Len(f.changes) = n
    BY <1>2, <1>8
  <2>2. rate * size(n) <= rate * size(n + 1) /\ rate * size(n) \in Int
    BY <1>1, <1>6
  <2>3. FairFee(f, shape, rate)
    BY <1>1, <1>3, <1>4, <1>7, <1>8, <2>1, <2>2 DEF FairFee, Dust
  <2> QED BY <1>2, <1>7, <2>1, <2>3 DEF Funded, f
<1>9. CASE ~(rest < Dust)
  <2>1. f.changes = Append(changes, [asset |-> Policy, value |-> rest]) /\ f.fee = fee
    BY <1>2, <1>9
  <2>2. [asset |-> Policy, value |-> rest] \in Change(A)
    BY DEF Change
  <2>3. f.changes \in Seq(Change(A)) /\ Len(f.changes) = n + 1
    BY <2>1, <2>2
  <2>4. n + 1 \in Nat /\ rate * size(n + 1) <= rate * size((n + 1) + 1)
        /\ rate * size((n + 1) + 1) \in Int
    BY <1>1, <1>6
  <2>5. FairFee(f, shape, rate)
    BY <1>3, <1>4, <1>7, <2>1, <2>3, <2>4 DEF FairFee, Dust
  <2> QED BY <1>2, <1>7, <2>1, <2>3, <2>5 DEF Funded, f
<1> QED BY <1>8, <1>9 DEF f

(* Coins with numbers for ids, values and assets, told apart by their ids.   *)
Proper(C) ==
    /\ IsFiniteSet(C)
    /\ \A c \in C : c.value \in Int /\ c.id \in Int /\ c.asset \in Int
    /\ \A c, d \in C : c.id = d.id => c = d

(* The pool of an asset is a list of candidate coins.                        *)
LEMMA PoolType ==
    ASSUME NEW C, Proper(C), NEW a PROVE Pool(C, a) \in Seq(C)
<1> DEFINE S == {c \in C : c.asset = a}
<1>1. IsFiniteSet(S)
  BY FS_Subset DEF Proper
<1>2. /\ \A c \in S : c.value \in Int /\ c.id \in Int
      /\ \A c, d \in S : c.id = d.id => c = d
  BY DEF Proper
<1>3. S \subseteq C
  OBVIOUS
<1>4. Pool(C, a) = Rank(S, Before)
  BY DEF Pool
<1> HIDE DEF S
<1>5. Rank(S, Before) \in Seq(S)
  BY ONLY <1>1, <1>2, RankCoins
<1>6. Pool(C, a) \in Seq(S)
  BY <1>4, <1>5
<1> QED BY <1>3, <1>6

(* The policy loop pays from the pool, and no more than it has to.           *)
LEMMA PayFeeGives ==
    ASSUME NEW C, \A c \in C : c.value \in Int, NEW A, Policy \in A, NEW inputs \in Seq(C),
           NEW changes \in Seq(Change(A)), NEW pool \in Seq(C), NEW need \in Int,
           NEW shape, IsShape(shape), NEW rate \in Nat,
           PayFee(inputs, changes, pool, need, shape, rate).ok
    PROVE  Funded(PayFee(inputs, changes, pool, need, shape, rate), C, A, shape, rate)
<1> DEFINE with(k) == inputs \o SubSeq(pool, 1, k)
           fee(k) == EstimatedFee(with(k), changes, shape, rate)
           rest(k) == Total(with(k), Policy) - need - fee(k)
           ready == {k \in 0..Len(pool) :
                       rest(k) >= Reserve(with(k), changes, shape) /\ with(k) # <<>>}
           m == Min(ready)
<1>1. PayFee(inputs, changes, pool, need, shape, rate) =
          IF ready = {} THEN Failure("InsufficientFunds")
          ELSE Settled(with(m), changes, fee(m), rest(m))
  BY DEF PayFee
<1>2. ready # {}
  BY <1>1 DEF Failure
<1>3. ready \subseteq 0..Len(pool) /\ Len(pool) \in Nat
  OBVIOUS
<1>4. m \in ready
  <2> HIDE DEF ready
  <2>1. ready \subseteq Nat
    BY <1>3
  <2> QED BY <1>2, <2>1, MinIn
<1>5. m \in 0..Len(pool) /\ rest(m) >= Reserve(with(m), changes, shape) /\ with(m) # <<>>
  BY <1>4
<1> HIDE DEF m, ready
<1>6. SubSeq(pool, 1, m) \in Seq(C)
  BY <1>3, <1>5
<1>7. with(m) \in Seq(C)
  BY <1>6
<1>8. Total(with(m), Policy) \in Int
  <2> HIDE DEF with
  <2> QED BY <1>7, TotalType
<1>9. fee(m) \in Int
  <2> DEFINE s == with(m)
  <2>1. Len(s) \in Nat /\ Len(changes) \in Nat
    BY <1>7
  <2> HIDE DEF s
  <2>2. PICK i, o, b : /\ i = shape.foreign + Len(s) /\ o = shape.fixed + Len(changes) + 2
                       /\ b = shape.blinded + IF AnyConfidential(s) THEN Len(changes) + 1 ELSE 0
    OBVIOUS
  <2>3. i \in Nat /\ o \in Nat /\ b \in Nat
    <3>1. PICK x, y, z, e : /\ x = shape.foreign /\ y = shape.fixed /\ z = shape.blinded
                            /\ e = IF AnyConfidential(s) THEN Len(changes) + 1 ELSE 0
      OBVIOUS
    <3>2. x \in Nat /\ y \in Nat /\ z \in Nat
      BY <3>1 DEF IsShape
    <3>3. e \in Nat
      BY ONLY <2>1, <3>1
    <3>4. i = x + Len(s) /\ o = y + Len(changes) + 2 /\ b = z + e
      BY <2>2, <3>1
    <3> QED BY ONLY <2>1, <3>2, <3>3, <3>4
  <2>4. Vsize(i, shape.issuance, o, b) \in Int
    BY <2>3, VsizeGrows
  <2>5. fee(m) = rate * Vsize(i, shape.issuance, o, b)
    BY <2>2 DEF EstimatedFee, s
  <2> HIDE DEF fee
  <2> QED BY <2>4, <2>5
<1>10. Reserve(with(m), changes, shape) \in Nat
  BY DEF Reserve, Dust
<1> HIDE DEF with
<1>11. rest(m) \in Int
  <2> HIDE DEF fee
  <2> QED BY <1>8, <1>9
<1>12. rest(m) \in Nat
  <2> HIDE DEF rest
  <2> QED BY <1>5, <1>10, <1>11
<1>13. PICK r : r = rest(m)
  OBVIOUS
<1>14. PICK s : s = with(m)
  OBVIOUS
<1>15. PICK f : f = fee(m)
  OBVIOUS
<1>16. r \in Nat /\ s \in Seq(C) /\ s # <<>> /\ f = EstimatedFee(s, changes, shape, rate)
  BY <1>5, <1>7, <1>12, <1>13, <1>14, <1>15
<1>17. Funded(Settled(s, changes, f, r), C, A, shape, rate)
  BY <1>16, SettledGives
<1> HIDE DEF rest, fee
<1> QED BY <1>1, <1>2, <1>13, <1>14, <1>15, <1>17

(* Tokens are covered by coins of the pool, and what is left over is a       *)
(* change of a token that was asked for or forced.                           *)
LEMMA CoveringType ==
    ASSUME NEW C, NEW forced, NEW pool \in Seq(C), NEW a, NEW need
    PROVE  Covering(forced, pool, a, need) \in Seq(C)
<1> DEFINE covers == {k \in 0..Len(pool) :
                        Total(forced, a) + Total(SubSeq(pool, 1, k), a) >= need}
<1>1. Covering(forced, pool, a, need) = IF covers = {} THEN pool ELSE SubSeq(pool, 1, Min(covers))
  BY DEF Covering
<1>2. CASE covers = {}
  BY <1>1, <1>2
<1>3. CASE covers # {}
  <2>1. covers \subseteq 0..Len(pool) /\ Len(pool) \in Nat
    OBVIOUS
  <2> HIDE DEF covers
  <2>2. covers \subseteq Nat
    BY <2>1
  <2>3. Min(covers) \in covers
    BY <1>3, <2>2, MinIn
  <2>4. Min(covers) \in 0..Len(pool)
    BY <2>1, <2>3
  <2>5. SubSeq(pool, 1, Min(covers)) \in Seq(C)
    BY <2>1, <2>4
  <2> QED BY <1>1, <1>3, <2>5
<1> QED BY <1>2, <1>3

(* Covering the tokens adds candidates to the forced inputs.                 *)
LEMMA CoverTokensType ==
    ASSUME NEW C, Proper(C), NEW candidates \in SUBSET C, NEW forced \in Seq(C), NEW needs,
           NEW tokens, IsFiniteSet(tokens), tokens \subseteq Int
    PROVE  CoverTokens(forced, candidates, needs, tokens) \in Seq(C)
<1> DEFINE order == Sorted(tokens)
           cover(i) == Covering(forced, Pool(candidates, order[i]), order[i], NeedOf(needs, order[i]))
           q == [i \in DOMAIN order |-> cover(i)]
<1>1. order \in Seq(tokens)
  BY SortedNumbers
<1>2. Proper(candidates)
  <2>1. IsFiniteSet(candidates)
    BY FS_Subset DEF Proper
  <2> QED BY <2>1 DEF Proper
<1> HIDE DEF order
<1>3. ASSUME NEW i PROVE cover(i) \in Seq(C)
  <2>1. Pool(candidates, order[i]) \in Seq(candidates)
    BY <1>2, PoolType
  <2>2. Pool(candidates, order[i]) \in Seq(C)
    BY <2>1
  <2> QED BY <2>2, CoveringType
<1> HIDE DEF cover
<1>4. q \in Seq(Seq(C))
  <2>1. DOMAIN order = 1..Len(order) /\ Len(order) \in Nat
    BY <1>1
  <2> QED BY <1>3, <2>1
<1> HIDE DEF q
<1>5. FlattenSeq(q) \in Seq(C)
  BY <1>4, Flattened
<1>6. CoverTokens(forced, candidates, needs, tokens) = forced \o FlattenSeq(q)
  BY DEF CoverTokens, q, cover, order
<1> QED BY <1>5, <1>6

(* The changes of the tokens are amounts of assets that were asked for or    *)
(* forced.                                                                   *)
LEMMA ChangesType ==
    ASSUME NEW C, \A c \in C : c.value \in Int, NEW inputs \in Seq(C), NEW A,
           NEW tokens, IsFiniteSet(tokens), tokens \subseteq Int, tokens \subseteq A,
           NEW needs, \A a \in DOMAIN needs : needs[a] \in Int
    PROVE  ChangesOf(inputs, tokens, needs) \in Seq(Change(A))
<1> DEFINE left(a) == Total(inputs, a) - NeedOf(needs, a)
           some == {a \in tokens : left(a) > 0}
           kept == Sorted(some)
           change(i) == [asset |-> kept[i], value |-> left(kept[i])]
<1>1. ASSUME NEW a PROVE left(a) \in Int
  <2>1. Total(inputs, a) \in Int
    BY TotalType
  <2>2. NeedOf(needs, a) \in Int
    BY DEF NeedOf
  <2> QED BY <2>1, <2>2
<1>2. some \subseteq tokens
  OBVIOUS
<1>3. ChangesOf(inputs, tokens, needs) = [i \in DOMAIN kept |-> change(i)]
  BY DEF ChangesOf
<1> HIDE DEF some, left
<1>4. IsFiniteSet(some) /\ some \subseteq Int /\ some \subseteq A
  BY <1>2, FS_Subset
<1>5. kept \in Seq(some)
  BY <1>4, SortedNumbers
<1> HIDE DEF kept
<1>6. DOMAIN kept = 1..Len(kept) /\ Len(kept) \in Nat /\ \A i \in DOMAIN kept : kept[i] \in A
  <2>1. kept \in Seq(A)
    BY <1>4, <1>5, SeqSubset
  <2> QED BY ONLY <2>1
<1>7. \A i \in DOMAIN kept : change(i) \in Change(A)
  BY <1>1, <1>6 DEF Change
<1> HIDE DEF change
<1> QED BY <1>3, <1>6, <1>7

(* What a funding consists of.                                               *)
LEMMA FundGives ==
    ASSUME NEW C, Proper(C), NEW candidates \in SUBSET C, NEW forced \in Seq(C),
           NEW needs, IsFiniteSet(DOMAIN needs), DOMAIN needs \subseteq Int,
           \A a \in DOMAIN needs : needs[a] \in Int,
           NEW shape, IsShape(shape), NEW rate, MaxFeeRate \in Nat,
           NEW A, Policy \in A, DOMAIN needs \subseteq A, \A c \in C : c.asset \in A,
           Fund(forced, candidates, needs, shape, rate).ok
    PROVE  Funded(Fund(forced, candidates, needs, shape, rate), C, A, shape, rate)
<1> DEFINE mine == {forced[i].asset : i \in DOMAIN forced}
           tokens == (DOMAIN needs \cup mine) \ {Policy}
           inputs == CoverTokens(forced, candidates, needs, tokens)
           changes == ChangesOf(inputs, tokens, needs)
           pool == Pool(candidates, Policy)
           result == PayFee(inputs, changes, pool, NeedOf(needs, Policy), shape, rate)
<1>1. /\ Fund(forced, candidates, needs, shape, rate) = result
      /\ rate \in 1..MaxFeeRate
  BY DEF Fund, FundTokens, Failure
<1>2. IsFiniteSet(tokens) /\ tokens \subseteq Int /\ tokens \subseteq A
  <2>1. IsFiniteSet(mine)
    <3>1. DOMAIN forced = 1..Len(forced) /\ Len(forced) \in Nat
      OBVIOUS
    <3>2. IsFiniteSet(1..Len(forced))
      BY ONLY <3>1, FS_Interval
    <3>3. PICK f : f = [i \in DOMAIN forced |-> forced[i].asset]
      OBVIOUS
    <3>4. f \in Surjection(DOMAIN forced, mine)
      BY <3>3 DEF Surjection
    <3> HIDE DEF mine
    <3> QED BY <3>1, <3>2, <3>4, FS_Surjection
  <2>2. mine \subseteq Int /\ mine \subseteq A
    BY DEF Proper
  <2> HIDE DEF mine
  <2>3. IsFiniteSet(DOMAIN needs \cup mine)
    BY <2>1, FS_Union
  <2>4. tokens \subseteq DOMAIN needs \cup mine
    OBVIOUS
  <2> HIDE DEF tokens
  <2>5. IsFiniteSet(tokens)
    BY ONLY <2>3, <2>4, FS_Subset
  <2> QED BY <2>2, <2>4, <2>5
<1> HIDE DEF tokens
<1>3. inputs \in Seq(C)
  BY <1>2, CoverTokensType
<1> HIDE DEF inputs
<1>4. changes \in Seq(Change(A))
  <2>1. \A c \in C : c.value \in Int
    BY DEF Proper
  <2> QED BY ONLY <1>2, <1>3, <2>1, \A a \in DOMAIN needs : needs[a] \in Int, ChangesType
<1> HIDE DEF changes
<1>5. pool \in Seq(C)
  <2>1. IsFiniteSet(candidates)
    BY FS_Subset DEF Proper
  <2>2. Proper(candidates)
    BY <2>1 DEF Proper
  <2>3. pool \in Seq(candidates)
    BY <2>2, PoolType
  <2> HIDE DEF pool
  <2> QED BY <2>3
<1> HIDE DEF pool
<1>6. NeedOf(needs, Policy) \in Int
  BY DEF NeedOf
<1>7. PICK need : need = NeedOf(needs, Policy)
  OBVIOUS
<1>8. rate \in Nat /\ \A c \in C : c.value \in Int
  BY <1>1 DEF Proper
<1>9. result = PayFee(inputs, changes, pool, need, shape, rate) /\ need \in Int /\ result.ok
  BY <1>1, <1>6, <1>7
<1> HIDE DEF result
<1>10. Funded(PayFee(inputs, changes, pool, need, shape, rate), C, A, shape, rate)
  BY <1>3, <1>4, <1>5, <1>8, <1>9, PayFeeGives
<1> QED BY <1>1, <1>9, <1>10

-----------------------------------------------------------------------------
(* What review and the builders establish of the PSETs they let through.     *)

(* What analyze accepts.                                                     *)
Analyzed(p, kind) ==
    /\ p.genesis = Genesis /\ p.ins # <<>> /\ p.outs # <<>>
    /\ ~(Confidential(p) /\ kind \in {"SwapOffer", "SwapTake"})
    /\ ~(Len(p.ins) > MaxPsetItems) /\ ~(Len(p.outs) > MaxPsetItems)
    /\ ~(Cardinality({p.ins[i].id : i \in DOMAIN p.ins}) < Len(p.ins))
    /\ \A i \in DOMAIN p.ins : InputAccepted(p, i, kind)
    /\ \A i \in DOMAIN p.outs : OutputAccepted(p, i)
    /\ Confidential(p) => CommitmentsBalance(p)
    /\ kind # "SwapOffer" => Cardinality(FeeOutputs(p)) = 1 /\ Conserved(p)
    /\ KindAccepted(p, kind)

Reviewed(p, kind) ==
    [ok |-> TRUE, pset |-> p, review |-> TxReview(p, kind),
     hash |-> ReviewCommitment(p, TxReview(p, kind))]

(* analyze: acceptance means that every check passed, and the review is that *)
(* of the PSET.                                                              *)
LEMMA AnalyzeGives ==
    ASSUME NEW p, NEW kind, Analyze(p, kind).ok
    PROVE  /\ Analyzed(p, kind)
           /\ Analyze(p, kind) = [ok |-> TRUE, review |-> TxReview(p, kind)]
<1>1. ASSUME NEW e PROVE ~Failure(e).ok
  BY DEF Failure
<1>2. p.genesis = Genesis /\ p.ins # <<>> /\ p.outs # <<>>
  BY <1>1 DEF Analyze
<1>3. ~(Confidential(p) /\ kind \in {"SwapOffer", "SwapTake"})
  BY <1>1, <1>2 DEF Analyze
<1>4. ~(Len(p.ins) > MaxPsetItems) /\ ~(Len(p.outs) > MaxPsetItems)
  BY <1>1, <1>2, <1>3 DEF Analyze
<1>5. ~(Cardinality({p.ins[i].id : i \in DOMAIN p.ins}) < Len(p.ins))
  BY <1>1, <1>2, <1>3, <1>4 DEF Analyze
<1> DEFINE rest == /\ \A i \in DOMAIN p.ins : InputAccepted(p, i, kind)
                   /\ \A i \in DOMAIN p.outs : OutputAccepted(p, i)
                   /\ Confidential(p) => CommitmentsBalance(p)
                   /\ kind # "SwapOffer" => Cardinality(FeeOutputs(p)) = 1 /\ Conserved(p)
                   /\ KindAccepted(p, kind)
<1>6. Analyze(p, kind) = IF rest THEN [ok |-> TRUE, review |-> TxReview(p, kind)]
                         ELSE Failure("InvalidPset")
  BY <1>2, <1>3, <1>4, <1>5 DEF Analyze
<1>7. rest
  <2> HIDE DEF rest
  <2> QED BY <1>1, <1>6
<1> QED BY <1>2, <1>3, <1>4, <1>5, <1>6, <1>7 DEF Analyzed

(* review: the same, with the PSET and its commitment.                       *)
LEMMA ReviewGives ==
    ASSUME NEW p, NEW kind, ReviewPset(p, kind).ok
    PROVE  Analyzed(p, kind) /\ ReviewPset(p, kind) = Reviewed(p, kind)
<1>1. Analyze(p, kind).ok
  BY DEF ReviewPset
<1>2. /\ Analyzed(p, kind)
      /\ Analyze(p, kind) = [ok |-> TRUE, review |-> TxReview(p, kind)]
  BY <1>1, AnalyzeGives
<1> QED BY <1>2 DEF ReviewPset, Reviewed

(* A finished request is a reviewed PSET.                                    *)
LEMMA FinishGives ==
    ASSUME NEW ins, NEW outs, NEW kind, NEW funded, Finish(ins, outs, kind, funded).ok
    PROVE  LET p == [genesis |-> Genesis, ins |-> ins, outs |-> outs]
           IN  Analyzed(p, kind) /\ Finish(ins, outs, kind, funded) = Reviewed(p, kind)
<1> DEFINE p == [genesis |-> Genesis, ins |-> ins, outs |-> outs]
<1>1. ASSUME NEW e PROVE ~Failure(e).ok
  BY DEF Failure
<1>2. Finish(ins, outs, kind, funded) = ReviewPset(p, kind)
  BY <1>1 DEF Finish
<1> QED BY <1>2, ReviewGives

(* The parts of a funded PSET: makers' inputs, then the wallet's; the outputs *)
(* of the request, then the changes and the fee.                             *)
Own(own, f) ==
    /\ IsSeq(own) /\ Len(own) = Len(f.inputs)
    /\ \A i \in 1..Len(own) :
         own[i] = [WalletInput(f.inputs[i], "ALL") EXCEPT !.issuance = own[i].issuance]

Assembled(p, f, makers, head) ==
    /\ p = [genesis |-> Genesis, ins |-> p.ins, outs |-> p.outs]
    /\ IsSeq(p.ins) /\ IsSeq(p.outs)
    /\ Len(p.ins) = Len(makers) + Len(f.inputs)
    /\ \A i \in 1..Len(makers) : p.ins[i] = makers[i]
    /\ \A i \in 1..Len(f.inputs) :
         p.ins[Len(makers) + i] = [WalletInput(f.inputs[i], "ALL") EXCEPT
                                     !.issuance = p.ins[Len(makers) + i].issuance]
    /\ Len(p.outs) = Len(head) + Len(f.changes) + 1
    /\ \A i \in 1..Len(head) : p.outs[i] = head[i]
    /\ \A i \in 1..Len(f.changes) :
         p.outs[Len(head) + i] = WalletOutput(f.changes[i].asset, f.changes[i].value,
                                              AnyConfidential(f.inputs))
    /\ p.outs[Len(p.outs)] = FeeOutput(f.fee)

(* The inputs that fund makes of its coins are the wallet's own.             *)
LEMMA InputsOwn ==
    ASSUME NEW C, NEW f, f.inputs \in Seq(C)
    PROVE  Own(WalletInputs(f.inputs), f)
<1> DEFINE w == WalletInputs(f.inputs)
<1>1. DOMAIN f.inputs = 1..Len(f.inputs) /\ Len(f.inputs) \in Nat
  OBVIOUS
<1>2. w = [i \in 1..Len(f.inputs) |-> w[i]] /\ \A i \in 1..Len(f.inputs) : w[i] = WalletInput(f.inputs[i], "ALL")
  BY <1>1 DEF WalletInputs
<1> HIDE DEF w
<1>3. IsSeq(w) /\ Len(w) = Len(f.inputs)
  BY <1>1, <1>2, Listed
<1>4. \A i \in 1..Len(w) : w[i] = [WalletInput(f.inputs[i], "ALL") EXCEPT !.issuance = w[i].issuance]
  BY <1>2, <1>3 DEF WalletInput
<1> QED BY <1>3, <1>4 DEF Own, w

(* An issuance on the first of them changes nothing else.                    *)
LEMMA IssuerOwn ==
    ASSUME NEW own, NEW f, Own(own, f), NEW x
    PROVE  Own([own EXCEPT ![1].issuance = x], f)
<1> DEFINE w == [own EXCEPT ![1].issuance = x]
<1>1. own = [i \in 1..Len(own) |-> own[i]] /\ Len(own) \in Nat
  BY DEF Own, IsSeq
<1>2. w = [i \in 1..Len(own) |-> IF i = 1 THEN [own[i] EXCEPT !.issuance = x] ELSE own[i]]
  BY <1>1
<1>3. w = [i \in 1..Len(own) |-> w[i]]
  BY <1>2
<1>4. \A i \in 1..Len(own) : w[i] = IF i = 1 THEN [own[i] EXCEPT !.issuance = x] ELSE own[i]
  BY <1>2
<1> HIDE DEF w
<1>5. IsSeq(w) /\ Len(w) = Len(own)
  BY <1>1, <1>3, Listed
<1>6. \A i \in 1..Len(w) : w[i] = [WalletInput(f.inputs[i], "ALL") EXCEPT !.issuance = w[i].issuance]
  <2> SUFFICES ASSUME NEW i \in 1..Len(w)
               PROVE  w[i] = [WalletInput(f.inputs[i], "ALL") EXCEPT !.issuance = w[i].issuance]
    OBVIOUS
  <2>1. PICK v, c, r : v = own[i] /\ c = f.inputs[i] /\ r = w[i]
    OBVIOUS
  <2>2. v = [WalletInput(c, "ALL") EXCEPT !.issuance = v.issuance]
    BY <1>5, <2>1 DEF Own
  <2>3. r = v \/ r = [v EXCEPT !.issuance = x]
    BY <1>4, <1>5, <2>1
  <2>4. r = [WalletInput(c, "ALL") EXCEPT !.issuance = r.issuance]
    BY ONLY <2>2, <2>3 DEF WalletInput
  <2> QED BY <2>1, <2>4
<1> QED BY <1>5, <1>6 DEF Own, w

(* The outputs that fund adds: the changes in order, and the fee.            *)
LEMMA ChangesListed ==
    ASSUME NEW A, NEW f, f.changes \in Seq(Change(A))
    PROVE  LET t == ChangesAndFee(f)
           IN  /\ IsSeq(t) /\ Len(t) = Len(f.changes) + 1
               /\ \A i \in 1..Len(f.changes) :
                    t[i] = WalletOutput(f.changes[i].asset, f.changes[i].value, AnyConfidential(f.inputs))
               /\ t[Len(f.changes) + 1] = FeeOutput(f.fee)
<1> DEFINE out(i) == WalletOutput(f.changes[i].asset, f.changes[i].value, AnyConfidential(f.inputs))
           n == Len(f.changes)
           q == [i \in 1..n |-> out(i)]
           S == {out(i) : i \in 1..n} \cup {FeeOutput(f.fee)}
           t == ChangesAndFee(f)
<1>1. DOMAIN f.changes = 1..n /\ n \in Nat
  OBVIOUS
<1>2. t = Append(q, FeeOutput(f.fee))
  BY <1>1 DEF ChangesAndFee
<1>3. \A i \in 1..n : out(i) \in S
  OBVIOUS
<1>4. FeeOutput(f.fee) \in S
  OBVIOUS
<1> HIDE DEF S, t, n, out
<1>5. q \in Seq(S) /\ Len(q) = n
  BY <1>1, <1>3
<1>6. \A i \in 1..n : q[i] = out(i)
  OBVIOUS
<1> HIDE DEF q
<1>7. t \in Seq(S) /\ Len(t) = n + 1 /\ t[n + 1] = FeeOutput(f.fee) /\ \A i \in 1..n : t[i] = q[i]
  BY <1>1, <1>2, <1>4, <1>5
<1> QED BY <1>6, <1>7, SeqIs DEF n, out, t

(* A PSET put together from makers' inputs, the wallet's, the outputs of the *)
(* request, and what fund adds.                                              *)
LEMMA Assembles ==
    ASSUME NEW A, NEW f, f.changes \in Seq(Change(A)), NEW makers, IsSeq(makers),
           NEW own, Own(own, f), NEW head, IsSeq(head)
    PROVE  Assembled([genesis |-> Genesis, ins |-> makers \o own, outs |-> head \o ChangesAndFee(f)],
                     f, makers, head)
<1> DEFINE t == ChangesAndFee(f)
           p == [genesis |-> Genesis, ins |-> makers \o own, outs |-> head \o t]
<1>1. /\ IsSeq(t) /\ Len(t) = Len(f.changes) + 1
      /\ \A i \in 1..Len(f.changes) :
           t[i] = WalletOutput(f.changes[i].asset, f.changes[i].value, AnyConfidential(f.inputs))
      /\ t[Len(f.changes) + 1] = FeeOutput(f.fee)
  BY ChangesListed
<1>2. Len(f.changes) \in Nat
  OBVIOUS
<1> HIDE DEF t
<1>3. p.genesis = Genesis /\ p.ins = makers \o own /\ p.outs = head \o t
  OBVIOUS
<1>3a. p = [genesis |-> Genesis, ins |-> p.ins, outs |-> p.outs]
  OBVIOUS
<1> HIDE DEF p
<1>4. /\ IsSeq(p.ins) /\ Len(p.ins) = Len(makers) + Len(own)
      /\ \A i \in 1..Len(makers) : p.ins[i] = makers[i]
      /\ \A i \in 1..Len(own) : p.ins[Len(makers) + i] = own[i]
  <2>1. PICK q : q = makers \o own
    OBVIOUS
  <2>2. IsSeq(own)
    BY DEF Own
  <2>3. /\ IsSeq(q) /\ Len(q) = Len(makers) + Len(own)
        /\ \A i \in 1..Len(makers) : q[i] = makers[i]
        /\ \A i \in 1..Len(own) : q[Len(makers) + i] = own[i]
    BY <2>1, <2>2, Joined
  <2> QED BY <1>3, <2>1, <2>3
<1>5. /\ IsSeq(p.outs) /\ Len(p.outs) = Len(head) + Len(t)
      /\ \A i \in 1..Len(head) : p.outs[i] = head[i]
      /\ \A i \in 1..Len(t) : p.outs[Len(head) + i] = t[i]
  <2>1. PICK q : q = head \o t
    OBVIOUS
  <2>2. /\ IsSeq(q) /\ Len(q) = Len(head) + Len(t)
        /\ \A i \in 1..Len(head) : q[i] = head[i]
        /\ \A i \in 1..Len(t) : q[Len(head) + i] = t[i]
    <3>1. IsSeq(t)
      BY <1>1
    <3> QED BY ONLY <2>1, <3>1, IsSeq(head), Joined
  <2> QED BY <1>3, <2>1, <2>2
<1>6. Len(p.ins) = Len(makers) + Len(f.inputs)
  BY <1>4 DEF Own
<1>7. \A i \in 1..Len(f.inputs) :
         p.ins[Len(makers) + i] = [WalletInput(f.inputs[i], "ALL") EXCEPT
                                     !.issuance = p.ins[Len(makers) + i].issuance]
  BY <1>4 DEF Own
<1>8. Len(head) \in Nat
  BY DEF IsSeq
<1>9. Len(p.outs) = Len(head) + Len(f.changes) + 1
  BY <1>1, <1>2, <1>5, <1>8
<1>10. \A i \in 1..Len(f.changes) :
         p.outs[Len(head) + i] = WalletOutput(f.changes[i].asset, f.changes[i].value,
                                              AnyConfidential(f.inputs))
  <2>1. \A i \in 1..Len(f.changes) : i \in 1..Len(t)
    BY <1>1, <1>2
  <2> QED BY <1>1, <1>5, <2>1
<1>11. p.outs[Len(p.outs)] = FeeOutput(f.fee)
  <2>1. Len(t) \in 1..Len(t) /\ Len(p.outs) = Len(head) + Len(t)
    BY <1>1, <1>2, <1>5
  <2> QED BY <1>1, <1>5, <2>1
<1>12. Assembled(p, f, makers, head)
  BY <1>3, <1>3a, <1>4, <1>5, <1>6, <1>7, <1>9, <1>10, <1>11 DEF Assembled
<1> QED BY <1>12 DEF p, t

(* The coins a request may use.                                              *)
Usable(C, A) ==
    /\ Proper(C) /\ A \subseteq Int /\ Policy \in A
    /\ \A c \in C : c.asset \in A

(* What a funded request prepares.                                           *)
Prepares(res, kind, p, f, C, A, shape, rate, makers, head) ==
    /\ res = Reviewed(p, kind) /\ Analyzed(p, kind)
    /\ Funded(f, C, A, shape, rate) /\ Assembled(p, f, makers, head)

(* Without makers, the wallet's inputs are all there are.                    *)
LEMMA NoMakers == ASSUME NEW own, NEW f, Own(own, f) PROVE <<>> \o own = own
<1>1. own \in Seq({own[i] : i \in 1..Len(own)})
  BY IsSeqOf DEF Own
<1> QED BY <1>1

(* prepare_transfer, when it succeeds: an amount in range, and a funded PSET *)
(* that pays the recipient.                                                  *)
LEMMA TransferGives ==
    ASSUME NEW C, NEW A, Usable(C, A), NEW asset \in A, NEW amount, NEW key, NEW rate,
           PrepareTransfer(C, asset, amount, key, rate).ok
    PROVE  /\ amount \in 1..MaxMoney
           /\ \E p, f : Prepares(PrepareTransfer(C, asset, amount, key, rate), "Transfer", p, f, C, A,
                                 Shape(0, FALSE, 1, IF key = "none" THEN 0 ELSE 1), rate,
                                 <<>>, <<Recipient(asset, amount, key)>>)
<1> DEFINE shape == Shape(0, FALSE, 1, IF key = "none" THEN 0 ELSE 1)
           needs == Only(asset, amount)
           f == Fund(<<>>, C, needs, shape, rate)
           w == WalletInputs(f.inputs)
           head == <<Recipient(asset, amount, key)>>
           outs == head \o ChangesAndFee(f)
           p == [genesis |-> Genesis, ins |-> w, outs |-> outs]
           res == PrepareTransfer(C, asset, amount, key, rate)
<1>1. ASSUME NEW e PROVE ~Failure(e).ok
  BY DEF Failure
<1>2. /\ amount \in 1..MaxMoney /\ f.ok
      /\ res = Finish(w, outs, "Transfer", Len(f.inputs))
  <2> HIDE DEF f, w, outs
  <2>1. res = IF ~AmountAccepted(amount) \/ ~UtxosAccepted(C) THEN Failure("InvalidRequest")
              ELSE IF ~f.ok THEN f
              ELSE Finish(w, outs, "Transfer", Len(f.inputs))
    BY DEF PrepareTransfer, f, w, outs
  <2> HIDE DEF res
  <2>2. res.ok
    BY DEF res
  <2> QED BY <1>1, <2>1, <2>2 DEF AmountAccepted
<1>3. Analyzed(p, "Transfer") /\ res = Reviewed(p, "Transfer")
  BY <1>2, FinishGives
<1>4. Funded(f, C, A, shape, rate)
  <2>1. needs = [x \in {asset} |-> amount]
    BY DEF Only
  <2>2. DOMAIN needs = {asset} /\ \A a \in DOMAIN needs : needs[a] \in Int
    BY <1>2, <2>1, BoundsAssumption
  <2>3. IsFiniteSet(DOMAIN needs) /\ DOMAIN needs \subseteq Int /\ DOMAIN needs \subseteq A
    BY <2>2, FS_Singleton DEF Usable
  <2>4. IsShape(shape)
    BY DEF IsShape, Shape
  <2>5. <<>> \in Seq(C) /\ C \in SUBSET C
    OBVIOUS
  <2>6. MaxFeeRate \in Nat
    BY BoundsAssumption
  <2> HIDE DEF needs, shape
  <2> QED BY <1>2, <2>2, <2>3, <2>4, <2>5, <2>6, FundGives DEF Usable
<1>5. Assembled([genesis |-> Genesis, ins |-> <<>> \o w, outs |-> outs], f, <<>>, head)
  <2>1. Own(w, f)
    BY <1>4, InputsOwn DEF Funded
  <2>2. f.changes \in Seq(Change(A))
    BY <1>4 DEF Funded
  <2> HIDE DEF f, w
  <2> QED BY <2>1, <2>2, One, NoElement, Assembles
<1>6. <<>> \o w = w
  BY <1>4, InputsOwn, NoMakers DEF Funded
<1>7. Assembled(p, f, <<>>, head)
  BY <1>5, <1>6
<1> HIDE DEF p, f, res, shape, head
<1>8. Prepares(res, "Transfer", p, f, C, A, shape, rate, <<>>, head)
  BY <1>3, <1>4, <1>7 DEF Prepares
<1> QED BY <1>2, <1>8 DEF res, shape, head

(* A request funded from the coins alone: the funding and what it prepares.  *)
LEMMA FundedGives ==
    ASSUME NEW C, NEW A, Usable(C, A), NEW candidates \in SUBSET C, NEW forced \in Seq(C),
           NEW needs, IsFiniteSet(DOMAIN needs), DOMAIN needs \subseteq A,
           \A a \in DOMAIN needs : needs[a] \in Int, NEW shape, IsShape(shape), NEW rate,
           NEW f, f = Fund(forced, candidates, needs, shape, rate), f.ok,
           NEW own, f.inputs # <<>> /\ Own(WalletInputs(f.inputs), f) => Own(own, f),
           NEW head, IsSeq(head), NEW kind, NEW funded,
           NEW res, res = Finish(own, head \o ChangesAndFee(f), kind, funded), res.ok
    PROVE  LET p == [genesis |-> Genesis, ins |-> own, outs |-> head \o ChangesAndFee(f)]
           IN  Prepares(res, kind, p, f, C, A, shape, rate, <<>>, head)
<1> DEFINE outs == head \o ChangesAndFee(f)
           p == [genesis |-> Genesis, ins |-> own, outs |-> outs]
<1>1. Analyzed(p, kind) /\ res = Reviewed(p, kind)
  BY FinishGives
<1>2. Funded(f, C, A, shape, rate)
  <2>1. DOMAIN needs \subseteq Int
    BY DEF Usable
  <2>2. MaxFeeRate \in Nat
    BY BoundsAssumption
  <2> QED BY <2>1, <2>2, FundGives DEF Usable
<1>3. Own(own, f)
  BY <1>2, InputsOwn DEF Funded
<1>4. <<>> \o own = own
  BY <1>3, NoMakers
<1>5. f.changes \in Seq(Change(A))
  BY <1>2 DEF Funded
<1>6. IsSeq(<<>>)
  BY NoElement
<1>7. Assembled([genesis |-> Genesis, ins |-> <<>> \o own, outs |-> outs], f, <<>>, head)
  BY ONLY <1>3, <1>5, <1>6, IsSeq(head), Assembles
<1>8. Assembled(p, f, <<>>, head)
  BY <1>4, <1>7
<1> HIDE DEF p
<1>9. Prepares(res, kind, p, f, C, A, shape, rate, <<>>, head)
  BY <1>1, <1>2, <1>8 DEF Prepares
<1> QED BY <1>9 DEF p

(* A request that needs no asset has the empty function for its needs.       *)
LEMMA NoNeed ==
    /\ DOMAIN <<>> = {} /\ IsFiniteSet(DOMAIN <<>>)
    /\ \A a \in DOMAIN <<>> : <<>>[a] \in Int
<1>1. DOMAIN <<>> = {}
  OBVIOUS
<1> QED BY <1>1, FS_EmptySet

(* prepare_offer_split, when it succeeds: an output of the amount to the     *)
(* wallet, in public.                                                        *)
LEMMA SplitGives ==
    ASSUME NEW C, NEW A, Usable(C, A), NEW asset \in A, NEW amount, NEW rate,
           PrepareOfferSplit(C, asset, amount, rate).ok
    PROVE  /\ amount \in 1..MaxMoney
           /\ \E p, f : Prepares(PrepareOfferSplit(C, asset, amount, rate), "OfferSplit", p, f, C, A,
                                 Shape(0, FALSE, 1, 0), rate,
                                 <<>>, <<WalletOutput(asset, amount, FALSE)>>)
<1> DEFINE shape == Shape(0, FALSE, 1, 0)
           needs == Only(asset, amount)
           f == Fund(<<>>, C, needs, shape, rate)
           w == WalletInputs(f.inputs)
           head == <<WalletOutput(asset, amount, FALSE)>>
           outs == head \o ChangesAndFee(f)
           res == PrepareOfferSplit(C, asset, amount, rate)
<1>1. ASSUME NEW e PROVE ~Failure(e).ok
  BY DEF Failure
<1>2. /\ amount \in 1..MaxMoney /\ f.ok
      /\ res = Finish(w, outs, "OfferSplit", Len(f.inputs))
  <2> HIDE DEF f, w, outs
  <2>1. res = IF ~AmountAccepted(amount) \/ ~UtxosAccepted(C) THEN Failure("InvalidRequest")
              ELSE IF ~f.ok THEN f
              ELSE Finish(w, outs, "OfferSplit", Len(f.inputs))
    BY DEF PrepareOfferSplit, f, w, outs
  <2> HIDE DEF res
  <2>2. res.ok
    BY DEF res
  <2> QED BY <1>1, <2>1, <2>2 DEF AmountAccepted
<1>3. amount \in Int
  BY <1>2, BoundsAssumption
<1>4. IsShape(shape)
  BY DEF IsShape, Shape
<1>5. IsSeq(head)
  BY One
<1>6. <<>> \in Seq(C) /\ C \in SUBSET C
  OBVIOUS
<1>7. IsFiniteSet(DOMAIN needs) /\ DOMAIN needs \subseteq A /\ \A a \in DOMAIN needs : needs[a] \in Int
  <2>1. DOMAIN needs = {asset} /\ \A a \in DOMAIN needs : needs[a] \in Int
    BY <1>3 DEF Only
  <2> HIDE DEF needs
  <2> QED BY <2>1, FS_Singleton
<1>8. PICK g, own : g = f /\ own = w
  OBVIOUS
<1>9. g = Fund(<<>>, C, needs, shape, rate) /\ g.ok /\ own = WalletInputs(g.inputs)
  BY <1>2, <1>8
<1>10. res = Finish(own, head \o ChangesAndFee(g), "OfferSplit", Len(g.inputs)) /\ res.ok
  BY <1>2, <1>8
<1> HIDE DEF needs, shape, head, res, f, w
<1>11. Prepares(res, "OfferSplit",
                [genesis |-> Genesis, ins |-> own, outs |-> head \o ChangesAndFee(g)],
                g, C, A, shape, rate, <<>>, head)
  BY <1>4, <1>5, <1>6, <1>7, <1>9, <1>10, FundedGives
<1> QED BY <1>2, <1>11 DEF res, shape, head

(* prepare_cancel, when it succeeds: the coin of the offer goes back, and    *)
(* nothing else is asked for.                                                *)
LEMMA CancelGives ==
    ASSUME NEW C, NEW A, Usable(C, A), NEW coin \in C, NEW others \in SUBSET C, NEW rate,
           PrepareCancel(coin, others, rate).ok
    PROVE  \E p, f : Prepares(PrepareCancel(coin, others, rate), "Cancel", p, f, C, A,
                              Shape(0, FALSE, 0, 0), rate, <<>>, <<>>)
<1> DEFINE shape == Shape(0, FALSE, 0, 0)
           needs == <<>>
           f == Fund(<<coin>>, others, needs, shape, rate)
           w == WalletInputs(f.inputs)
           res == PrepareCancel(coin, others, rate)
<1>1. ASSUME NEW e PROVE ~Failure(e).ok
  BY DEF Failure
<1>2. /\ f.ok
      /\ res = Finish(w, ChangesAndFee(f), "Cancel", Len(f.inputs))
  <2> HIDE DEF f, w
  <2>1. res = IF ~UtxoAccepted(coin) \/ ~UtxosAccepted(others) THEN Failure("InvalidRequest")
              ELSE IF ~f.ok THEN f
              ELSE IF f.changes = <<>> THEN Failure("InsufficientFunds")
              ELSE Finish(w, ChangesAndFee(f), "Cancel", Len(f.inputs))
    BY DEF PrepareCancel, f, w
  <2> HIDE DEF res
  <2>2. res.ok
    BY DEF res
  <2> QED BY <1>1, <2>1, <2>2
<1>4. IsShape(shape)
  BY DEF IsShape, Shape
<1>5. IsSeq(<<>>)
  BY NoElement
<1>6. <<coin>> \in Seq(C)
  OBVIOUS
<1>7. IsFiniteSet(DOMAIN needs) /\ DOMAIN needs \subseteq A /\ \A a \in DOMAIN needs : needs[a] \in Int
  BY NoNeed
<1>8. PICK g, own : g = f /\ own = w
  OBVIOUS
<1>9. g = Fund(<<coin>>, others, needs, shape, rate) /\ g.ok /\ own = WalletInputs(g.inputs)
  BY <1>2, <1>8
<1>10. <<>> \o ChangesAndFee(f) = ChangesAndFee(f)
  <2>1. Funded(f, C, A, shape, rate)
    <3>1. DOMAIN needs \subseteq Int
      BY <1>7 DEF Usable
    <3>2. MaxFeeRate \in Nat
      BY BoundsAssumption
    <3> HIDE DEF needs, shape
    <3> QED BY <1>2, <1>4, <1>6, <1>7, <3>1, <3>2, FundGives DEF Usable
  <2>2. IsSeq(ChangesAndFee(f))
    BY <2>1, ChangesListed DEF Funded
  <2> HIDE DEF f
  <2>3. PICK t : t = ChangesAndFee(f)
    OBVIOUS
  <2>4. t \in Seq({t[i] : i \in 1..Len(t)})
    BY <2>2, <2>3, IsSeqOf
  <2> QED BY <2>3, <2>4
<1>11. res = Finish(own, <<>> \o ChangesAndFee(g), "Cancel", Len(g.inputs)) /\ res.ok
  BY <1>2, <1>8, <1>10
<1> HIDE DEF needs, shape, res, f, w
<1>12. Prepares(res, "Cancel",
                [genesis |-> Genesis, ins |-> own, outs |-> <<>> \o ChangesAndFee(g)],
                g, C, A, shape, rate, <<>>, <<>>)
  BY <1>4, <1>5, <1>6, <1>7, <1>9, <1>11, FundedGives
<1> QED BY <1>12 DEF res, shape

(* An issuance: the first input carries it, its outputs come first.          *)
IssueHead(id, amount, tokens) ==
    <<WalletOutput(IssuanceIds(id).asset, amount, FALSE)>> \o
    (IF tokens > 0 THEN <<WalletOutput(IssuanceIds(id).token, tokens, FALSE)>> ELSE <<>>)

Heads(tokens) == IF tokens > 0 THEN 2 ELSE 1

Issues(res, p, f, C, A, amount, tokens, rate) ==
    /\ Prepares(res, "Issuance", p, f, C, A, Shape(0, TRUE, Heads(tokens), 0), rate,
                <<>>, IssueHead(f.inputs[1].id, amount, tokens))
    /\ p.ins[1].issuance = [amount |-> amount, tokens |-> tokens]

(* prepare_issuance, when it succeeds: the first coin carries the issuance.  *)
LEMMA IssueGives ==
    ASSUME NEW C, NEW A, Usable(C, A), NEW amount, NEW tokens, NEW rate,
           PrepareIssuance(C, amount, tokens, rate).ok
    PROVE  /\ amount \in 1..MaxMoney /\ ~(tokens > MaxMoney)
           /\ \E p, f : Issues(PrepareIssuance(C, amount, tokens, rate), p, f, C, A, amount, tokens, rate)
<1> DEFINE shape == Shape(0, TRUE, Heads(tokens), 0)
           needs == <<>>
           f == Fund(<<>>, C, needs, shape, rate)
           x == [amount |-> amount, tokens |-> tokens]
           w == [WalletInputs(f.inputs) EXCEPT ![1].issuance = x]
           issued == <<WalletOutput(IssuanceIds(f.inputs[1].id).asset, amount, FALSE)>>
           token == IF tokens > 0 THEN <<WalletOutput(IssuanceIds(f.inputs[1].id).token, tokens, FALSE)>>
                    ELSE <<>>
           head == IssueHead(f.inputs[1].id, amount, tokens)
           res == PrepareIssuance(C, amount, tokens, rate)
<1>1. ASSUME NEW e PROVE ~Failure(e).ok
  BY DEF Failure
<1>2. /\ amount \in 1..MaxMoney /\ ~(tokens > MaxMoney) /\ f.ok
      /\ res = Finish(w, issued \o token \o ChangesAndFee(f), "Issuance", Len(f.inputs))
  <2> HIDE DEF f, w, issued, token
  <2>1. res = IF ~AmountAccepted(amount) \/ tokens > MaxMoney \/ ~UtxosAccepted(C)
              THEN Failure("InvalidRequest")
              ELSE IF ~f.ok THEN f
              ELSE Finish(w, issued \o token \o ChangesAndFee(f), "Issuance", Len(f.inputs))
    BY DEF PrepareIssuance, f, w, issued, token, Heads
  <2> HIDE DEF res
  <2>2. res.ok
    BY DEF res
  <2> QED BY <1>1, <2>1, <2>2 DEF AmountAccepted
<1>4. IsShape(shape)
  BY DEF IsShape, Shape, Heads
<1>5. IsSeq(issued) /\ IsSeq(token)
  BY One, NoElement
<1>6. IsSeq(head)
  <2>1. head = issued \o token
    BY DEF IssueHead
  <2> HIDE DEF head, issued, token
  <2> QED BY <1>5, <2>1, Joined
<1>7. IsFiniteSet(DOMAIN needs) /\ DOMAIN needs \subseteq A /\ \A a \in DOMAIN needs : needs[a] \in Int
  BY NoNeed
<1>8. <<>> \in Seq(C) /\ C \in SUBSET C
  OBVIOUS
<1>9. PICK g, own, h : g = f /\ own = w /\ h = head
  OBVIOUS
<1>10. g = Fund(<<>>, C, needs, shape, rate) /\ g.ok
  BY <1>2, <1>9
<1>11. Own(WalletInputs(g.inputs), g) => Own(own, g)
  <2>1. own = [WalletInputs(g.inputs) EXCEPT ![1].issuance = x]
    BY <1>9
  <2> HIDE DEF x
  <2> QED BY <2>1, IssuerOwn
<1>12. res = Finish(own, h \o ChangesAndFee(g), "Issuance", Len(g.inputs)) /\ res.ok
  BY <1>2, <1>9 DEF IssueHead
<1>13. h = IssueHead(g.inputs[1].id, amount, tokens) /\ IsSeq(h)
  BY <1>6, <1>9
<1>14. own = [WalletInputs(g.inputs) EXCEPT ![1].issuance = x]
  BY <1>9
<1> HIDE DEF needs, shape, head, res, f, w, issued, token
<1> DEFINE p == [genesis |-> Genesis, ins |-> own, outs |-> h \o ChangesAndFee(g)]
<1>15. Prepares(res, "Issuance", p, g, C, A, shape, rate, <<>>, h)
  BY <1>4, <1>7, <1>8, <1>10, <1>11, <1>12, <1>13, FundedGives
<1>16. p.ins[1].issuance = x
  <2>1. g.inputs \in Seq(C) /\ g.inputs # <<>>
    BY <1>15 DEF Prepares, Funded
  <2>2. 1 \in DOMAIN g.inputs
    BY <2>1
  <2>3. WalletInputs(g.inputs) = [i \in DOMAIN g.inputs |-> WalletInput(g.inputs[i], "ALL")]
    BY DEF WalletInputs
  <2>4. own[1] = [WalletInput(g.inputs[1], "ALL") EXCEPT !.issuance = x]
    BY <1>14, <2>2, <2>3
  <2> QED BY <2>4 DEF WalletInput
<1> HIDE DEF p
<1>17. Issues(res, p, g, C, A, amount, tokens, rate)
  BY <1>13, <1>15, <1>16 DEF Issues, shape, x
<1> QED BY <1>2, <1>17 DEF res

(* prepare_swap_offer, when it succeeds: one public coin against one output. *)
LEMMA OfferGives ==
    ASSUME NEW coin, NEW want, NEW amount, PrepareSwapOffer(coin, want, amount).ok
    PROVE  LET p == [genesis |-> Genesis,
                     ins |-> <<WalletInput(coin, "SINGLE|ANYONECANPAY")>>,
                     outs |-> <<WalletOutput(want, amount, FALSE)>>]
           IN  /\ amount \in 1..MaxMoney /\ coin.asset # want /\ ~coin.conf
               /\ PrepareSwapOffer(coin, want, amount) = Reviewed(p, "SwapOffer")
               /\ Analyzed(p, "SwapOffer")
<1> DEFINE ins == <<WalletInput(coin, "SINGLE|ANYONECANPAY")>>
           outs == <<WalletOutput(want, amount, FALSE)>>
           res == PrepareSwapOffer(coin, want, amount)
<1>1. ASSUME NEW e PROVE ~Failure(e).ok
  BY DEF Failure
<1>2. ins = <<WalletInput(coin, KindSighash("SwapOffer"))>>
  BY DEF KindSighash
<1> HIDE DEF ins
<1>3. /\ amount \in 1..MaxMoney /\ coin.asset # want /\ ~coin.conf
      /\ res = Finish(ins, outs, "SwapOffer", 0)
  BY <1>1, <1>2 DEF PrepareSwapOffer, AmountAccepted
<1>4. Finish(ins, outs, "SwapOffer", 0).ok
  BY <1>3
<1> QED BY <1>3, <1>4, FinishGives DEF ins

(* What the legs of the taken add up to has an amount for every asset.      *)
LEMMA LegsGive ==
    ASSUME NEW legs, IsSeq(legs), \A i \in 1..Len(legs) : legs[i].amount \in Int,
           NEW A, \A i \in 1..Len(legs) : legs[i].asset \in A
    PROVE  LET sums == LegSums(legs)
           IN  /\ IsFiniteSet(DOMAIN sums) /\ DOMAIN sums \subseteq A
               /\ \A a \in DOMAIN sums : sums[a] \in Int
<1> DEFINE n == Len(legs)
           assets == {legs[i].asset : i \in 1..n}
           amounts == [i \in 1..n |-> legs[i].amount]
           Of(a) == {i \in 1..n : legs[i].asset = a}
<1>1. DOMAIN legs = 1..n /\ n \in Nat
  BY IsSeqOf DEF IsSeq
<1>2. LegSums(legs) = [a \in assets |-> SumFunctionOnSet(amounts, Of(a))]
  BY <1>1 DEF LegSums
<1>3. \A i \in 1..n : amounts[i] \in Int
  OBVIOUS
<1>4. ASSUME NEW a PROVE SumFunctionOnSet(amounts, Of(a)) \in Int
  <2>1. Of(a) \subseteq 1..n
    OBVIOUS
  <2> HIDE DEF n, amounts, Of
  <2>2. IsFiniteSet(Of(a))
    BY <1>1, <2>1, Positions
  <2> QED BY <1>3, <2>1, <2>2, SumType
<1>5. IsFiniteSet(assets)
  <2>1. PICK f : f = [i \in 1..n |-> legs[i].asset]
    OBVIOUS
  <2>2. f \in Surjection(1..n, assets)
    BY <2>1 DEF Surjection
  <2>3. IsFiniteSet(1..n)
    <3>1. PICK k \in Nat : k = n
      BY <1>1
    <3>2. IsFiniteSet(1..k)
      BY ONLY k \in Nat, Positions
    <3> QED BY <3>1, <3>2
  <2> HIDE DEF assets, n
  <2> QED BY <2>2, <2>3, FS_Surjection
<1>6. assets \subseteq A
  OBVIOUS
<1> HIDE DEF assets, amounts, Of
<1> QED BY <1>2, <1>4, <1>5, <1>6

(* A take: the makers' inputs and outputs first, what they give received.    *)
Taken(taken, fetched, makers, head, A) ==
    /\ Len(makers) = Len(taken) /\ Len(head) >= Len(taken)
    /\ \A i \in 1..Len(taken) :
         /\ makers[i] = MakerInput(taken[i], fetched[i]) /\ head[i] = MakerOutput(taken[i])
         /\ OfferVerifies(taken[i], fetched[i])
    /\ \A i \in 1..Len(head) : i > Len(taken) =>
         \E a \in A : \E v : head[i] = WalletOutput(a, v, FALSE)

(* take_swap_offers, when it succeeds: every offer taken verifies with the   *)
(* coin that was fetched for it.                                             *)
LEMMA TakeGives ==
    ASSUME NEW coins0, NEW A, Usable(coins0, A), A \subseteq Int,
           NEW taken, IsSeq(taken), NEW fetched, NEW rate,
           \A i \in 1..Len(taken) : /\ taken[i].out.value \in Int /\ taken[i].out.asset \in A
                                     /\ fetched[i].value \in Int /\ fetched[i].asset \in A,
           TakeSwapOffers(taken, fetched, coins0, rate).ok
    PROVE  \E p, f, makers, head :
              /\ Prepares(TakeSwapOffers(taken, fetched, coins0, rate), "SwapTake", p, f,
                          {c \in coins0 : ~c.conf}, A,
                          Shape(Len(taken), FALSE, Len(head), 0), rate, makers, head)
              /\ Taken(taken, fetched, makers, head, A)
              /\ IsSeq(makers) /\ IsSeq(head)
<1> DEFINE n == Len(taken)
           ids == {taken[i].id : i \in DOMAIN taken}
           mine == {c \in coins0 : c.id \notin ids}
           candidates == {c \in mine : ~c.conf}
           C == {c \in coins0 : ~c.conf}
           wants == [i \in DOMAIN taken |-> taken[i].want]
           gives == [i \in DOMAIN taken |-> taken[i].give]
           needs == LegSums(wants)
           receives == LegSums(gives)
           assets == Sorted(DOMAIN receives)
           shape == Shape(n, FALSE, n + Len(assets), 0)
           f == Fund(<<>>, candidates, needs, shape, rate)
           makers == [i \in DOMAIN taken |-> MakerInput(taken[i], fetched[i])]
           paid == [i \in DOMAIN taken |-> MakerOutput(taken[i])]
           received == [i \in DOMAIN assets |-> WalletOutput(assets[i], receives[assets[i]], FALSE)]
           own == WalletInputs(f.inputs)
           head == paid \o received
           res == TakeSwapOffers(taken, fetched, coins0, rate)
<1>1. ASSUME NEW e PROVE ~Failure(e).ok
  BY DEF Failure
<1>2. DOMAIN taken = 1..n /\ n \in Nat
  BY IsSeqOf DEF IsSeq
<1>3. /\ \A i \in 1..n : OfferVerifies(taken[i], fetched[i])
      /\ f.ok
      /\ res = Finish(makers \o own, paid \o received \o ChangesAndFee(f), "SwapTake", 0)
  <2>1. PICK fin, big, conf :
            /\ fin = Finish(makers \o own, paid \o received \o ChangesAndFee(f), "SwapTake", 0)
            /\ big = (\E v \in Range(needs) \cup Range(receives) : v > MaxMoney)
            /\ conf = (\E c \in mine : c.conf)
    OBVIOUS
  <2>2. PICK g : g = f
    OBVIOUS
  <2> DEFINE bad == taken = <<>> \/ n > MaxRequestItems \/ ~UtxosAccepted(coins0)
             wrong == \/ \E i \in DOMAIN taken : ~OfferVerifies(taken[i], fetched[i])
                      \/ Cardinality(ids) < n
  <2>3. res = IF bad THEN Failure("InvalidRequest")
              ELSE IF wrong THEN Failure("Offer")
              ELSE IF big THEN Failure("AmountOverflow")
              ELSE IF ~g.ok
              THEN IF g.error = "InsufficientFunds" /\ conf THEN Failure("Confidential") ELSE g
              ELSE fin
    BY <2>1, <2>2 DEF TakeSwapOffers
  <2> HIDE DEF res, bad
  <2>4. res.ok
    BY DEF res
  <2>5. ~wrong /\ g.ok /\ res = fin
    <3> HIDE DEF wrong
    <3> QED BY <1>1, <2>3, <2>4
  <2> QED BY <1>2, <2>1, <2>2, <2>5
<1>4. ASSUME NEW i \in 1..n
      PROVE  /\ wants[i].asset \in A /\ wants[i].amount \in Int
             /\ gives[i].asset \in A /\ gives[i].amount \in Int
  <2>1. OfferVerifies(taken[i], fetched[i])
    BY <1>3
  <2>2. /\ taken[i].give = [asset |-> fetched[i].asset, amount |-> fetched[i].value]
        /\ taken[i].want = [asset |-> taken[i].out.asset, amount |-> taken[i].out.value]
    BY <2>1 DEF OfferVerifies
  <2> QED BY <1>2, <2>2
<1>5. IsSeq(wants) /\ Len(wants) = n /\ IsSeq(gives) /\ Len(gives) = n
  <2>1. wants = [i \in 1..n |-> wants[i]] /\ gives = [i \in 1..n |-> gives[i]]
    BY <1>2
  <2> HIDE DEF wants, gives
  <2> QED BY <1>2, <2>1, Listed
<1> HIDE DEF wants, gives
<1>6. /\ IsFiniteSet(DOMAIN needs) /\ DOMAIN needs \subseteq A
      /\ \A a \in DOMAIN needs : needs[a] \in Int
  <2> HIDE DEF n
  <2> QED BY <1>4, <1>5, LegsGive
<1>7. IsFiniteSet(DOMAIN receives) /\ DOMAIN receives \subseteq A
  <2> HIDE DEF n
  <2> QED BY <1>4, <1>5, LegsGive
<1> HIDE DEF needs, receives
<1>8. assets \in Seq(DOMAIN receives)
  <2>1. DOMAIN receives \subseteq Int
    BY <1>7
  <2> QED BY <1>7, <2>1, SortedNumbers
<1> HIDE DEF assets
<1>9. DOMAIN assets = 1..Len(assets) /\ Len(assets) \in Nat /\ \A i \in 1..Len(assets) : assets[i] \in A
  BY <1>7, <1>8
<1>10. IsSeq(paid) /\ Len(paid) = n /\ IsSeq(makers) /\ Len(makers) = n
  <2>1. paid = [i \in 1..n |-> paid[i]] /\ makers = [i \in 1..n |-> makers[i]]
    BY <1>2
  <2> HIDE DEF paid, makers
  <2> QED BY <1>2, <2>1, Listed
<1>11. IsSeq(received) /\ Len(received) = Len(assets)
  <2>1. received = [i \in 1..Len(assets) |-> received[i]]
    BY <1>9
  <2> HIDE DEF received
  <2> QED BY <1>9, <2>1, Listed
<1>12. /\ \A i \in 1..n : makers[i] = MakerInput(taken[i], fetched[i]) /\ paid[i] = MakerOutput(taken[i])
       /\ \A i \in 1..Len(assets) : received[i] = WalletOutput(assets[i], receives[assets[i]], FALSE)
  BY <1>2, <1>9
<1>13. PICK q, m, g : q = head /\ m = makers /\ g = f
  OBVIOUS
<1> HIDE DEF paid, received
<1>14. /\ IsSeq(q) /\ Len(q) = n + Len(assets)
       /\ \A i \in 1..n : q[i] = paid[i]
       /\ \A i \in 1..Len(assets) : q[n + i] = received[i]
  <2>1. /\ IsSeq(paid \o received) /\ Len(paid \o received) = Len(paid) + Len(received)
        /\ \A i \in 1..Len(paid) : (paid \o received)[i] = paid[i]
        /\ \A i \in 1..Len(received) : (paid \o received)[Len(paid) + i] = received[i]
    BY <1>10, <1>11, Joined
  <2> QED BY <1>10, <1>11, <1>13, <2>1
<1>15. Taken(taken, fetched, m, q, A)
  <2>1. ASSUME NEW i \in 1..Len(q), i > n PROVE \E a \in A : \E v : q[i] = WalletOutput(a, v, FALSE)
    <3>1. i - n \in 1..Len(assets) /\ i = n + (i - n)
      BY <1>2, <1>9, <1>14, <2>1
    <3>2. q[i] = WalletOutput(assets[i - n], receives[assets[i - n]], FALSE)
      BY <1>12, <1>14, <3>1
    <3> QED BY <1>9, <3>1, <3>2
  <2>2. Len(m) = n /\ Len(q) >= n
    BY <1>2, <1>9, <1>10, <1>13, <1>14
  <2> QED BY <1>3, <1>12, <1>13, <1>14, <2>1, <2>2 DEF Taken
<1>16. g = Fund(<<>>, candidates, needs, shape, rate) /\ g.ok
  BY <1>3, <1>13
<1>17. res = Finish(m \o WalletInputs(g.inputs), q \o ChangesAndFee(g), "SwapTake", 0) /\ res.ok
  BY <1>3, <1>13
<1> HIDE DEF res, f, makers, head
<1> DEFINE w == WalletInputs(g.inputs)
           outs == q \o ChangesAndFee(g)
           p == [genesis |-> Genesis, ins |-> m \o w, outs |-> outs]
<1>18. Analyzed(p, "SwapTake") /\ res = Reviewed(p, "SwapTake")
  BY <1>17, FinishGives
<1>19. Funded(g, C, A, shape, rate)
  <2>1. Proper(C)
    <3>1. C \subseteq coins0
      OBVIOUS
    <3>2. IsFiniteSet(C)
      BY <3>1, FS_Subset DEF Usable, Proper
    <3> QED BY <3>1, <3>2 DEF Usable, Proper
  <2>2. candidates \in SUBSET C /\ \A c \in C : c.asset \in A
    BY DEF Usable
  <2>3. IsShape(shape)
    <3>1. n + Len(assets) \in Nat
      BY <1>2, <1>9
    <3> QED BY <1>2, <3>1 DEF IsShape, Shape
  <2>4. MaxFeeRate \in Nat /\ DOMAIN needs \subseteq Int /\ Policy \in A /\ <<>> \in Seq(C)
    BY <1>6, BoundsAssumption DEF Usable
  <2> HIDE DEF C, candidates, shape
  <2> QED BY <1>6, <1>16, <2>1, <2>2, <2>3, <2>4, FundGives
<1> HIDE DEF C, candidates
<1>20. Own(w, g) /\ g.changes \in Seq(Change(A))
  BY <1>19, InputsOwn DEF Funded
<1>21. IsSeq(m)
  BY <1>10, <1>13
<1> HIDE DEF w
<1>22. Assembled(p, g, m, q)
  BY <1>14, <1>20, <1>21, Assembles
<1>23. shape = Shape(Len(taken), FALSE, Len(q), 0)
  BY <1>14
<1> HIDE DEF p, shape
<1>24. Prepares(res, "SwapTake", p, g, C, A, Shape(Len(taken), FALSE, Len(q), 0), rate, m, q)
  BY <1>18, <1>19, <1>22, <1>23 DEF Prepares
<1> QED BY <1>14, <1>15, <1>21, <1>24 DEF res, C

-----------------------------------------------------------------------------
(* What the review shows of a PSET that was put together from its parts.     *)

(* The fee output is the last one.                                           *)
LEMMA FeeLast ==
    ASSUME NEW p, NEW kind, kind # "SwapOffer", Analyzed(p, kind),
           NEW f, NEW makers, NEW head, Assembled(p, f, makers, head), f.fee \in Int
    PROVE  FeeOutputs(p) = {Len(p.outs)} /\ FeeOf(p) = f.fee
<1> DEFINE n == Len(p.outs)
<1>1. DOMAIN p.outs = 1..n /\ n \in Nat
  BY IsSeqOf DEF Assembled, IsSeq
<1>2. n # 0
  <2>1. p.outs # <<>> /\ p.outs = [i \in 1..n |-> p.outs[i]]
    BY DEF Analyzed, Assembled, IsSeq
  <2>2. n = 0 => [i \in 1..n |-> p.outs[i]] = <<>>
    OBVIOUS
  <2> QED BY <2>1, <2>2
<1>3. p.outs[n] = FeeOutput(f.fee)
  BY DEF Assembled
<1> HIDE DEF n
<1>4. p.outs[n].to = Fee /\ p.outs[n].value = f.fee
  BY <1>3 DEF FeeOutput, PsetOutput
<1>5. n \in FeeOutputs(p)
  BY <1>1, <1>2, <1>4 DEF FeeOutputs
<1>6. Cardinality(FeeOutputs(p)) = 1
  BY DEF Analyzed
<1>7. IsFiniteSet(FeeOutputs(p))
  <2>1. FeeOutputs(p) \subseteq 1..n
    BY <1>1 DEF FeeOutputs
  <2> QED BY <1>1, <2>1, Positions
<1>8. FeeOutputs(p) = {n}
  <2>1. PICK x : FeeOutputs(p) = {x}
    BY <1>6, <1>7, FS_Singleton
  <2> QED BY <1>5, <2>1
<1>9. Values(p.outs)[n] = f.fee
  BY <1>1, <1>2, <1>4 DEF Values
<1>10. FeeOf(p) = f.fee
  <2>1. Values(p.outs)[n] \in Int
    BY <1>9
  <2>2. SumFunctionOnSet(Values(p.outs), {n}) = Values(p.outs)[n]
    BY <2>1, SumOne
  <2> QED BY <1>8, <1>9, <2>2 DEF FeeOf
<1> QED BY <1>8, <1>10 DEF n

(* Inputs are as confidential as the coins the wallet adds.                  *)
LEMMA ConfidentialAsFunded ==
    ASSUME NEW p, NEW f, NEW makers, NEW head, Assembled(p, f, makers, head),
           NEW C, f.inputs \in Seq(C), Len(makers) \in Nat,
           \A i \in 1..Len(makers) : ~makers[i].conf
    PROVE  AnyConfidential(p.ins) <=> AnyConfidential(f.inputs)
<1> DEFINE n == Len(makers)
           m == Len(f.inputs)
<1>1. DOMAIN p.ins = 1..Len(p.ins) /\ DOMAIN f.inputs = 1..m /\ m \in Nat
  BY IsSeqOf DEF Assembled
<1>2. /\ Len(p.ins) = n + m
      /\ \A i \in 1..n : p.ins[i] = makers[i]
      /\ \A i \in 1..m : p.ins[n + i] = [WalletInput(f.inputs[i], "ALL") EXCEPT
                                           !.issuance = p.ins[n + i].issuance]
  BY DEF Assembled
<1> HIDE DEF m
<1>3. \A i \in 1..m : p.ins[n + i].conf = f.inputs[i].conf
  <2> SUFFICES ASSUME NEW i \in 1..m PROVE p.ins[n + i].conf = f.inputs[i].conf
    OBVIOUS
  <2>1. PICK in, c : in = p.ins[n + i] /\ c = f.inputs[i]
    OBVIOUS
  <2>2. in = [WalletInput(c, "ALL") EXCEPT !.issuance = in.issuance]
    BY <1>2, <2>1
  <2>3. in.conf = c.conf
    BY <2>2 DEF WalletInput
  <2> QED BY <2>1, <2>3
<1>4. \A i \in 1..m : n + i \in 1..Len(p.ins)
  BY <1>1, <1>2
<1>5. ASSUME NEW i \in 1..Len(p.ins), p.ins[i].conf PROVE \E j \in 1..m : f.inputs[j].conf
  <2>1. i > n
    BY <1>1, <1>2, <1>5
  <2>2. i - n \in 1..m /\ i = n + (i - n)
    BY <1>1, <1>2, <2>1
  <2> QED BY <1>3, <1>5, <2>2
<1> QED BY <1>1, <1>3, <1>4, <1>5 DEF AnyConfidential

BlindedOf(p) == {i \in DOMAIN p.outs : Blinded(p.outs[i])}

(* So many outputs are blinded.                                              *)
LEMMA BlindedOutputs ==
    ASSUME NEW A, NEW p, NEW f, NEW makers, NEW head, Assembled(p, f, makers, head),
           f.changes \in Seq(Change(A)), Len(head) \in Nat,
           NEW b \in Nat, Cardinality({i \in 1..Len(head) : Blinded(head[i])}) = b
    PROVE  /\ Cardinality(BlindedOf(p))
                = b + IF AnyConfidential(f.inputs) THEN Len(f.changes) ELSE 0
           /\ \A i \in DOMAIN p.outs :
                i > Len(head) /\ AnyConfidential(f.inputs) /\ OutputIsWallet(p.outs[i])
                  => Blinded(p.outs[i])
<1> DEFINE h == Len(head)
           k == Len(f.changes)
           first == {i \in 1..h : Blinded(head[i])}
           later == IF AnyConfidential(f.inputs) THEN (h + 1)..(h + k) ELSE {}
           all == BlindedOf(p)
<1>1. k \in Nat /\ DOMAIN p.outs = 1..(h + k + 1)
  BY IsSeqOf DEF Assembled
<1>2. /\ \A i \in 1..h : p.outs[i] = head[i]
      /\ \A i \in 1..k : p.outs[h + i] = WalletOutput(f.changes[i].asset, f.changes[i].value,
                                                      AnyConfidential(f.inputs))
      /\ p.outs[h + k + 1] = FeeOutput(f.fee)
  BY DEF Assembled
<1> HIDE DEF k
<1>3. ASSUME NEW i \in (h + 1)..(h + k) PROVE Blinded(p.outs[i]) <=> AnyConfidential(f.inputs)
  <2>1. i - h \in 1..k /\ i = h + (i - h)
    BY <1>1
  <2>2. PICK a, v : p.outs[i] = WalletOutput(a, v, AnyConfidential(f.inputs))
    BY <1>2, <2>1, SMTT(30)
  <2> QED BY <2>2 DEF WalletOutput, PsetOutput, Blinded, Wallet
<1>4. ~Blinded(p.outs[h + k + 1]) /\ ~OutputIsWallet(p.outs[h + k + 1])
  BY <1>2 DEF FeeOutput, PsetOutput, Blinded, OutputIsWallet
<1>5. \A i \in 1..(h + k + 1) : i \in 1..h \/ i \in (h + 1)..(h + k) \/ i = h + k + 1
  BY <1>1
<1>6a. all = {i \in DOMAIN p.outs : Blinded(p.outs[i])}
  BY DEF BlindedOf
<1>6. all = first \cup later
  <2>1. \A i \in all : i \in first \cup later
    BY <1>1, <1>2, <1>3, <1>4, <1>5, <1>6a
  <2>2. \A i \in first : i \in all
    BY <1>1, <1>2, <1>6a
  <2>3. \A i \in later : i \in all
    BY <1>1, <1>3, <1>6a
  <2> QED BY <2>1, <2>2, <2>3
<1>7. IsFiniteSet(first)
  <2>1. first \subseteq 1..h
    OBVIOUS
  <2> HIDE DEF first, h
  <2> QED BY <2>1, Positions DEF h
<1>8. IsFiniteSet(later) /\ Cardinality(later) = IF AnyConfidential(f.inputs) THEN k ELSE 0
  <2>1. h + 1 \in Int /\ h + k \in Int
    BY <1>1
  <2>2. IsFiniteSet((h + 1)..(h + k)) /\ Cardinality((h + 1)..(h + k)) = k
    <3>1. PICK x, y : x = h + 1 /\ y = h + k
      OBVIOUS
    <3>2. x \in Int /\ y \in Int
      BY <2>1, <3>1
    <3>3. IsFiniteSet(x..y) /\ Cardinality(x..y) = IF x > y THEN 0 ELSE y - x + 1
      BY ONLY <3>2, FS_Interval
    <3>4. (IF x > y THEN 0 ELSE y - x + 1) = k
      BY <1>1, <2>1, <3>1
    <3> QED BY <3>1, <3>3, <3>4
  <2> QED BY <2>2, FS_EmptySet
<1>9. first \cap later = {}
  BY <1>1
<1>10. Cardinality(all) = Cardinality(first) + Cardinality(later) - Cardinality(first \cap later)
  <2> HIDE DEF first, later, all
  <2> QED BY <1>6, <1>7, <1>8, FS_Union
<1>11. Cardinality(all) = b + IF AnyConfidential(f.inputs) THEN k ELSE 0
  <2>1. Cardinality(first) = b /\ Cardinality(first \cap later) = 0
    BY <1>9, FS_EmptySet
  <2> HIDE DEF first, later, all
  <2> QED BY <1>1, <1>8, <1>10, <2>1
<1>12. \A i \in DOMAIN p.outs : i > h /\ AnyConfidential(f.inputs) /\ OutputIsWallet(p.outs[i])
                                  => Blinded(p.outs[i])
  BY <1>1, <1>3, <1>4, <1>5
<1> QED BY <1>11, <1>12 DEF k

(* The fee of a prepared request, measured on the PSET that came out.        *)
LEMMA FairGives ==
    ASSUME NEW res, NEW kind, kind # "SwapOffer", NEW p, NEW f, NEW C, NEW A,
           NEW shape, NEW rate, NEW makers, NEW head,
           Prepares(res, kind, p, f, C, A, shape, rate, makers, head),
           Len(makers) \in Nat, \A i \in 1..Len(makers) : ~makers[i].conf,
           shape.foreign = Len(makers), shape.fixed = Len(head), Len(head) \in Nat,
           shape.blinded \in Nat,
           Cardinality({i \in 1..Len(head) : Blinded(head[i])}) = shape.blinded
    PROVE  LET blinded == Cardinality({i \in DOMAIN p.outs : Blinded(p.outs[i])})
               size == Vsize(Len(p.ins), shape.issuance, Len(p.outs), blinded)
               withChange == Vsize(Len(p.ins), shape.issuance, Len(p.outs) + 1,
                                   blinded + IF AnyConfidential(p.ins) THEN 1 ELSE 0)
           IN  /\ res.ok /\ res.pset = p
               /\ res.review.fee >= rate * size
               /\ res.review.fee < rate * withChange + Dust
<1> DEFINE k == Len(f.changes)
           conf == AnyConfidential(f.inputs)
           blinded == Cardinality({i \in DOMAIN p.outs : Blinded(p.outs[i])})
           size == Vsize(Len(p.ins), shape.issuance, Len(p.outs), blinded)
           withChange == Vsize(Len(p.ins), shape.issuance, Len(p.outs) + 1,
                               blinded + IF AnyConfidential(p.ins) THEN 1 ELSE 0)
<1>1. /\ Assembled(p, f, makers, head) /\ Analyzed(p, kind) /\ res = Reviewed(p, kind)
      /\ f.inputs \in Seq(C) /\ f.changes \in Seq(Change(A)) /\ f.fee \in Int
      /\ FairFee(f, shape, rate)
  BY DEF Prepares, Funded
<1>2. AnyConfidential(p.ins) <=> conf
  BY <1>1, ConfidentialAsFunded
<1>3. blinded = shape.blinded + IF conf THEN k ELSE 0
  <2>1. PICK b : b = shape.blinded
    OBVIOUS
  <2>2. b \in Nat /\ Cardinality({i \in 1..Len(head) : Blinded(head[i])}) = b
    BY <2>1
  <2>3. f.changes \in Seq(Change(A)) /\ Assembled(p, f, makers, head)
    BY <1>1
  <2>4. blinded = b + IF conf THEN k ELSE 0
    <3>1. Cardinality(BlindedOf(p)) = b + IF conf THEN k ELSE 0
      BY <2>2, <2>3, BlindedOutputs, ZenonT(60)
    <3> QED BY <3>1 DEF BlindedOf
  <2> QED BY <2>1, <2>4
<1>4. k \in Nat /\ Len(f.inputs) \in Nat
  BY <1>1
<1>5. Len(p.ins) = shape.foreign + Len(f.inputs) /\ Len(p.outs) = shape.fixed + k + 1
  BY <1>1 DEF Assembled
<1> HIDE DEF k, blinded, conf
<1>6. size = SizeWith(f, shape, k)
  BY <1>3, <1>5 DEF SizeWith, conf
<1>7. withChange = SizeWith(f, shape, k + 1)
  <2>1. Len(p.outs) + 1 = shape.fixed + (k + 1) + 1
    BY <1>4, <1>5
  <2>2. blinded + (IF AnyConfidential(p.ins) THEN 1 ELSE 0) = shape.blinded + IF conf THEN k + 1 ELSE 0
    BY <1>2, <1>3, <1>4
  <2> QED BY <1>5, <2>1, <2>2 DEF SizeWith, conf
<1>8. FeeOf(p) = f.fee
  BY <1>1, FeeLast
<1>9. res.ok /\ res.pset = p /\ res.review.fee = f.fee
  BY <1>1, <1>8 DEF Reviewed, TxReview
<1> HIDE DEF size, withChange
<1>10. f.fee >= rate * size /\ f.fee < rate * withChange + Dust
  BY <1>1, <1>6, <1>7 DEF FairFee, k
<1> QED BY <1>9, <1>10 DEF size, withChange, blinded

(* The outputs that a request wants public.                                  *)
Public(req, i) ==
    \/ req.op = "split" /\ i = 1
    \/ req.op = "issue" /\ (i = 1 \/ (req.tokens > 0 /\ i = 2))

(* In an accepted PSET whose inputs are all the wallet's, what the wallet    *)
(* loses of an asset beyond the fee is what goes out, and what it gains is   *)
(* what it issues.                                                           *)
ExternalOf(p, a) == {i \in External(p) : p.outs[i].asset = a}

ForeignOf(p, a) == {i \in DOMAIN p.ins : ~p.ins[i].derived /\ p.ins[i].asset = a}

IssuedBy(p, a) == [i \in DOMAIN p.ins |-> Issued(p.ins[i], a)]

(* The values of an accepted PSET are amounts.                               *)
LEMMA AcceptedValues ==
    ASSUME NEW p, NEW kind, Analyzed(p, kind)
    PROVE  /\ \A i \in DOMAIN p.ins : p.ins[i].value \in Nat /\ Values(p.ins)[i] = p.ins[i].value
           /\ \A i \in DOMAIN p.outs : p.outs[i].value \in Nat /\ Values(p.outs)[i] = p.outs[i].value
<1>1. 1..MaxMoney \subseteq Nat
  BY BoundsAssumption
<1>2. \A i \in DOMAIN p.ins : p.ins[i].value \in 1..MaxMoney
  BY DEF Analyzed, InputAccepted
<1>3. \A i \in DOMAIN p.outs : p.outs[i].value \in 1..MaxMoney
  BY DEF Analyzed, OutputAccepted
<1> QED BY <1>1, <1>2, <1>3 DEF Values

(* What an accepted PSET issues are amounts.                                 *)
LEMMA IssuedType ==
    ASSUME NEW p, NEW kind, Analyzed(p, kind), NEW a
    PROVE  \A i \in DOMAIN p.ins : IssuedBy(p, a)[i] \in Int
<1> SUFFICES ASSUME NEW i \in DOMAIN p.ins PROVE Issued(p.ins[i], a) \in Int
  BY DEF IssuedBy
<1>1. InputAccepted(p, i, kind)
  BY DEF Analyzed
<1>2. p.ins[i].issuance.amount \in Int /\ p.ins[i].issuance.tokens \in Int
  BY <1>1, BoundsAssumption DEF InputAccepted, ExplicitIssuance, NoIssuance
<1> QED BY <1>2 DEF Issued

(* Conservation, read as what the wallet's balance changes by: makers' inputs *)
(* and what is issued come in, and outputs to others go out.                 *)
LEMMA BalanceBy ==
    ASSUME NEW p, NEW kind, kind # "SwapOffer", Analyzed(p, kind), IsSeq(p.ins), IsSeq(p.outs),
           NEW a \in AssetsOf(p)
    PROVE  BalanceChange(p, a) = SumFunctionOnSet(Values(p.ins), ForeignOf(p, a))
                               + SumFunctionOnSet(IssuedBy(p, a), DOMAIN p.ins)
                               - SumFunctionOnSet(Values(p.outs), ExternalOf(p, a))
<1> DEFINE in == Values(p.ins)
           out == Values(p.outs)
           wi == WalletIns(p, a)
           fi == ForeignOf(p, a)
           ins == {i \in DOMAIN p.ins : p.ins[i].asset = a}
           wo == WalletOuts(p, a)
           ext == ExternalOf(p, a)
           fees == FeeOutputs(p)
           fee == IF a = Policy THEN fees ELSE {}
           outs == {i \in DOMAIN p.outs : p.outs[i].asset = a}
<1>1. /\ \A i \in DOMAIN p.ins : in[i] \in Int
      /\ \A i \in DOMAIN p.outs : out[i] \in Int
  BY AcceptedValues
<1>2. /\ DOMAIN p.ins = 1..Len(p.ins) /\ Len(p.ins) \in Nat
      /\ DOMAIN p.outs = 1..Len(p.outs) /\ Len(p.outs) \in Nat
  BY IsSeqOf DEF IsSeq
<1>3. ins = wi \cup fi /\ wi \cap fi = {}
  BY DEF WalletIns, ForeignOf
<1>4. \A i \in fees : p.outs[i].asset = Policy
  BY DEF Analyzed, OutputAccepted, FeeOutputs
<1>5. outs = (wo \cup ext) \cup fee
  <2>1. \A i \in outs : i \in wo \/ i \in ext \/ i \in fee
    BY <1>4 DEF WalletOuts, ExternalOf, External, FeeOutputs
  <2>2. \A i \in wo \cup ext : i \in outs
    BY DEF WalletOuts, ExternalOf, External
  <2>3. \A i \in fee : i \in outs
    BY <1>4 DEF FeeOutputs
  <2> HIDE DEF outs, wo, ext, fee
  <2> QED BY <2>1, <2>2, <2>3
<1>6. wo \cap ext = {} /\ (wo \cup ext) \cap fee = {}
  BY DEF WalletOuts, ExternalOf, External, FeeOutputs, OutputIsWallet, Wallet, Fee
<1>7. /\ wo \subseteq DOMAIN p.outs /\ ext \subseteq DOMAIN p.outs /\ fees \subseteq DOMAIN p.outs
      /\ fee \subseteq DOMAIN p.outs /\ wi \subseteq DOMAIN p.ins /\ fi \subseteq DOMAIN p.ins
  BY DEF WalletOuts, ExternalOf, External, FeeOutputs, WalletIns, ForeignOf
<1>8. Brought(p, a) = Total(p.outs, a)
  BY DEF Analyzed, Conserved
<1>9. Total(p.ins, a) = SumFunctionOnSet(in, ins) /\ Total(p.outs, a) = SumFunctionOnSet(out, outs)
  BY DEF Total
<1>10. Brought(p, a) = Total(p.ins, a) + SumFunctionOnSet(IssuedBy(p, a), DOMAIN p.ins)
  BY DEF Brought, SumFunction, IssuedBy
<1>11. BalanceChange(p, a) = SumFunctionOnSet(out, wo) - SumFunctionOnSet(in, wi)
                             + (IF a = Policy THEN SumFunctionOnSet(out, fees) ELSE 0)
  BY DEF BalanceChange, FeeOf
<1>12. \A i \in DOMAIN p.ins : IssuedBy(p, a)[i] \in Int
  BY IssuedType
<1> HIDE DEF in, out, wi, fi, ins, wo, ext, fees, outs
<1>13. IsFiniteSet(wi) /\ IsFiniteSet(fi) /\ IsFiniteSet(wo) /\ IsFiniteSet(ext) /\ IsFiniteSet(fees) /\ IsFiniteSet(fee)
       /\ IsFiniteSet(DOMAIN p.ins)
  <2>1. IsFiniteSet(wi) /\ IsFiniteSet(fi) /\ IsFiniteSet(DOMAIN p.ins)
    BY <1>2, <1>7, Positions
  <2>2. IsFiniteSet(wo) /\ IsFiniteSet(ext) /\ IsFiniteSet(fees) /\ IsFiniteSet(fee)
    <3> HIDE DEF fee
    <3> QED BY <1>2, <1>7, Positions
  <2> QED BY <2>1, <2>2
<1>14. PICK b, w, i, j, x, g, s, t :
         /\ b = BalanceChange(p, a) /\ w = SumFunctionOnSet(out, wo) /\ i = SumFunctionOnSet(in, wi)
         /\ j = SumFunctionOnSet(in, fi)
         /\ x = SumFunctionOnSet(out, ext) /\ g = SumFunctionOnSet(out, fee)
         /\ s = SumFunctionOnSet(IssuedBy(p, a), DOMAIN p.ins) /\ t = SumFunctionOnSet(out, outs)
  OBVIOUS
<1>15. w \in Int /\ i \in Int /\ j \in Int /\ x \in Int /\ g \in Int /\ s \in Int
  <2>1. w \in Int
    BY <1>1, <1>7, <1>13, <1>14, SumType
  <2>2. i \in Int
    BY <1>1, <1>7, <1>13, <1>14, SumType
  <2>3. x \in Int
    BY <1>1, <1>7, <1>13, <1>14, SumType
  <2>4. g \in Int
    <3> HIDE DEF fee
    <3> QED BY <1>1, <1>7, <1>13, <1>14, SumType
  <2>5. s \in Int
    BY <1>12, <1>13, <1>14, SumType
  <2>6. j \in Int
    BY <1>1, <1>7, <1>13, <1>14, SumType
  <2> QED BY <2>1, <2>2, <2>3, <2>4, <2>5, <2>6
<1>16. t = (w + x) + g
  <2> HIDE DEF fee
  <2>1. IsFiniteSet(wo \cup ext)
    BY <1>13, FS_Union
  <2>2. SumFunctionOnSet(out, wo \cup ext) = w + x
    <3>1. \A k \in wo \cup ext : out[k] \in Int
      BY <1>1, <1>7
    <3> QED BY <1>6, <1>13, <1>14, <3>1, SumUnion
  <2>3. \A k \in (wo \cup ext) \cup fee : out[k] \in Int
    BY <1>1, <1>7
  <2>4. SumFunctionOnSet(out, (wo \cup ext) \cup fee)
            = SumFunctionOnSet(out, wo \cup ext) + SumFunctionOnSet(out, fee)
    BY <1>6, <1>13, <2>1, <2>3, SumUnion
  <2> QED BY <1>5, <1>14, <2>2, <2>4
<1>17. (IF a = Policy THEN SumFunctionOnSet(out, fees) ELSE 0) = g
  BY <1>14, SumEmpty
<1>18. SumFunctionOnSet(in, ins) = i + j
  <2>1. \A k \in wi \cup fi : in[k] \in Int
    BY <1>1, <1>7
  <2> QED BY <1>3, <1>13, <1>14, <2>1, SumUnion
<1>19. b = w - i + g /\ (i + j) + s = t
  BY <1>8, <1>9, <1>10, <1>11, <1>14, <1>17, <1>18
<1>20. b = j + s - x
  BY ONLY <1>15, <1>16, <1>19
<1> QED BY <1>14, <1>20 DEF in, out, fi, ext

(* The same without makers.                                                  *)
LEMMA BalanceIs ==
    ASSUME NEW p, NEW kind, kind # "SwapOffer", Analyzed(p, kind), IsSeq(p.ins), IsSeq(p.outs),
           \A i \in DOMAIN p.ins : p.ins[i].derived, NEW a \in AssetsOf(p)
    PROVE  BalanceChange(p, a) = SumFunctionOnSet(IssuedBy(p, a), DOMAIN p.ins)
                               - SumFunctionOnSet(Values(p.outs), ExternalOf(p, a))
<1>1. ForeignOf(p, a) = {}
  BY DEF ForeignOf
<1>2. SumFunctionOnSet(Values(p.ins), ForeignOf(p, a)) = 0
  BY <1>1, SumEmpty
<1>3. PICK s, x : s = SumFunctionOnSet(IssuedBy(p, a), DOMAIN p.ins)
                  /\ x = SumFunctionOnSet(Values(p.outs), ExternalOf(p, a))
  OBVIOUS
<1>4. BalanceChange(p, a) = 0 + s - x
  BY <1>2, <1>3, BalanceBy
<1>5. s \in Int
  <2>1. DOMAIN p.ins = 1..Len(p.ins) /\ Len(p.ins) \in Nat
    BY IsSeqOf DEF IsSeq
  <2>2. IsFiniteSet(DOMAIN p.ins)
    BY <2>1, FS_Interval
  <2> QED BY <1>3, <2>2, IssuedType, SumType
<1>6. x \in Int
  <2>1. ExternalOf(p, a) \subseteq DOMAIN p.outs
    BY DEF ExternalOf, External
  <2>2. DOMAIN p.outs = 1..Len(p.outs) /\ Len(p.outs) \in Nat
    BY IsSeqOf DEF IsSeq
  <2>3. IsFiniteSet(ExternalOf(p, a))
    BY <2>1, <2>2, Positions
  <2>4. \A i \in ExternalOf(p, a) : Values(p.outs)[i] \in Int
    BY <2>1, AcceptedValues
  <2> QED BY <1>3, <2>3, <2>4, SumType
<1> QED BY <1>3, <1>4, <1>5, <1>6

(* No issuance, nothing issued.                                              *)
LEMMA NothingIssued ==
    ASSUME NEW p, IsSeq(p.ins), \A i \in DOMAIN p.ins : p.ins[i].issuance = NoIssuance, NEW a
    PROVE  SumFunctionOnSet(IssuedBy(p, a), DOMAIN p.ins) = 0
<1>1. DOMAIN p.ins = 1..Len(p.ins) /\ Len(p.ins) \in Nat
  BY IsSeqOf DEF IsSeq
<1>2. IsFiniteSet(DOMAIN p.ins)
  BY <1>1, FS_Interval
<1>3. \A i \in DOMAIN p.ins : IssuedBy(p, a)[i] = 0
  BY DEF IssuedBy, Issued, NoIssuance
<1> QED BY <1>2, <1>3, SumZeros

(* Without makers, every input is derived from the wallet's keys.            *)
LEMMA AllDerived ==
    ASSUME NEW p, NEW f, NEW head, Assembled(p, f, <<>>, head), NEW C, f.inputs \in Seq(C)
    PROVE  \A i \in DOMAIN p.ins : p.ins[i].derived
<1>1. DOMAIN p.ins = 1..Len(p.ins) /\ Len(<<>>) = 0 /\ Len(f.inputs) \in Nat
  BY IsSeqOf, NoElement DEF Assembled
<1>2. Len(p.ins) = Len(f.inputs) /\ \A i \in 1..Len(f.inputs) : 0 + i = i
  BY <1>1 DEF Assembled
<1> SUFFICES ASSUME NEW i \in DOMAIN p.ins PROVE p.ins[i].derived
  OBVIOUS
<1>3. PICK in, c : in = p.ins[i] /\ c = f.inputs[i]
  OBVIOUS
<1>4. in = [WalletInput(c, "ALL") EXCEPT !.issuance = in.issuance]
  <2>1. i \in 1..Len(f.inputs) /\ Len(<<>>) + i = i
    BY <1>1, <1>2
  <2> QED BY <1>3, <2>1 DEF Assembled
<1> QED BY <1>3, <1>4 DEF WalletInput

(* Only outputs of the request can go to others.                             *)
LEMMA ExternalInHead ==
    ASSUME NEW p, NEW f, NEW makers, NEW head, Assembled(p, f, makers, head),
           NEW A, f.changes \in Seq(Change(A)), Len(head) \in Nat
    PROVE  External(p) = {i \in 1..Len(head) : head[i].to # Fee /\ ~OutputIsWallet(head[i])}
<1> DEFINE h == Len(head)
           k == Len(f.changes)
<1>1. k \in Nat /\ DOMAIN p.outs = 1..(h + k + 1)
  BY IsSeqOf DEF Assembled
<1>2. /\ \A i \in 1..h : p.outs[i] = head[i]
      /\ \A i \in 1..k : p.outs[h + i] = WalletOutput(f.changes[i].asset, f.changes[i].value,
                                                      AnyConfidential(f.inputs))
      /\ p.outs[h + k + 1] = FeeOutput(f.fee)
  BY DEF Assembled
<1> HIDE DEF k
<1>3. \A i \in (h + 1)..(h + k) : OutputIsWallet(p.outs[i])
  <2> SUFFICES ASSUME NEW i \in (h + 1)..(h + k) PROVE OutputIsWallet(p.outs[i])
    OBVIOUS
  <2>1. i - h \in 1..k /\ i = h + (i - h)
    BY <1>1
  <2>2. PICK a, v, b : p.outs[i] = WalletOutput(a, v, b)
    BY <1>2, <2>1
  <2> QED BY <2>2 DEF WalletOutput, PsetOutput, OutputIsWallet
<1>4. p.outs[h + k + 1].to = Fee
  BY <1>2 DEF FeeOutput, PsetOutput
<1>5. \A i \in 1..(h + k + 1) : i \in 1..h \/ i \in (h + 1)..(h + k) \/ i = h + k + 1
  BY <1>1
<1>6. \A i \in 1..h : i \in 1..(h + k + 1)
  BY <1>1
<1> QED BY <1>1, <1>2, <1>3, <1>4, <1>5, <1>6 DEF External

Shows(review, changes, external) == review.changes = changes /\ review.external = external

(* A transfer's review shows the amount that leaves and the payee.           *)
LEMMA TransferReview ==
    ASSUME NEW p, NEW f, NEW C, NEW A, NEW asset, NEW amount, amount \in 1..MaxMoney, NEW key,
           Analyzed(p, "Transfer"), f.inputs \in Seq(C), f.changes \in Seq(Change(A)),
           Assembled(p, f, <<>>, <<Recipient(asset, amount, key)>>)
    PROVE  Shows(TxReview(p, "Transfer"), Only(asset, -amount),
                 <<[asset |-> asset, value |-> amount, to |-> "recipient", key |-> key]>>)
<1> DEFINE head == <<Recipient(asset, amount, key)>>
           payee == [asset |-> asset, value |-> amount, to |-> "recipient", key |-> key]
<1>1. IsSeq(p.ins) /\ IsSeq(p.outs) /\ p.outs[1] = Recipient(asset, amount, key)
      /\ Len(head) = 1 /\ head[1] = Recipient(asset, amount, key)
  BY One DEF Assembled
<1>2. /\ p.outs[1].to = "recipient" /\ ~p.outs[1].derived /\ p.outs[1].asset = asset
      /\ p.outs[1].value = amount /\ p.outs[1].opens = <<asset, amount>> /\ p.outs[1].key = key
  BY <1>1 DEF Recipient, PsetOutput
<1>3. External(p) = {1}
  <2>1. External(p) = {i \in 1..Len(head) : head[i].to # Fee /\ ~OutputIsWallet(head[i])}
    <3> HIDE DEF head
    <3> QED BY <1>1, ExternalInHead DEF head
  <2>2. head[1].to # Fee /\ ~OutputIsWallet(head[1])
    BY <1>1, <1>2 DEF Fee, OutputIsWallet
  <2> QED BY <1>1, <2>1, <2>2
<1>4. \A i \in DOMAIN p.ins : p.ins[i].derived
  BY AllDerived
<1>5. \A i \in DOMAIN p.ins : p.ins[i].issuance = NoIssuance
  BY DEF Analyzed, KindAccepted
<1>6. 1 \in DOMAIN p.outs
  BY <1>3 DEF External
<1>7. amount \in Int /\ amount # 0
  BY BoundsAssumption
<1>8. ASSUME NEW a \in AssetsOf(p)
      PROVE  BalanceChange(p, a) = IF a = asset THEN -amount ELSE 0
  <2>1. BalanceChange(p, a) = SumFunctionOnSet(IssuedBy(p, a), DOMAIN p.ins)
                             - SumFunctionOnSet(Values(p.outs), ExternalOf(p, a))
    BY <1>1, <1>4, BalanceIs
  <2>2. SumFunctionOnSet(IssuedBy(p, a), DOMAIN p.ins) = 0
    BY <1>1, <1>5, NothingIssued
  <2>3. ExternalOf(p, a) = IF a = asset THEN {1} ELSE {}
    BY <1>2, <1>3 DEF ExternalOf
  <2>4. SumFunctionOnSet(Values(p.outs), {1}) = amount
    <3>1. Values(p.outs)[1] = amount
      BY <1>2, <1>6 DEF Values
    <3>2. Values(p.outs)[1] \in Int
      BY <1>7, <3>1
    <3> QED BY <3>1, <3>2, SumOne
  <2>5. SumFunctionOnSet(Values(p.outs), {}) = 0
    BY SumEmpty
  <2>6. SumFunctionOnSet(Values(p.outs), ExternalOf(p, a)) = IF a = asset THEN amount ELSE 0
    BY <2>3, <2>4, <2>5
  <2> QED BY <1>7, <2>1, <2>2, <2>6
<1>9. asset \in AssetsOf(p)
  BY <1>2, <1>6 DEF AssetsOf
<1>10. {b \in AssetsOf(p) : BalanceChange(p, b) # 0} = {asset}
  BY <1>7, <1>8, <1>9
<1>11. TxReview(p, "Transfer").changes = Only(asset, -amount)
  BY <1>8, <1>9, <1>10 DEF TxReview, Only
<1>12. TxOut(p.outs[1]) = payee
  BY <1>2 DEF TxOut
<1>13. TxReview(p, "Transfer").external = [i \in {1} |-> payee]
  BY <1>3, <1>12 DEF TxReview
<1>14. [i \in {1} |-> payee] = <<payee>>
  <2> HIDE DEF payee
  <2>1. [i \in {1} |-> payee] = [i \in 1..1 |-> payee]
    OBVIOUS
  <2>2. <<payee>> = [i \in 1..1 |-> payee]
    OBVIOUS
  <2> QED BY <2>1, <2>2
<1> QED BY <1>11, <1>13, <1>14 DEF Shows

(* What goes back to the wallet does not show.                               *)
LEMMA QuietReview ==
    ASSUME NEW p, NEW f, NEW C, NEW A, NEW head, NEW kind \in {"OfferSplit", "Cancel"},
           Analyzed(p, kind), f.inputs \in Seq(C), f.changes \in Seq(Change(A)),
           Assembled(p, f, <<>>, head)
    PROVE  Shows(TxReview(p, kind), <<>>, <<>>)
<1>1. IsSeq(p.ins) /\ IsSeq(p.outs)
  BY DEF Assembled
<1>2. External(p) = {} /\ \A i \in DOMAIN p.ins : p.ins[i].issuance = NoIssuance
  BY DEF Analyzed, KindAccepted
<1>3. \A i \in DOMAIN p.ins : p.ins[i].derived
  BY AllDerived
<1>4. ASSUME NEW a \in AssetsOf(p) PROVE BalanceChange(p, a) = 0
  <2>1. BalanceChange(p, a) = SumFunctionOnSet(IssuedBy(p, a), DOMAIN p.ins)
                             - SumFunctionOnSet(Values(p.outs), ExternalOf(p, a))
    BY <1>1, <1>3, BalanceIs
  <2>2. SumFunctionOnSet(IssuedBy(p, a), DOMAIN p.ins) = 0
    BY <1>1, <1>2, NothingIssued
  <2>3. ExternalOf(p, a) = {}
    BY <1>2 DEF ExternalOf
  <2> QED BY <2>1, <2>2, <2>3, SumEmpty
<1>5. {b \in AssetsOf(p) : BalanceChange(p, b) # 0} = {}
  BY <1>4
<1>6. ASSUME NEW e, e = [x \in {} |-> 0] PROVE e = <<>>
  BY <1>6
<1>7. TxReview(p, kind).changes = [a \in {} |-> BalanceChange(p, a)]
  BY <1>5 DEF TxReview
<1>8. TxReview(p, kind).external = [i \in {} |-> TxOut(p.outs[i])]
  BY <1>2 DEF TxReview
<1>9. [a \in {} |-> BalanceChange(p, a)] = <<>>
  OBVIOUS
<1>10. [i \in {} |-> TxOut(p.outs[i])] = <<>>
  OBVIOUS
<1> QED BY <1>7, <1>8, <1>9, <1>10 DEF Shows

(* An issuance's review shows the new asset and its token.                   *)
IssueChanges(id, amount, tokens) ==
    [a \in {IssuanceIds(id).asset} \cup (IF tokens = 0 THEN {} ELSE {IssuanceIds(id).token}) |->
        IF a = IssuanceIds(id).asset THEN amount ELSE tokens]

(* The outputs of an issuance: the asset, and its token if there are any.    *)
LEMMA IssueHeads ==
    ASSUME NEW id, NEW amount, NEW tokens, NEW head, head = IssueHead(id, amount, tokens)
    PROVE  /\ IsSeq(head) /\ Len(head) = IF tokens > 0 THEN 2 ELSE 1
           /\ head[1] = WalletOutput(IssuanceIds(id).asset, amount, FALSE)
           /\ tokens > 0 => head[2] = WalletOutput(IssuanceIds(id).token, tokens, FALSE)
<1> DEFINE x == WalletOutput(IssuanceIds(id).asset, amount, FALSE)
           y == WalletOutput(IssuanceIds(id).token, tokens, FALSE)
<1>1. IssueHead(id, amount, tokens) = IF tokens > 0 THEN <<x>> \o <<y>> ELSE <<x>> \o <<>>
  BY DEF IssueHead
<1> HIDE DEF x, y
<1>3. <<x>> \o <<>> = <<x>>
  <2>1. <<x>> \in Seq({x})
    OBVIOUS
  <2> QED BY <2>1, NothingAfter
<1>4. CASE tokens > 0
  <2>1. PICK s, t, h : s = <<x>> /\ t = <<y>> /\ h = s \o t
    OBVIOUS
  <2>2. IsSeq(s) /\ Len(s) = 1 /\ s[1] = x /\ IsSeq(t) /\ Len(t) = 1 /\ t[1] = y
    BY <2>1, One
  <2>3. /\ IsSeq(h) /\ Len(h) = Len(s) + Len(t)
        /\ \A i \in 1..Len(s) : h[i] = s[i]
        /\ \A i \in 1..Len(t) : h[Len(s) + i] = t[i]
    BY <2>1, <2>2, Joined
  <2>4. IsSeq(h) /\ Len(h) = 2 /\ h[1] = x /\ h[2] = y
    BY ONLY <2>2, <2>3
  <2>5. IssueHead(id, amount, tokens) = h
    BY <1>1, <1>4, <2>1
  <2> QED BY <1>4, <2>4, <2>5 DEF x, y
<1>5. CASE ~(tokens > 0)
  <2>1. IssueHead(id, amount, tokens) = <<x>>
    BY <1>1, <1>3, <1>5
  <2>2. IsSeq(<<x>>) /\ Len(<<x>>) = 1 /\ <<x>>[1] = x
    BY One
  <2> QED BY <1>5, <2>1, <2>2 DEF x
<1> QED BY <1>4, <1>5

(* The review shows the issued amounts, to the wallet, and signs the coin    *)
(* that issues.                                                              *)
LEMMA IssueReview ==
    ASSUME NEW p, NEW f, NEW C, NEW A, NEW amount, amount \in 1..MaxMoney, NEW tokens,
           Analyzed(p, "Issuance"), f.inputs \in Seq(C), f.inputs # <<>>,
           f.changes \in Seq(Change(A)),
           \A c \in C : c.id \in Nat,
           Assembled(p, f, <<>>, IssueHead(f.inputs[1].id, amount, tokens)),
           p.ins[1].issuance = [amount |-> amount, tokens |-> tokens]
    PROVE  LET review == TxReview(p, "Issuance")
               id == f.inputs[1].id
           IN  /\ id \in review.signs
               /\ Shows(review, IssueChanges(id, amount, tokens), <<>>)
<1> DEFINE id == f.inputs[1].id
           head == IssueHead(id, amount, tokens)
           review == TxReview(p, "Issuance")
<1>1. IsSeq(p.ins) /\ IsSeq(p.outs)
  BY DEF Assembled
<1>2. /\ IsSeq(head) /\ Len(head) = IF tokens > 0 THEN 2 ELSE 1
      /\ head[1] = WalletOutput(IssuanceIds(id).asset, amount, FALSE)
      /\ tokens > 0 => head[2] = WalletOutput(IssuanceIds(id).token, tokens, FALSE)
  <2> HIDE DEF id
  <2> QED BY IssueHeads
<1>3. id \in Nat /\ Len(f.inputs) \in Nat /\ Len(f.inputs) > 0
  <2>1. 1 \in DOMAIN f.inputs /\ f.inputs[1] \in C
    OBVIOUS
  <2> QED BY <2>1
<1>4. \A i \in DOMAIN p.ins : p.ins[i].derived
  BY AllDerived
<1> HIDE DEF head
<1>6. DOMAIN p.ins = 1..Len(p.ins) /\ Len(p.ins) \in Nat /\ 1 \in DOMAIN p.ins
  <2>1. Len(p.ins) = Len(<<>>) + Len(f.inputs) /\ Len(<<>>) = 0
    BY NoElement DEF Assembled
  <2> QED BY <1>1, <1>3, <2>1, IsSeqOf
<1>8. tokens \in Nat
  <2>1. InputAccepted(p, 1, "Issuance")
    BY <1>6 DEF Analyzed
  <2>2. [amount |-> amount, tokens |-> tokens] # NoIssuance
    BY BoundsAssumption DEF NoIssuance
  <2> QED BY <2>1, <2>2, BoundsAssumption DEF InputAccepted, ExplicitIssuance
<1>5. External(p) = {}
  <2>1. Assembled(p, f, <<>>, head) /\ Len(head) \in Nat
    BY <1>2 DEF head
  <2>2. External(p) = {i \in 1..Len(head) : head[i].to # Fee /\ ~OutputIsWallet(head[i])}
    BY <2>1, ExternalInHead
  <2>3. \A i \in 1..Len(head) : OutputIsWallet(head[i])
    <3>1. \A a, v, b : OutputIsWallet(WalletOutput(a, v, b))
      BY DEF WalletOutput, PsetOutput, OutputIsWallet
    <3>2. \A i \in 1..Len(head) : i = 1 \/ (tokens > 0 /\ i = 2)
      <4>1. CASE tokens > 0
        <5>1. Len(head) = 2
          BY <1>2, <4>1
        <5>2. 1..Len(head) = {1, 2}
          BY <5>1
        <5> QED BY <4>1, <5>2
      <4>2. CASE ~(tokens > 0)
        <5>1. Len(head) = 1
          BY <1>2, <4>2
        <5>2. 1..Len(head) = {1}
          BY <5>1
        <5> QED BY <5>2
      <4> QED BY <4>1, <4>2
    <3>3. OutputIsWallet(head[1]) /\ (tokens > 0 => OutputIsWallet(head[2]))
      BY <1>2, <3>1
    <3> QED BY <3>2, <3>3
  <2> QED BY <2>2, <2>3
<1>7. p.ins[1].id = id
  <2>1. PICK in, c : in = p.ins[1] /\ c = f.inputs[1]
    OBVIOUS
  <2>2. in = [WalletInput(c, "ALL") EXCEPT !.issuance = in.issuance]
    <3>1. 1 \in 1..Len(f.inputs) /\ Len(<<>>) + 1 = 1
      BY <1>3, NoElement
    <3> QED BY <2>1, <3>1 DEF Assembled
  <2> QED BY <2>1, <2>2 DEF WalletInput
<1> HIDE DEF id
<1>9. ASSUME NEW a \in AssetsOf(p) PROVE BalanceChange(p, a) = Issued(p.ins[1], a)
  <2>1. BalanceChange(p, a) = SumFunctionOnSet(IssuedBy(p, a), DOMAIN p.ins)
                             - SumFunctionOnSet(Values(p.outs), ExternalOf(p, a))
    BY <1>1, <1>4, BalanceIs
  <2>2. SumFunctionOnSet(Values(p.outs), ExternalOf(p, a)) = 0
    BY <1>5, SumEmpty DEF ExternalOf
  <2>3. Issued(p.ins[1], a) \in Int
    BY <1>8, BoundsAssumption DEF Issued
  <2>4. \A i \in DOMAIN p.ins : i # 1 => p.ins[i].issuance = NoIssuance
    BY DEF Analyzed, InputAccepted
  <2>5. \A i \in DOMAIN p.ins : i # 1 => IssuedBy(p, a)[i] = 0
    BY <2>4 DEF IssuedBy, Issued, NoIssuance
  <2>6. IssuedBy(p, a)[1] = Issued(p.ins[1], a)
    BY <1>6 DEF IssuedBy
  <2>7. IsFiniteSet(DOMAIN p.ins)
    BY <1>6, FS_Interval
  <2>8. SumFunctionOnSet(IssuedBy(p, a), DOMAIN p.ins) = IssuedBy(p, a)[1]
    BY SMTT(30), <1>6, <2>3, <2>5, <2>6, <2>7, SumSingle
  <2> QED BY <2>1, <2>2, <2>3, <2>6, <2>8
<1>10. PICK new, token : new = IssuanceIds(id).asset /\ token = IssuanceIds(id).token
  OBVIOUS
<1>11. new # token
  BY <1>3, <1>10 DEF IssuanceIds
<1>12. \A a : Issued(p.ins[1], a) = (IF a = new THEN amount ELSE 0) + (IF a = token THEN tokens ELSE 0)
  BY <1>7, <1>10 DEF Issued
<1>13. new \in AssetsOf(p) /\ token \in AssetsOf(p)
  BY <1>6, <1>7, <1>10 DEF AssetsOf
<1>14. amount \in Int /\ amount # 0
  BY BoundsAssumption
<1>20. BalanceChange(p, new) = amount
  <2>1. Issued(p.ins[1], new) = amount + 0
    BY <1>11, <1>12
  <2>2. BalanceChange(p, new) = Issued(p.ins[1], new)
    BY <1>9, <1>13
  <2> QED BY ONLY <1>14, <2>1, <2>2
<1>21. BalanceChange(p, token) = tokens
  <2>1. Issued(p.ins[1], token) = 0 + tokens
    BY <1>11, <1>12
  <2>2. BalanceChange(p, token) = Issued(p.ins[1], token)
    BY <1>9, <1>13
  <2> QED BY ONLY <1>8, <2>1, <2>2
<1>22. \A a \in AssetsOf(p) : a # new /\ a # token => BalanceChange(p, a) = 0
  <2> SUFFICES ASSUME NEW a \in AssetsOf(p), a # new, a # token PROVE BalanceChange(p, a) = 0
    OBVIOUS
  <2>1. Issued(p.ins[1], a) = 0 + 0
    BY <1>12
  <2>2. BalanceChange(p, a) = Issued(p.ins[1], a)
    BY <1>9
  <2> QED BY ONLY <2>1, <2>2
<1>15. {b \in AssetsOf(p) : BalanceChange(p, b) # 0} = {new} \cup (IF tokens = 0 THEN {} ELSE {token})
  BY <1>8, <1>13, <1>14, <1>20, <1>21, <1>22
<1>16. \A a \in {new} \cup (IF tokens = 0 THEN {} ELSE {token}) :
          BalanceChange(p, a) = IF a = new THEN amount ELSE tokens
  BY <1>20, <1>21
<1>17. review.changes = IssueChanges(id, amount, tokens)
  BY <1>10, <1>15, <1>16 DEF TxReview, IssueChanges
<1>18. review.external = <<>>
  <2>1. review.external = [i \in {} |-> TxOut(p.outs[i])]
    BY <1>5 DEF TxReview
  <2>2. [i \in {} |-> TxOut(p.outs[i])] = <<>>
    OBVIOUS
  <2> QED BY <2>1, <2>2
<1>19. id \in review.signs
  BY <1>4, <1>6, <1>7 DEF TxReview
<1> QED BY <1>17, <1>18, <1>19 DEF id, Shows

(* An offer's review shows the coin that goes and what is wanted for it.     *)
OfferPset(coin, want, amount) ==
    [genesis |-> Genesis, ins |-> <<WalletInput(coin, "SINGLE|ANYONECANPAY")>>,
     outs |-> <<WalletOutput(want, amount, FALSE)>>]

OfferChanges(coin, want, amount) ==
    [a \in {coin.asset, want} |-> IF a = want THEN amount ELSE -coin.value]

(* The review of an offer shows the coin given and the output wanted.        *)
LEMMA OfferReview ==
    ASSUME NEW coin, NEW want, NEW amount, amount \in 1..MaxMoney, coin.asset # want,
           coin.value \in 1..MaxMoney
    PROVE  Shows(TxReview(OfferPset(coin, want, amount), "SwapOffer"),
                 OfferChanges(coin, want, amount), <<>>)
<1> DEFINE flag == "SINGLE|ANYONECANPAY"
           p == [genesis |-> Genesis, ins |-> <<WalletInput(coin, flag)>>,
                 outs |-> <<WalletOutput(want, amount, FALSE)>>]
<1>1. /\ DOMAIN p.ins = {1} /\ p.ins[1].asset = coin.asset /\ p.ins[1].value = coin.value
      /\ p.ins[1].derived
  BY DEF WalletInput
<1>2. /\ DOMAIN p.outs = {1} /\ p.outs[1].asset = want /\ p.outs[1].value = amount
      /\ OutputIsWallet(p.outs[1]) /\ p.outs[1].to # Fee
  BY DEF WalletOutput, PsetOutput, OutputIsWallet, Wallet, Fee
<1>3. External(p) = {} /\ FeeOutputs(p) = {}
  BY <1>2 DEF External, FeeOutputs
<1>4. Values(p.ins)[1] = coin.value /\ Values(p.outs)[1] = amount
  BY <1>1, <1>2 DEF Values
<1>5. amount \in Int /\ amount # 0 /\ coin.value \in Int /\ coin.value # 0
  BY BoundsAssumption
<1>6. FeeOf(p) = 0
  BY <1>3, SumEmpty DEF FeeOf
<1>6a. \A a : SumFunctionOnSet(Values(p.ins), WalletIns(p, a)) = IF a = coin.asset THEN coin.value ELSE 0
  <2> SUFFICES ASSUME NEW a
               PROVE  SumFunctionOnSet(Values(p.ins), WalletIns(p, a)) = IF a = coin.asset THEN coin.value ELSE 0
    OBVIOUS
  <2>1. WalletIns(p, a) = IF a = coin.asset THEN {1} ELSE {}
    BY <1>1 DEF WalletIns
  <2>2. CASE a = coin.asset
    <3>1. SumFunctionOnSet(Values(p.ins), {1}) = coin.value
      BY <1>4, <1>5, SumOne
    <3> QED BY <2>1, <2>2, <3>1
  <2>3. CASE a # coin.asset
    BY <2>1, <2>3, SumEmpty
  <2> QED BY <2>2, <2>3
<1>6b. \A a : SumFunctionOnSet(Values(p.outs), WalletOuts(p, a)) = IF a = want THEN amount ELSE 0
  <2> SUFFICES ASSUME NEW a
               PROVE  SumFunctionOnSet(Values(p.outs), WalletOuts(p, a)) = IF a = want THEN amount ELSE 0
    OBVIOUS
  <2>1. WalletOuts(p, a) = IF a = want THEN {1} ELSE {}
    BY <1>2 DEF WalletOuts
  <2> QED BY <1>4, <1>5, <2>1, SumOne, SumEmpty
<1>6c. \A a : BalanceChange(p, a) = (IF a = want THEN amount ELSE 0) - (IF a = coin.asset THEN coin.value ELSE 0)
                                    + (IF a = Policy THEN 0 ELSE 0)
  BY <1>6, <1>6a, <1>6b DEF BalanceChange
<1>6d. ASSUME NEW a PROVE (IF a = Policy THEN 0 ELSE 0) = 0
  OBVIOUS
<1>7. coin.asset \in AssetsOf(p) /\ want \in AssetsOf(p)
  BY <1>1, <1>2 DEF AssetsOf
<1>8. BalanceChange(p, want) = amount
  <2>1. BalanceChange(p, want) = amount - 0 + 0
    BY <1>6c, <1>6d
  <2> QED BY ONLY <1>5, <2>1
<1>8a. BalanceChange(p, coin.asset) = -coin.value
  <2>1. BalanceChange(p, coin.asset) = 0 - coin.value + 0
    BY <1>6c, <1>6d
  <2> QED BY ONLY <1>5, <2>1
<1>8b. \A a \in AssetsOf(p) : a # want /\ a # coin.asset => BalanceChange(p, a) = 0
  <2> SUFFICES ASSUME NEW a \in AssetsOf(p), a # want, a # coin.asset PROVE BalanceChange(p, a) = 0
    OBVIOUS
  <2>1. BalanceChange(p, a) = 0 - 0 + 0
    BY <1>6c, <1>6d
  <2> QED BY ONLY <2>1
<1>9. {b \in AssetsOf(p) : BalanceChange(p, b) # 0} = {coin.asset, want}
  <2>1. \A a \in AssetsOf(p) : BalanceChange(p, a) # 0 <=> a \in {coin.asset, want}
    <3> SUFFICES ASSUME NEW a \in AssetsOf(p) PROVE BalanceChange(p, a) # 0 <=> a \in {coin.asset, want}
      OBVIOUS
    <3>1. CASE a = want
      BY <1>5, <1>8, <3>1
    <3>2. CASE a = coin.asset
      <4>1. PICK v : v = coin.value
        OBVIOUS
      <4>2. -v # 0
        BY ONLY <4>1, <1>5
      <4> QED BY <1>8a, <3>2, <4>1, <4>2
    <3>3. CASE a # want /\ a # coin.asset
      BY <1>8b, <3>3
    <3> QED BY <3>1, <3>2, <3>3
  <2> QED BY <1>7, <2>1
<1>10. TxReview(p, "SwapOffer").changes =
          [a \in {coin.asset, want} |-> IF a = want THEN amount ELSE -coin.value]
  BY <1>8, <1>8a, <1>9 DEF TxReview
<1>11. TxReview(p, "SwapOffer").external = <<>>
  <2>1. TxReview(p, "SwapOffer").external = [i \in {} |-> TxOut(p.outs[i])]
    BY <1>3 DEF TxReview
  <2>2. [i \in {} |-> TxOut(p.outs[i])] = <<>>
    OBVIOUS
  <2> QED BY <2>1, <2>2
<1> QED BY <1>10, <1>11 DEF Shows, OfferPset, OfferChanges

-----------------------------------------------------------------------------
(* What a take trades.                                                       *)

(* What a quote takes: the makers' side of the PSET, position by position.   *)
Trades(p, s, sell, buy) ==
    /\ DOMAIN p.ins = 1..Len(p.ins) /\ DOMAIN p.outs = 1..Len(p.outs)
    /\ \A i \in 1..Len(s) :
         /\ i \in DOMAIN p.ins /\ p.ins[i].asset = buy /\ p.ins[i].value = s[i].give.amount
         /\ i \in DOMAIN p.outs /\ p.outs[i].asset = sell /\ p.outs[i].value = s[i].want.amount
    /\ {i \in DOMAIN p.ins : ~p.ins[i].derived} = 1..Len(s)
    /\ External(p) = 1..Len(s)

(* A PSET put together for a quote: inputs and outputs of makers are those   *)
(* of the offers taken, in their order, and there are no others.             *)
LEMMA SwapTrades ==
    ASSUME NEW s, IsSeq(s), NEW fetched, NEW makers, NEW head, NEW A, Taken(s, fetched, makers, head, A),
           IsSeq(head), NEW p, NEW f, Assembled(p, f, makers, head), NEW C, f.inputs \in Seq(C),
           NEW B, f.changes \in Seq(Change(B)), NEW sell, NEW buy,
           \A i \in 1..Len(s) : s[i].give.asset = buy /\ s[i].want.asset = sell
    PROVE  Trades(p, s, sell, buy)
<1> DEFINE n == Len(s)
<1>1. /\ n \in Nat /\ Len(makers) = n /\ Len(head) \in Nat /\ Len(head) >= n
      /\ Len(f.inputs) \in Nat /\ Len(f.changes) \in Nat
  BY DEF IsSeq, Taken
<1>2. /\ DOMAIN p.ins = 1..Len(p.ins) /\ Len(p.ins) = n + Len(f.inputs)
      /\ DOMAIN p.outs = 1..Len(p.outs) /\ Len(p.outs) = Len(head) + Len(f.changes) + 1
  BY <1>1, IsSeqOf DEF Assembled
<1>3. ASSUME NEW i \in 1..n
      PROVE  /\ i \in DOMAIN p.ins /\ p.ins[i].asset = buy /\ p.ins[i].value = s[i].give.amount
             /\ ~p.ins[i].derived
             /\ i \in DOMAIN p.outs /\ p.outs[i].asset = sell /\ p.outs[i].value = s[i].want.amount
             /\ head[i].to # Fee /\ ~OutputIsWallet(head[i])
  <2>1. PICK o, c : o = s[i] /\ c = fetched[i]
    OBVIOUS
  <2>2. /\ p.ins[i] = MakerInput(o, c) /\ head[i] = MakerOutput(o) /\ p.outs[i] = head[i]
        /\ OfferVerifies(o, c) /\ o.give.asset = buy /\ o.want.asset = sell
    BY <1>1, <2>1 DEF Taken, Assembled
  <2>3. /\ o.give = [asset |-> c.asset, amount |-> c.value] /\ o.out.to # Fee
        /\ o.want = [asset |-> o.out.asset, amount |-> o.out.value]
    BY <2>2 DEF OfferVerifies
  <2>4. c.asset = buy /\ c.value = o.give.amount /\ o.out.asset = sell /\ o.out.value = o.want.amount
    BY <2>2, <2>3
  <2>5. p.ins[i].asset = buy /\ p.ins[i].value = o.give.amount /\ ~p.ins[i].derived
    BY <2>2, <2>4 DEF MakerInput
  <2>6. PICK a, v, t, k : a = o.out.asset /\ v = o.out.value /\ t = o.out.to /\ k = o.out.key
    OBVIOUS
  <2>7. head[i] = [asset |-> a, value |-> v, to |-> t, derived |-> FALSE, key |-> k, opens |-> <<a, v>>]
    BY <2>2, <2>6 DEF MakerOutput, PsetOutput
  <2>8. head[i].asset = sell /\ head[i].value = o.want.amount /\ head[i].to # Fee /\ ~OutputIsWallet(head[i])
    BY <2>3, <2>4, <2>6, <2>7 DEF OutputIsWallet
  <2>9. i \in DOMAIN p.ins /\ i \in DOMAIN p.outs
    BY <1>1, <1>2
  <2> QED BY <2>1, <2>2, <2>5, <2>8, <2>9
<1>4. ASSUME NEW i \in DOMAIN p.ins, i > n PROVE p.ins[i].derived
  <2>1. i - n \in 1..Len(f.inputs) /\ n + (i - n) = i
    BY <1>1, <1>2, <1>4
  <2>2. p.ins[i] = [WalletInput(f.inputs[i - n], "ALL") EXCEPT !.issuance = p.ins[i].issuance]
    <3>1. \A j \in 1..Len(f.inputs) :
            p.ins[n + j] = [WalletInput(f.inputs[j], "ALL") EXCEPT !.issuance = p.ins[n + j].issuance]
      BY <1>1 DEF Assembled
    <3>2. PICK j : j = i - n
      OBVIOUS
    <3> QED BY <2>1, <3>1, <3>2
  <2>3. PICK c, x : c = f.inputs[i - n] /\ x = p.ins[i].issuance
    OBVIOUS
  <2>4. p.ins[i] = [WalletInput(c, "ALL") EXCEPT !.issuance = x]
    BY <2>2, <2>3
  <2> QED BY <2>4 DEF WalletInput
<1>5. {i \in DOMAIN p.ins : ~p.ins[i].derived} = 1..n
  BY <1>1, <1>2, <1>3, <1>4
<1>6. ASSUME NEW i \in 1..Len(head), i > n PROVE OutputIsWallet(head[i])
  <2>1. PICK a, v : head[i] = WalletOutput(a, v, FALSE)
    BY <1>6 DEF Taken
  <2> QED BY <2>1 DEF WalletOutput, PsetOutput, OutputIsWallet
<1>7. External(p) = 1..n
  <2>1. External(p) = {i \in 1..Len(head) : head[i].to # Fee /\ ~OutputIsWallet(head[i])}
    BY <1>1, ExternalInHead
  <2>2. \A i \in 1..n : i \in 1..Len(head)
    BY <1>1
  <2>3. \A i \in 1..Len(head) : i \in 1..n \/ i > n
    BY <1>1
  <2> QED BY <1>3, <1>6, <2>1, <2>2, <2>3
<1> QED BY <1>2, <1>3, <1>5, <1>7 DEF Trades

-----------------------------------------------------------------------------
(* When the builder gives up for want of funds.                              *)

(* A list of coins from the largest to the smallest.                         *)
ListsDown(r, S) ==
    /\ \A i \in 1..Cardinality(S) : r[i] \in S
    /\ \A c \in S : \E i \in 1..Cardinality(S) : r[i] = c
    /\ \A i, j \in 1..Cardinality(S) : r[i] = r[j] => i = j
    /\ \A i, j \in 1..Cardinality(S) : i < j => r[j].value <= r[i].value

(* The pool lists each coin once, no coin after a smaller one.               *)
LEMMA LargestFirst ==
    ASSUME NEW S, IsFiniteSet(S), \A c \in S : c.value \in Int /\ c.id \in Int,
           \A c, d \in S : c.id = d.id => c = d
    PROVE  ListsDown(Rank(S, Before), S)
<1> DEFINE R == {p \in S \X S : Before(p[1], p[2])}
           n == Cardinality(S)
           Below(x) == {y \in S : Before(y, x)}
           ranked(i) == CHOOSE x \in S : Cardinality(Below(x)) = i - 1
           r == [i \in 1..n |-> ranked(i)]
<1>1. n \in Nat
  BY FS_CardinalityType
<1>2. /\ \A x, y, z \in S : Before(x, y) /\ Before(y, z) => Before(x, z)
      /\ \A x, y \in S : x # y => Before(x, y) \/ Before(y, x)
      /\ \A x \in S : ~Before(x, x)
      /\ \A x, y \in S : ~Before(y, x) => y.value <= x.value
  <2>1. \A x, y, z \in S : Before(x, y) /\ Before(y, z) => Before(x, z)
    BY DEF Before
  <2>2. \A x, y \in S : x # y => Before(x, y) \/ Before(y, x)
    BY DEF Before
  <2>3. \A x \in S : ~Before(x, x)
    BY DEF Before
  <2>4. \A x, y \in S : ~Before(y, x) => y.value <= x.value
    BY DEF Before
  <2> QED BY <2>1, <2>2, <2>3, <2>4
<1>3. StrictOrder(R, S)
  <2>1. \A x, y \in S : <<x, y>> \in R <=> Before(x, y)
    OBVIOUS
  <2> HIDE DEF R
  <2> QED BY <1>2, <2>1 DEF StrictOrder
<1>4. \A x \in S : {y \in S : <<y, x>> \in R} = Below(x)
  OBVIOUS
<1>5. ASSUME NEW i \in 1..n PROVE r[i] \in S /\ Cardinality(Below(r[i])) = i - 1
  <2>1. i - 1 \in 0..(n - 1)
    BY <1>1
  <2>2. \E x \in S : Cardinality(Below(x)) = i - 1
    <3> HIDE DEF R, Below
    <3>1. PICK x \in S : Cardinality({y \in S : <<y, x>> \in R}) = i - 1
      BY <1>3, <2>1, Ranks
    <3> QED BY <1>4, <3>1
  <2>3. r[i] = ranked(i)
    OBVIOUS
  <2> HIDE DEF Below
  <2> QED BY <2>2, <2>3
<1>6. ASSUME NEW x \in S, NEW y \in S, Before(x, y)
      PROVE  /\ Cardinality(Below(x)) \in Nat /\ Cardinality(Below(y)) \in Nat
             /\ Cardinality(Below(x)) < Cardinality(Below(y))
  <2>1. Below(x) \cup {x} \subseteq Below(y) /\ x \notin Below(x)
    BY <1>2, <1>6
  <2>2. IsFiniteSet(Below(x)) /\ IsFiniteSet(Below(y))
    BY FS_Subset
  <2> HIDE DEF Below
  <2>3. Cardinality(Below(x) \cup {x}) = Cardinality(Below(x)) + 1
    BY <2>1, <2>2, FS_AddElement
  <2>4. Cardinality(Below(x) \cup {x}) <= Cardinality(Below(y))
    BY <2>1, <2>2, FS_Subset
  <2> QED BY <2>2, <2>3, <2>4, FS_CardinalityType
<1>7. ASSUME NEW c \in S PROVE \E i \in 1..n : r[i] = c
  <2>1. IsFiniteSet(S \ {c}) /\ Cardinality(S \ {c}) = n - 1
    BY FS_RemoveElement
  <2>2. Below(c) \subseteq S \ {c}
    BY <1>2
  <2>3. Cardinality(Below(c)) \in Nat /\ Cardinality(Below(c)) <= n - 1
    BY <2>1, <2>2, FS_Subset, FS_CardinalityType
  <2>4. PICK i : i = Cardinality(Below(c)) + 1
    OBVIOUS
  <2>5. i \in 1..n /\ i - 1 = Cardinality(Below(c))
    BY <1>1, <2>3, <2>4
  <2>6. r[i] \in S /\ Cardinality(Below(r[i])) = Cardinality(Below(c))
    BY <1>5, <2>5
  <2>7. PICK x : x = r[i]
    OBVIOUS
  <2>8. x \in S /\ Cardinality(Below(x)) = Cardinality(Below(c))
    BY <2>6, <2>7
  <2> HIDE DEF Below, r
  <2>9. ~Before(x, c) /\ ~Before(c, x)
    BY <1>6, <2>8
  <2>10. x = c
    BY <1>2, <2>8, <2>9
  <2> QED BY <2>5, <2>7, <2>10
<1>8. ASSUME NEW i \in 1..n, NEW j \in 1..n, r[i] = r[j] PROVE i = j
  <2>1. i - 1 = j - 1
    BY <1>5, <1>8
  <2> QED BY <2>1
<1>9. ASSUME NEW i \in 1..n, NEW j \in 1..n, i < j PROVE r[j].value <= r[i].value
  <2>1. ~Before(r[j], r[i])
    <3> SUFFICES ASSUME Before(r[j], r[i]) PROVE FALSE
      OBVIOUS
    <3>1. PICK x, y : x = r[i] /\ y = r[j]
      OBVIOUS
    <3>2. x \in S /\ y \in S /\ Cardinality(Below(x)) = i - 1 /\ Cardinality(Below(y)) = j - 1 /\ Before(y, x)
      BY <1>5, <3>1
    <3> HIDE DEF Below, r, ranked
    <3>3. j - 1 < i - 1
      BY <1>6, <3>2
    <3> QED BY <1>9, <3>3
  <2>2. r[i] \in S /\ r[j] \in S
    BY <1>5
  <2> QED BY <2>1, <2>2 DEF Before
<1>10. Rank(S, Before) = r
  BY DEF Rank
<1>11. ListsDown(r, S)
  <2> HIDE DEF r
  <2> QED BY <1>5, <1>7, <1>8, <1>9 DEF ListsDown
<1> HIDE DEF r
<1> QED BY <1>10, <1>11

(* Reviewing a PSET never fails for want of funds, ...                       *)
LEMMA ReviewNotFunds ==
    ASSUME NEW p, NEW kind PROVE ReviewPset(p, kind) # Failure("InsufficientFunds")
<1>1. CASE ReviewPset(p, kind).ok
  BY <1>1 DEF Failure
<1>2. CASE ~ReviewPset(p, kind).ok
  <2>1. Analyze(p, kind) = ReviewPset(p, kind) /\ ~Analyze(p, kind).ok
    BY <1>2 DEF ReviewPset
  <2>2. \/ Analyze(p, kind) = Failure("InvalidPset") \/ Analyze(p, kind) = Failure("Confidential")
        \/ Analyze(p, kind) = Failure("TooManyItems") \/ Analyze(p, kind) = Failure("DuplicateUtxo")
    <3> DEFINE rest == /\ \A i \in DOMAIN p.ins : InputAccepted(p, i, kind)
                       /\ \A i \in DOMAIN p.outs : OutputAccepted(p, i)
                       /\ Confidential(p) => CommitmentsBalance(p)
                       /\ kind # "SwapOffer" => Cardinality(FeeOutputs(p)) = 1 /\ Conserved(p)
                       /\ KindAccepted(p, kind)
    <3>1. \/ Analyze(p, kind) = Failure("InvalidPset") \/ Analyze(p, kind) = Failure("Confidential")
          \/ Analyze(p, kind) = Failure("TooManyItems") \/ Analyze(p, kind) = Failure("DuplicateUtxo")
          \/ Analyze(p, kind) = IF rest THEN [ok |-> TRUE, review |-> TxReview(p, kind)]
                                ELSE Failure("InvalidPset")
      BY DEF Analyze
    <3> HIDE DEF rest
    <3> QED BY <2>1, <3>1
  <2> QED BY <2>1, <2>2 DEF Failure
<1> QED BY <1>1, <1>2

(* ... nor does the building of one that is funded.                          *)
LEMMA FinishNotFunds ==
    ASSUME NEW ins, NEW outs, NEW kind, NEW funded
    PROVE  Finish(ins, outs, kind, funded) # Failure("InsufficientFunds")
<1>1. Failure("InvalidPset") # Failure("InsufficientFunds")
  BY DEF Failure
<1>2. PICK p : p = [genesis |-> Genesis, ins |-> ins, outs |-> outs]
  OBVIOUS
<1>3. \/ Finish(ins, outs, kind, funded) = Failure("InvalidPset")
      \/ Finish(ins, outs, kind, funded) = ReviewPset(p, kind)
  BY <1>2 DEF Finish
<1> QED BY <1>1, <1>3, ReviewNotFunds

(* A payment in the policy asset needs no tokens: fund goes straight to the  *)
(* policy loop.                                                              *)
LEMMA FundPolicy ==
    ASSUME NEW C, NEW amount, NEW shape, NEW rate, rate \in 1..MaxFeeRate
    PROVE  Fund(<<>>, C, Only(Policy, amount), shape, rate) =
               PayFee(<<>>, <<>>, Pool(C, Policy), amount, shape, rate)
<1> DEFINE needs == Only(Policy, amount)
           tokens == (DOMAIN needs \cup {<<>>[i].asset : i \in DOMAIN <<>>}) \ {Policy}
<1>1. tokens = {}
  BY DEF Only
<1>2. NeedOf(needs, Policy) = amount
  BY DEF NeedOf, Only
<1> HIDE DEF needs
<1>3. Sorted({}) = <<>>
  <2>1. Sorted({}) \in Seq({}) /\ Len(Sorted({})) = 0
    BY SortedNumbers, FS_EmptySet
  <2> QED BY <2>1
<1>4. CoverTokens(<<>>, C, needs, {}) = <<>>
  <2>1. PICK q : q = [i \in DOMAIN <<>> |->
            Covering(<<>>, Pool(C, <<>>[i]), <<>>[i], NeedOf(needs, <<>>[i]))]
    OBVIOUS
  <2>2. CoverTokens(<<>>, C, needs, {}) = <<>> \o FlattenSeq(q)
    BY <1>3, <2>1 DEF CoverTokens
  <2>3. q = <<>>
    BY <2>1
  <2>4. FlattenSeq(<<>>) = <<>>
    BY DEF FlattenSeq
  <2> QED BY <2>2, <2>3, <2>4
<1>5. ChangesOf(<<>>, {}, needs) = <<>>
  <2> DEFINE kept == Sorted({a \in {} : Total(<<>>, a) - NeedOf(needs, a) > 0})
  <2>1. {a \in {} : Total(<<>>, a) - NeedOf(needs, a) > 0} = {}
    OBVIOUS
  <2>2. kept = <<>>
    BY <1>3, <2>1
  <2>3. ChangesOf(<<>>, {}, needs) = [i \in DOMAIN kept |->
            [asset |-> kept[i], value |-> Total(<<>>, kept[i]) - NeedOf(needs, kept[i])]]
    BY DEF ChangesOf
  <2> HIDE DEF kept
  <2> QED BY <2>2, <2>3
<1>6. Fund(<<>>, C, needs, shape, rate) =
          FundTokens(CoverTokens(<<>>, C, needs, tokens), C, needs, tokens, shape, rate)
  BY DEF Fund
<1> HIDE DEF tokens
<1>7. Fund(<<>>, C, needs, shape, rate) = FundTokens(<<>>, C, needs, {}, shape, rate)
  BY <1>1, <1>4, <1>6
<1>8. FundTokens(<<>>, C, needs, {}, shape, rate) =
          PayFee(<<>>, <<>>, Pool(C, Policy), amount, shape, rate)
  BY <1>2, <1>5 DEF FundTokens
<1> QED BY <1>7, <1>8 DEF needs

(* The policy loop gives up on a pool of explicit coins only after trying    *)
(* every beginning of it.                                                    *)
LEMMA PayFeeFails ==
    ASSUME NEW C, Proper(C), \A c \in C : c.asset = Policy => ~c.conf,
           NEW amount, NEW rate, NEW k \in 1..Len(Pool(C, Policy)),
           PayFee(<<>>, <<>>, Pool(C, Policy), amount, Shape(0, FALSE, 1, 0), rate)
               = Failure("InsufficientFunds")
    PROVE  ~(Total(SubSeq(Pool(C, Policy), 1, k), Policy) - amount - rate * Vsize(k, FALSE, 3, 0) >= 0)
<1> DEFINE pool == Pool(C, Policy)
           shape == Shape(0, FALSE, 1, 0)
           with(i) == <<>> \o SubSeq(pool, 1, i)
           fee(i) == EstimatedFee(with(i), <<>>, shape, rate)
           rest(i) == Total(with(i), Policy) - amount - fee(i)
           ready == {i \in 0..Len(pool) :
                       rest(i) >= Reserve(with(i), <<>>, shape) /\ with(i) # <<>>}
           s == SubSeq(pool, 1, k)
           m == Min(ready)
<1>1. pool \in Seq({c \in C : c.asset = Policy})
  <2> DEFINE P == {c \in C : c.asset = Policy}
  <2>1. IsFiniteSet(P)
    BY FS_Subset DEF Proper
  <2>2. /\ \A c \in P : c.value \in Int /\ c.id \in Int
        /\ \A c, d \in P : c.id = d.id => c = d
    BY DEF Proper
  <2>3. pool = Rank(P, Before)
    BY DEF Pool
  <2> HIDE DEF P
  <2>4. Rank(P, Before) \in Seq(P)
    BY ONLY <2>1, <2>2, RankCoins
  <2>5. pool \in Seq(P)
    BY <2>3, <2>4
  <2> QED BY <2>5 DEF P
<1> HIDE DEF pool
<1>2. k \in 0..Len(pool) /\ Len(pool) \in Nat /\ k \in 1..Len(pool)
  BY <1>1 DEF pool
<1>3. s \in Seq({c \in C : c.asset = Policy}) /\ Len(s) = k /\ s # <<>> /\ with(k) = s
  <2>1. s \in Seq({c \in C : c.asset = Policy}) /\ Len(s) = k
    BY <1>1, <1>2
  <2> HIDE DEF s
  <2>2. s # <<>> /\ <<>> \o s = s
    BY <1>2, <2>1
  <2> QED BY <2>1, <2>2 DEF s
<1>4. ~AnyConfidential(s)
  BY <1>3 DEF AnyConfidential
<1>5. ready = {}
  <2>1. PayFee(<<>>, <<>>, pool, amount, shape, rate) =
            IF ready = {} THEN Failure("InsufficientFunds")
            ELSE Settled(with(m), <<>>, fee(m), rest(m))
    BY DEF PayFee
  <2> HIDE DEF ready, m, with, fee, rest
  <2>2. PICK settled : settled = Settled(with(m), <<>>, fee(m), rest(m))
    OBVIOUS
  <2>3. settled # Failure("InsufficientFunds")
    BY <2>2 DEF Settled, Failure
  <2>4. PayFee(<<>>, <<>>, pool, amount, shape, rate) = Failure("InsufficientFunds")
    BY DEF pool
  <2> QED BY <2>1, <2>2, <2>3, <2>4
<1>6. fee(k) = rate * Vsize(k, FALSE, 3, 0)
  <2>1. PICK t : t = s
    OBVIOUS
  <2>2. with(k) = t /\ Len(t) = k /\ ~AnyConfidential(t)
    BY <1>3, <1>4, <2>1
  <2>3. fee(k) = EstimatedFee(t, <<>>, shape, rate)
    BY <2>2
  <2> HIDE DEF fee
  <2>4. EstimatedFee(t, <<>>, shape, rate) = rate * Vsize(k, FALSE, 3, 0)
    <3>1. EstimatedFee(t, <<>>, shape, rate) =
              rate * Vsize(0 + Len(t), FALSE, 1 + Len(<<>>) + 2, 0 + 0)
      BY <2>2 DEF EstimatedFee, Shape
    <3>2. 0 + Len(t) = k /\ 1 + Len(<<>>) + 2 = 3 /\ 0 + 0 = 0
      BY <1>2, <2>2
    <3> QED BY <3>1, <3>2
  <2> QED BY <2>3, <2>4
<1>7. Reserve(with(k), <<>>, shape) = 0
  BY <1>3, <1>4 DEF Reserve
<1>8. ~(rest(k) >= 0)
  <2> HIDE DEF with, rest, s
  <2> QED BY <1>2, <1>3, <1>5, <1>7
<1> HIDE DEF fee
<1> QED BY <1>3, <1>6, <1>8 DEF pool

-----------------------------------------------------------------------------
(* What coins, inputs and outputs carry of each asset.                       *)

(* Sequences whose elements carry integer amounts.                           *)
Valued(s) == IsSeq(s) /\ \A i \in 1..Len(s) : s[i].value \in Int

(* What they carry of an asset, as a sum over positions.                     *)
Places(s, a) == {i \in 1..Len(s) : s[i].asset = a}

(* It is an integer.                                                         *)
LEMMA TotalIs ==
    ASSUME NEW s, Valued(s), NEW a
    PROVE  /\ IsFiniteSet(Places(s, a)) /\ \A i \in Places(s, a) : Values(s)[i] \in Int
           /\ Total(s, a) = SumFunctionOnSet(Values(s), Places(s, a))
           /\ Total(s, a) \in Int
           /\ \A i \in 1..Len(s) : Values(s)[i] = s[i].value
<1>1. DOMAIN s = 1..Len(s) /\ Len(s) \in Nat
  BY IsSeqOf DEF Valued, IsSeq
<1>2. Places(s, a) \in SUBSET (1..Len(s))
  BY DEF Places
<1>3. IsFiniteSet(Places(s, a))
  BY <1>1, <1>2, Positions
<1>4. \A i \in 1..Len(s) : Values(s)[i] = s[i].value
  BY <1>1 DEF Values
<1>5. \A i \in Places(s, a) : Values(s)[i] \in Int
  BY <1>2, <1>4 DEF Valued
<1>6. Total(s, a) = SumFunctionOnSet(Values(s), Places(s, a))
  BY <1>1 DEF Total, Places
<1>7. SumFunctionOnSet(Values(s), Places(s, a)) \in Int
  BY <1>3, <1>5, SumType
<1> QED BY <1>3, <1>4, <1>5, <1>6, <1>7

(* Joined sequences carry what both carry.                                   *)
LEMMA TotalJoined ==
    ASSUME NEW s, NEW t, Valued(s), Valued(t)
    PROVE  /\ Valued(s \o t)
           /\ \A a : Total(s \o t, a) = Total(s, a) + Total(t, a)
<1> DEFINE u == s \o t
           n == Len(s)
<1>1. /\ IsSeq(u) /\ Len(u) = n + Len(t) /\ n \in Nat /\ Len(t) \in Nat
      /\ \A i \in 1..n : u[i] = s[i]
      /\ \A i \in 1..Len(t) : u[n + i] = t[i]
  BY Joined DEF Valued, IsSeq
<1> HIDE DEF u, n
<1>2. \A i \in 1..Len(u) : i \in 1..n \/ (i - n \in 1..Len(t) /\ u[i] = t[i - n] /\ i = n + (i - n))
  <2> SUFFICES ASSUME NEW i \in 1..Len(u), i \notin 1..n
               PROVE  i - n \in 1..Len(t) /\ u[i] = t[i - n] /\ i = n + (i - n)
    OBVIOUS
  <2>1. i - n \in 1..Len(t) /\ i = n + (i - n)
    BY <1>1
  <2> QED BY <1>1, <2>1
<1>3. Valued(u)
  <2>1. \A i \in 1..Len(u) : u[i].value \in Int
    BY <1>1, <1>2 DEF Valued, n
  <2> QED BY <1>1, <2>1 DEF Valued
<1>4. ASSUME NEW a PROVE Total(u, a) = Total(s, a) + Total(t, a)
  <2> DEFINE I == Places(s, a)
             J == Places(t, a)
             K == {n + j : j \in J}
             v == Values(u)
  <2>1. Places(u, a) = I \cup K
    <3>1. ASSUME NEW i \in Places(u, a) PROVE i \in I \cup K
      BY <1>1, <1>2, <3>1 DEF Places, n
    <3>2. ASSUME NEW i \in I PROVE i \in Places(u, a)
      BY <1>1, <3>2 DEF Places, n
    <3>3. ASSUME NEW j \in J PROVE n + j \in Places(u, a)
      <4>1. j \in 1..Len(t) /\ t[j].asset = a
        BY <3>3 DEF Places
      <4>2. n + j \in 1..Len(u) /\ u[n + j] = t[j]
        BY <1>1, <4>1
      <4> QED BY <4>1, <4>2 DEF Places
    <3> QED BY <3>1, <3>2, <3>3
  <2>2. /\ Total(u, a) = SumFunctionOnSet(v, Places(u, a))
        /\ \A i \in Places(u, a) : v[i] \in Int
        /\ \A i \in 1..Len(u) : v[i] = u[i].value
    BY <1>3, TotalIs
  <2>3. /\ IsFiniteSet(I) /\ Total(s, a) = SumFunctionOnSet(Values(s), I)
        /\ \A i \in 1..Len(s) : Values(s)[i] = s[i].value
    BY TotalIs
  <2>4. /\ IsFiniteSet(J) /\ Total(t, a) = SumFunctionOnSet(Values(t), J)
        /\ \A i \in J : Values(t)[i] \in Int
        /\ \A i \in 1..Len(t) : Values(t)[i] = t[i].value
    BY TotalIs
  <2>5. \A i \in I : i \in 1..Len(u) /\ i \in 1..n
    BY <1>1 DEF Places, n
  <2>6. \A j \in J : j \in 1..Len(t) /\ n + j \in 1..Len(u)
    BY <1>1 DEF Places
  <2> HIDE DEF I, J, v
  <2>7. SumFunctionOnSet(v, I) = Total(s, a)
    <3>1. \A i \in I : v[i] = Values(s)[i]
      BY <1>1, <2>2, <2>3, <2>5 DEF n
    <3> QED BY <2>3, <3>1, SumSame
  <2>8. IsFiniteSet(K) /\ SumFunctionOnSet(v, K) = Total(t, a)
    <3>1. PICK h : h = [j \in J |-> n + j]
      OBVIOUS
    <3>2. h \in [J -> K]
      BY <3>1
    <3>3. \A y \in K : \E x \in J : h[x] = y
      BY <3>1
    <3>4. \A x, y \in J : h[x] = h[y] => x = y
      BY <1>1, <2>6, <3>1
    <3>5. \A x \in J : Values(t)[x] = v[h[x]]
      BY <1>1, <2>2, <2>4, <2>6, <3>1
    <3> HIDE DEF K
    <3>6. \A x \in J : Values(t)[x] \in Int
      BY <2>4
    <3>7. IsFiniteSet(J)
      BY <2>4
    <3>8. IsFiniteSet(K) /\ SumFunctionOnSet(Values(t), J) = SumFunctionOnSet(v, K)
      BY ONLY <3>2, <3>3, <3>4, <3>5, <3>6, <3>7, SumRenamed
    <3> QED BY <2>4, <3>8
  <2>9. I \cap K = {}
    BY <1>1, <2>5, <2>6
  <2>10. \A x \in I \cup K : v[x] \in Int
    BY <2>1, <2>2
  <2> HIDE DEF K
  <2>11. SumFunctionOnSet(v, I \cup K) = SumFunctionOnSet(v, I) + SumFunctionOnSet(v, K)
    <3>1. IsFiniteSet(I) /\ IsFiniteSet(K)
      BY <2>3, <2>8
    <3> QED BY ONLY <2>9, <2>10, <3>1, SumUnion
  <2> QED BY <2>1, <2>2, <2>7, <2>8, <2>11
<1> QED BY <1>3, <1>4 DEF u

(* Sequences with the same assets and values carry the same.                 *)
LEMMA TotalSame ==
    ASSUME NEW s, NEW t, Valued(s), IsSeq(t), Len(t) = Len(s),
           \A i \in 1..Len(s) : t[i].asset = s[i].asset /\ t[i].value = s[i].value
    PROVE  Valued(t) /\ \A a : Total(t, a) = Total(s, a)
<1>1. Valued(t)
  BY DEF Valued
<1>2. ASSUME NEW a PROVE Total(t, a) = Total(s, a)
  <2>1. Places(t, a) = Places(s, a)
    BY DEF Places
  <2>2. /\ Total(t, a) = SumFunctionOnSet(Values(t), Places(t, a))
        /\ \A i \in 1..Len(t) : Values(t)[i] = t[i].value
    BY <1>1, TotalIs
  <2>3. /\ IsFiniteSet(Places(s, a)) /\ Total(s, a) = SumFunctionOnSet(Values(s), Places(s, a))
        /\ \A i \in 1..Len(s) : Values(s)[i] = s[i].value
    BY TotalIs
  <2>4. \A i \in Places(s, a) : Values(t)[i] = Values(s)[i]
    BY <2>2, <2>3 DEF Places
  <2>5. SumFunctionOnSet(Values(t), Places(s, a)) = SumFunctionOnSet(Values(s), Places(s, a))
    BY <2>3, <2>4, SumSame
  <2> QED BY <2>1, <2>2, <2>3, <2>5
<1> QED BY <1>1, <1>2

(* One element carries its own value, ...                                    *)
LEMMA TotalOne ==
    ASSUME NEW x, x.value \in Int
    PROVE  Valued(<<x>>) /\ \A a : Total(<<x>>, a) = IF x.asset = a THEN x.value ELSE 0
<1>0. PICK s : s = <<x>>
  OBVIOUS
<1>1. IsSeq(s) /\ Len(s) = 1 /\ s[1] = x
  BY <1>0, One
<1>2. Valued(s)
  BY <1>1 DEF Valued
<1>3. ASSUME NEW a PROVE Total(s, a) = IF x.asset = a THEN x.value ELSE 0
  <2>1. /\ Total(s, a) = SumFunctionOnSet(Values(s), Places(s, a))
        /\ Values(s)[1] = x.value
    BY SMTT(30), <1>1, <1>2, TotalIs
  <2>2. Places(s, a) = IF x.asset = a THEN {1} ELSE {}
    BY <1>1 DEF Places
  <2>3. SumFunctionOnSet(Values(s), {1}) = x.value
    BY <2>1, SumOne
  <2>4. SumFunctionOnSet(Values(s), {}) = 0
    BY SumEmpty
  <2> QED BY <2>1, <2>2, <2>3, <2>4
<1> QED BY <1>0, <1>2, <1>3

(* ... and none carries nothing.                                             *)
LEMMA TotalNone == Valued(<<>>) /\ \A a : Total(<<>>, a) = 0
<1>1. Valued(<<>>)
  BY NoElement DEF Valued
<1>2. ASSUME NEW a PROVE Total(<<>>, a) = 0
  <2>1. Total(<<>>, a) = SumFunctionOnSet(Values(<<>>), Places(<<>>, a))
    BY <1>1, TotalIs
  <2>2. Places(<<>>, a) = {}
    BY NoElement DEF Places
  <2> QED BY <2>1, <2>2, SumEmpty
<1> QED BY <1>1, <1>2

(* A sequence of no such asset carries nothing of it.                        *)
LEMMA TotalOther ==
    ASSUME NEW s, Valued(s), NEW a, \A i \in 1..Len(s) : s[i].asset # a
    PROVE  Total(s, a) = 0
<1>1. Total(s, a) = SumFunctionOnSet(Values(s), Places(s, a))
  BY TotalIs
<1>2. Places(s, a) = {}
  BY DEF Places
<1> QED BY <1>1, <1>2, SumEmpty

(* The beginning of a sequence.                                              *)
LEMMA Beginning ==
    ASSUME NEW C, NEW s \in Seq(C), NEW k \in 0..Len(s)
    PROVE  /\ SubSeq(s, 1, k) \in Seq(C) /\ IsSeq(SubSeq(s, 1, k)) /\ Len(SubSeq(s, 1, k)) = k
           /\ \A i \in 1..k : SubSeq(s, 1, k)[i] = s[i]
           /\ k > 0 => SubSeq(s, 1, k) = SubSeq(s, 1, k - 1) \o <<s[k]>>
<1>1. SubSeq(s, 1, k) \in Seq(C) /\ Len(SubSeq(s, 1, k)) = k /\ \A i \in 1..k : SubSeq(s, 1, k)[i] = s[i]
  OBVIOUS
<1>2. k > 0 => SubSeq(s, 1, k) = SubSeq(s, 1, k - 1) \o <<s[k]>>
  OBVIOUS
<1>3. IsSeq(SubSeq(s, 1, k))
  BY <1>1, SeqIs
<1> QED BY <1>1, <1>2, <1>3

(* Coins with values are amounts.                                            *)
LEMMA CoinsValued ==
    ASSUME NEW C, \A c \in C : c.value \in Int, NEW s \in Seq(C) PROVE Valued(s)
<1>1. IsSeq(s)
  BY SeqIs
<1>2. \A i \in 1..Len(s) : s[i] \in C
  OBVIOUS
<1> QED BY <1>1, <1>2 DEF Valued

(* No two elements have the same id.                                         *)
Separate(s) == \A i, j \in 1..Len(s) : s[i].id = s[j].id => i = j

(* Nor have any of a joined sequence if the two share none.                  *)
LEMMA SeparateJoined ==
    ASSUME NEW s, NEW t, IsSeq(s), IsSeq(t), Separate(s), Separate(t),
           \A i \in 1..Len(s), j \in 1..Len(t) : s[i].id # t[j].id
    PROVE  Separate(s \o t)
<1>1. PICK u : u = s \o t
  OBVIOUS
<1>2. PICK n : n = Len(s)
  OBVIOUS
<1>3. /\ Len(u) = n + Len(t) /\ n \in Nat /\ Len(t) \in Nat
      /\ \A i \in 1..n : u[i] = s[i]
      /\ \A i \in 1..Len(t) : u[n + i] = t[i]
  BY <1>1, <1>2, Joined DEF IsSeq
<1>4. ASSUME NEW i \in 1..Len(u)
      PROVE  i \in 1..n \/ (i - n \in 1..Len(t) /\ u[i] = t[i - n] /\ i = n + (i - n))
  <2>1. CASE i \notin 1..n
    <3>1. i - n \in 1..Len(t) /\ i = n + (i - n)
      BY <1>3, <2>1
    <3> QED BY <1>3, <3>1
  <2> QED BY <2>1
<1>5. ASSUME NEW i \in 1..Len(u), NEW j \in 1..Len(u), u[i].id = u[j].id PROVE i = j
  <2>1. CASE i \in 1..n /\ j \in 1..n
    BY <1>2, <1>3, <1>5, <2>1 DEF Separate
  <2>2. CASE i \in 1..n /\ j \notin 1..n
    BY <1>2, <1>3, <1>4, <1>5, <2>2
  <2>3. CASE i \notin 1..n /\ j \in 1..n
    BY <1>2, <1>3, <1>4, <1>5, <2>3
  <2>4. CASE i \notin 1..n /\ j \notin 1..n
    <3>1. i - n = j - n
      BY <1>4, <1>5, <2>4 DEF Separate
    <3>2. i = n + (i - n) /\ j = n + (j - n)
      BY <1>4, <2>4
    <3> QED BY <3>1, <3>2
  <2> QED BY <2>1, <2>2, <2>3, <2>4
<1> QED BY <1>1, <1>5 DEF Separate

(* Then there are as many ids as elements.                                   *)
LEMMA SeparateCounted ==
    ASSUME NEW s, IsSeq(s), Separate(s)
    PROVE  ~(Cardinality({s[i].id : i \in DOMAIN s}) < Len(s))
<1> DEFINE D == DOMAIN s
           T == {s[i].id : i \in D}
<1>1. D = 1..Len(s) /\ Len(s) \in Nat
  BY IsSeqOf DEF IsSeq
<1>2. IsFiniteSet(D) /\ Cardinality(D) = Len(s)
  <2>1. PICK n : n = Len(s)
    OBVIOUS
  <2>2. n \in Nat /\ D = 1..n
    BY <1>1, <2>1
  <2> HIDE DEF D
  <2>3. IsFiniteSet(1..n) /\ Cardinality(1..n) = n
    BY ONLY <2>2, FS_Interval
  <2> QED BY <2>1, <2>2, <2>3
<1>3. PICK f : f = [i \in D |-> s[i].id]
  OBVIOUS
<1>4. f \in Bijection(D, T)
  <2>1. f \in [D -> T] /\ \A t \in T : \E i \in D : f[i] = t
    BY <1>3
  <2>2. \A i, j \in D : f[i] = f[j] => i = j
    BY <1>1, <1>3 DEF Separate
  <2> HIDE DEF D, T
  <2> QED BY <2>1, <2>2 DEF Bijection, Injection, Surjection, IsInjective
<1> HIDE DEF D, T
<1>5. Cardinality(T) = Cardinality(D)
  BY <1>2, <1>4, FS_Bijection DEF ExistsBijection
<1>6. ~(Cardinality(T) < Len(s))
  BY <1>1, <1>2, <1>5
<1> QED BY <1>6 DEF D, T

(* The pool lists coins of its asset, each once.                             *)
LEMMA PoolGives ==
    ASSUME NEW C, Proper(C), NEW a
    PROVE  Pool(C, a) \in Seq({c \in C : c.asset = a}) /\ Separate(Pool(C, a))
<1> DEFINE P == {c \in C : c.asset = a}
           r == Pool(C, a)
<1>1. IsFiniteSet(P)
  BY FS_Subset DEF Proper
<1>2. /\ \A c \in P : c.value \in Int /\ c.id \in Int
      /\ \A c, d \in P : c.id = d.id => c = d
      /\ r = Rank(P, Before)
  BY DEF Proper, Pool
<1> HIDE DEF P
<1>3. Rank(P, Before) \in Seq(P) /\ Len(Rank(P, Before)) = Cardinality(P)
  BY ONLY <1>1, <1>2, RankCoins
<1>4. ListsDown(Rank(P, Before), P)
  BY ONLY <1>1, <1>2, LargestFirst
<1>5. r \in Seq(P) /\ Len(r) = Cardinality(P) /\ ListsDown(r, P)
  BY <1>2, <1>3, <1>4
<1> HIDE DEF r
<1>6. ASSUME NEW i \in 1..Len(r), NEW j \in 1..Len(r), r[i].id = r[j].id PROVE i = j
  <2>1. r[i] \in P /\ r[j] \in P
    BY <1>5
  <2>2. r[i] = r[j]
    BY <1>2, <1>6, <2>1
  <2> QED BY <1>5, <2>2 DEF ListsDown
<1>7. Separate(r)
  BY <1>6 DEF Separate
<1> QED BY <1>5, <1>7 DEF P, r

(* A part of coins told apart by their ids may be left out.                  *)
LEMMA SeparateBeginning ==
    ASSUME NEW C, NEW s \in Seq(C), Separate(s), NEW k \in 0..Len(s)
    PROVE  Separate(SubSeq(s, 1, k))
<1>1. /\ Len(SubSeq(s, 1, k)) = k
      /\ \A i \in 1..k : SubSeq(s, 1, k)[i] = s[i]
  BY Beginning
<1>2. \A i \in 1..k : i \in 1..Len(s)
  OBVIOUS
<1> QED BY <1>1, <1>2 DEF Separate

-----------------------------------------------------------------------------
(* Funding adds up: what the coins bring is what was needed, the change and  *)
(* the fee.                                                                  *)

(* More inputs, outputs or blinded outputs make a transaction no smaller.    *)
LEMMA VsizeMore ==
    ASSUME NEW i \in Nat, NEW j \in Nat, i <= j, NEW e, NEW g, e => g,
           NEW m \in Nat, NEW n \in Nat, 1 <= m, m <= n, NEW b \in Nat, NEW d \in Nat, b <= d
    PROVE  /\ Vsize(i, e, m, b) \in Nat /\ Vsize(j, g, n, d) \in Nat /\ Vsize(i, e, m, b) > 0
           /\ Vsize(i, e, m, b) <= Vsize(j, g, n, d)
<1>1. PICK x, y : x = (IF e THEN 82 ELSE 0) /\ y = IF g THEN 82 ELSE 0
  OBVIOUS
<1>2. x \in Nat /\ y \in Nat /\ x <= y
  BY <1>1
<1>3. /\ Vsize(i, e, m, b) = (4 * (15 + 41 * i + x + 66 * m - 22 + 56 * b) + (112 * i + 2 * m + 4340 * b) + 3) \div 4
      /\ Vsize(j, g, n, d) = (4 * (15 + 41 * j + y + 66 * n - 22 + 56 * d) + (112 * j + 2 * n + 4340 * d) + 3) \div 4
  BY <1>1 DEF Vsize
<1> QED BY <1>2, <1>3

(* With one coin more, a transaction costs no less.                          *)
LEMMA EstimateGrows ==
    ASSUME NEW C, NEW s \in Seq(C), NEW x \in C, NEW changes, Len(changes) \in Nat,
           NEW shape, IsShape(shape), NEW rate \in Nat
    PROVE  /\ EstimatedFee(s, changes, shape, rate) \in Nat
           /\ EstimatedFee(s, changes, shape, rate) <= EstimatedFee(s \o <<x>>, changes, shape, rate)
           /\ EstimatedFee(s \o <<x>>, changes, shape, rate) \in Nat
<1> DEFINE t == s \o <<x>>
           more(u) == IF AnyConfidential(u) THEN Len(changes) + 1 ELSE 0
<1>1. Len(s) \in Nat /\ Len(t) = Len(s) + 1 /\ \A i \in 1..Len(s) : t[i] = s[i]
      /\ DOMAIN s = 1..Len(s) /\ DOMAIN t = 1..Len(t)
  OBVIOUS
<1> HIDE DEF t
<1>2. AnyConfidential(s) => AnyConfidential(t)
  BY <1>1 DEF AnyConfidential
<1>3. more(s) \in Nat /\ more(t) \in Nat /\ more(s) <= more(t)
  BY <1>2
<1> HIDE DEF more
<1>4. PICK a, c, b : a = shape.foreign /\ c = shape.fixed /\ b = shape.blinded
  OBVIOUS
<1>5. a \in Nat /\ c \in Nat /\ b \in Nat
  BY <1>4 DEF IsShape
<1>6. PICK i, j, m, k, l : /\ i = a + Len(s) /\ j = a + Len(t) /\ m = c + Len(changes) + 2
                           /\ k = b + more(s) /\ l = b + more(t)
  OBVIOUS
<1>7. i \in Nat /\ j \in Nat /\ i <= j /\ m \in Nat /\ 1 <= m /\ k \in Nat /\ l \in Nat /\ k <= l
  BY SMTT(30), <1>1, <1>3, <1>5, <1>6
<1>8. /\ EstimatedFee(s, changes, shape, rate) = rate * Vsize(i, shape.issuance, m, k)
      /\ EstimatedFee(t, changes, shape, rate) = rate * Vsize(j, shape.issuance, m, l)
  BY <1>4, <1>6 DEF EstimatedFee, more
<1>9. /\ Vsize(i, shape.issuance, m, k) \in Nat /\ Vsize(j, shape.issuance, m, l) \in Nat
      /\ Vsize(i, shape.issuance, m, k) <= Vsize(j, shape.issuance, m, l)
  <2>1. m <= m /\ (shape.issuance => shape.issuance)
    BY <1>7
  <2> QED BY <1>7, <2>1, VsizeMore
<1>10. PICK v, w : v = Vsize(i, shape.issuance, m, k) /\ w = Vsize(j, shape.issuance, m, l)
  OBVIOUS
<1>11. v \in Nat /\ w \in Nat /\ v <= w
  BY <1>9, <1>10
<1>12. rate * v <= rate * w /\ rate * v \in Nat /\ rate * w \in Nat
  BY ONLY <1>11, rate \in Nat
<1> QED BY <1>8, <1>10, <1>12 DEF t

(* The policy change, if there is one.                                       *)
Leftover(rest) == IF rest < Dust THEN <<>> ELSE <<[asset |-> Policy, value |-> rest]>>

(* A coin that fits beside the dust limit.                                   *)
Fits(c) == c.value + Dust <= MaxMoney

(* A transaction paid from a pool: what the coins are worth goes into the    *)
(* need, the change and the fee, and blinders have an output to go to.       *)
Pays(f, inputs, changes, pool, need, shape) ==
    \E k \in 0..Len(pool), rest \in 0..MaxMoney :
      /\ f.inputs = inputs \o SubSeq(pool, 1, k)
      /\ f.changes = changes \o Leftover(rest)
      /\ f.fee \in Int
      /\ Total(f.inputs, Policy) = need + f.fee + (IF rest < Dust THEN 0 ELSE rest)
      /\ AnyConfidential(f.inputs) /\ shape.blinded = 0 => f.changes # <<>>

(* The policy loop balances: the first coins that suffice leave less than    *)
(* the last of them and the dust limit.                                      *)
LEMMA PayFeeBalances ==
    ASSUME NEW C, \A c \in C : c.value \in 1..MaxMoney, NEW A, Policy \in A, NEW inputs \in Seq(C),
           Total(inputs, Policy) <= MaxMoney,
           NEW changes \in Seq(Change(A)), NEW pool \in Seq(C),
           \A i \in 1..Len(pool) : pool[i].asset = Policy /\ Fits(pool[i]),
           NEW need \in Nat,
           NEW shape, IsShape(shape), NEW rate \in Nat,
           PayFee(inputs, changes, pool, need, shape, rate).ok
    PROVE  Pays(PayFee(inputs, changes, pool, need, shape, rate), inputs, changes, pool, need, shape)
<1> DEFINE with(k) == inputs \o SubSeq(pool, 1, k)
           fee(k) == EstimatedFee(with(k), changes, shape, rate)
           rest(k) == Total(with(k), Policy) - need - fee(k)
           good(k) == rest(k) >= Reserve(with(k), changes, shape) /\ with(k) # <<>>
           ready == {k \in 0..Len(pool) : good(k)}
           m == Min(ready)
<1>1. PayFee(inputs, changes, pool, need, shape, rate) =
          IF ready = {} THEN Failure("InsufficientFunds")
          ELSE Settled(with(m), changes, fee(m), rest(m))
  BY DEF PayFee
<1>2. ready # {}
  BY <1>1 DEF Failure
<1>3. ready \subseteq 0..Len(pool) /\ Len(pool) \in Nat /\ Len(changes) \in Nat /\ MaxMoney \in Nat
      /\ \A c \in C : c.value \in Int
  BY BoundsAssumption
<1>4. m \in ready /\ \A k \in ready : m <= k
  <2> HIDE DEF ready
  <2>1. ready \subseteq Nat
    BY <1>3
  <2> QED BY <1>2, <2>1, MinIn
<1>5. m \in 0..Len(pool) /\ good(m) /\ \A k \in 0..Len(pool) : k < m => ~good(k)
  <2>1. m \in 0..Len(pool) /\ good(m)
    BY <1>4
  <2>2. ASSUME NEW k \in 0..Len(pool), k < m, good(k) PROVE FALSE
    <3>1. k \in ready
      BY <2>2
    <3> HIDE DEF ready, m
    <3>2. m <= k
      BY <1>4, <3>1
    <3> QED BY <2>1, <2>2, <3>2
  <2> HIDE DEF ready, m, good
  <2> QED BY <2>1, <2>2
<1> HIDE DEF m, ready
<1>6. ASSUME NEW k \in 0..Len(pool)
      PROVE  /\ with(k) \in Seq(C) /\ Len(with(k)) = Len(inputs) + k
             /\ k = 0 => with(k) = inputs
             /\ k > 0 => with(k) = with(k - 1) \o <<pool[k]>> /\ pool[k] \in C
             /\ Total(with(k), Policy) \in Int
             /\ fee(k) \in Nat /\ rest(k) \in Int
  <2>1. PICK s : s = SubSeq(pool, 1, k)
    OBVIOUS
  <2>2. s \in Seq(C) /\ Len(s) = k /\ (k > 0 => s = SubSeq(pool, 1, k - 1) \o <<pool[k]>>)
    BY <2>1, Beginning
  <2>3. with(k) \in Seq(C) /\ Len(with(k)) = Len(inputs) + k
    BY <2>1, <2>2
  <2>4. k = 0 => with(k) = inputs
    BY <2>1, <2>2
  <2>5. ASSUME k > 0 PROVE with(k) = with(k - 1) \o <<pool[k]>> /\ pool[k] \in C
    <3>1. k \in 1..Len(pool) /\ pool[k] \in C
      BY <2>5
    <3>2. PICK x : x = pool[k]
      OBVIOUS
    <3>3. PICK r : r = SubSeq(pool, 1, k - 1)
      OBVIOUS
    <3>4. k - 1 \in 0..Len(pool)
      BY <3>1
    <3>5. r \in Seq(C)
      BY <3>3, <3>4, Beginning
    <3>6. inputs \o (r \o <<x>>) = (inputs \o r) \o <<x>>
      BY ONLY inputs \in Seq(C), <3>1, <3>2, <3>5
    <3> QED BY <2>1, <2>2, <2>5, <3>1, <3>2, <3>3, <3>6
  <2>6. PICK t : t = with(k)
    OBVIOUS
  <2>7. t \in Seq(C)
    BY <2>3, <2>6
  <2> HIDE DEF with
  <2>8. Total(t, Policy) \in Int
    BY <1>3, <2>7, TotalType
  <2>9. EstimatedFee(t, changes, shape, rate) \in Nat
    <3>1. PICK D : D = C \cup {0}
      OBVIOUS
    <3>2. t \in Seq(D) /\ 0 \in D
      BY <2>7, <3>1
    <3>3. Len(changes) \in Nat
      BY <1>3
    <3> QED BY <3>2, <3>3, EstimateGrows
  <2>10. fee(k) \in Nat
    BY <2>6, <2>9
  <2> HIDE DEF fee
  <2>11. rest(k) \in Int
    BY <2>6, <2>8, <2>10
  <2> QED BY <2>3, <2>4, <2>5, <2>6, <2>8, <2>10, <2>11
<1>7. ASSUME NEW k \in 0..Len(pool), k > 0
      PROVE  /\ k - 1 \in 0..Len(pool) /\ pool[k].value \in Int /\ Fits(pool[k])
             /\ Total(with(k), Policy) = Total(with(k - 1), Policy) + pool[k].value
             /\ fee(k - 1) <= fee(k)
  <2>1. k - 1 \in 0..Len(pool) /\ k \in 1..Len(pool)
    BY <1>7
  <2>2. PICK s, x : s = with(k - 1) /\ x = pool[k]
    OBVIOUS
  <2>3. s \in Seq(C) /\ x \in C /\ with(k) = s \o <<x>> /\ x.asset = Policy /\ Fits(x) /\ x.value \in Int
    BY <1>3, <1>6, <1>7, <2>1, <2>2
  <2>4. Total(s \o <<x>>, Policy) = Total(s, Policy) + x.value
    <3>1. Valued(s)
      BY <1>3, <2>3, CoinsValued
    <3>2. Valued(<<x>>) /\ Total(<<x>>, Policy) = x.value
      BY <2>3, TotalOne
    <3> QED BY <3>1, <3>2, TotalJoined
  <2>5. EstimatedFee(s, changes, shape, rate) <= EstimatedFee(s \o <<x>>, changes, shape, rate)
    <3>1. Len(changes) \in Nat
      BY <1>3
    <3> QED BY <2>3, <3>1, EstimateGrows
  <2> HIDE DEF with
  <2> QED BY <2>1, <2>2, <2>3, <2>4, <2>5
<1>8. PICK s, e, r : s = with(m) /\ e = fee(m) /\ r = rest(m)
  OBVIOUS
<1>9. Reserve(s, changes, shape) \in Nat /\ r \in Int /\ r >= Reserve(s, changes, shape)
  <2>1. Reserve(s, changes, shape) \in Nat
    BY DEF Reserve, Dust
  <2> HIDE DEF rest, with, fee
  <2> QED BY <1>5, <1>6, <1>8, <2>1
<1>10. r <= MaxMoney
  <2>1. CASE m = 0
    <3>1. Total(with(m), Policy) <= MaxMoney /\ Total(with(m), Policy) \in Int /\ e \in Nat
      BY <1>5, <1>6, <1>8, <2>1
    <3>2. PICK x : x = Total(with(m), Policy)
      OBVIOUS
    <3>3. r = x - need - e
      BY <1>8, <3>2
    <3> QED BY ONLY <1>3, <3>1, <3>2, <3>3, need \in Nat
  <2>2. CASE m > 0
    <3>1. PICK x, y, v, d, q :
              /\ x = Total(with(m), Policy) /\ y = Total(with(m - 1), Policy) /\ v = pool[m].value
              /\ d = fee(m - 1) /\ q = rest(m - 1)
      OBVIOUS
    <3>2. m - 1 \in 0..Len(pool) /\ v \in Int /\ v + Dust <= MaxMoney /\ x = y + v /\ d <= e
      BY <1>5, <1>7, <1>8, <2>2, <3>1 DEF Fits
    <3>3. x \in Int /\ y \in Int /\ d \in Nat /\ e \in Nat /\ q \in Int
      BY <1>5, <1>6, <1>8, <3>1, <3>2
    <3>4. r = x - need - e /\ q = y - need - d
      BY <1>8, <3>1
    <3>5. r <= q + v
      BY ONLY <3>2, <3>3, <3>4, need \in Nat
    <3>6. q < Dust \/ with(m - 1) = <<>>
      <4>1. ~good(m - 1)
        <5>1. m - 1 < m
          BY <1>5
        <5> HIDE DEF good
        <5> QED BY <1>5, <3>2, <5>1
      <4>2. Reserve(with(m - 1), changes, shape) \in Nat /\ Reserve(with(m - 1), changes, shape) <= Dust
        BY DEF Reserve, Dust
      <4> HIDE DEF with, rest
      <4>3. PICK z : z = Reserve(with(m - 1), changes, shape)
        OBVIOUS
      <4>4. ~(q >= z) \/ with(m - 1) = <<>>
        BY <3>1, <4>1, <4>3
      <4> QED BY <3>3, <4>2, <4>3, <4>4 DEF Dust
    <3>7. CASE q < Dust
      BY <1>3, <1>9, <3>2, <3>3, <3>5, <3>7 DEF Dust
    <3>8. CASE with(m - 1) = <<>>
      <4>1. y = 0
        BY <3>1, <3>8, TotalNone
      <4> QED BY <1>3, <3>2, <3>3, <3>4, <4>1 DEF Dust
    <3> QED BY <3>6, <3>7, <3>8
  <2>3. m = 0 \/ m > 0
    BY <1>5
  <2> QED BY <2>1, <2>2, <2>3
<1>11. PICK f : f = Settled(s, changes, e, r)
  OBVIOUS
<1>12. /\ f.inputs = s /\ f.fee = (IF r < Dust THEN e + r ELSE e)
       /\ f.changes = changes \o Leftover(r)
  <2>1. f.changes = IF r < Dust THEN changes ELSE Append(changes, [asset |-> Policy, value |-> r])
    BY <1>11 DEF Settled
  <2>2. f.changes = changes \o Leftover(r)
    <3>1. PICK x : x = [asset |-> Policy, value |-> r]
      OBVIOUS
    <3>2. x \in Change(A)
      BY <1>9, <3>1 DEF Change
    <3>3. changes \o <<>> = changes /\ Append(changes, x) = changes \o <<x>>
      BY <3>2
    <3> QED BY <2>1, <3>1, <3>3 DEF Leftover
  <2> QED BY <1>11, <2>2 DEF Settled
<1>13. AnyConfidential(s) /\ shape.blinded = 0 => f.changes # <<>>
  <2> SUFFICES ASSUME AnyConfidential(s), shape.blinded = 0, f.changes = <<>> PROVE FALSE
    OBVIOUS
  <2>1. f.changes = IF r < Dust THEN changes ELSE Append(changes, [asset |-> Policy, value |-> r])
    BY <1>11 DEF Settled
  <2>2. Append(changes, [asset |-> Policy, value |-> r]) # <<>>
    OBVIOUS
  <2>3. changes = <<>> /\ r < Dust
    BY <2>1, <2>2
  <2>4. Reserve(s, changes, shape) = Dust
    BY <2>3 DEF Reserve
  <2> QED BY <1>9, <2>3, <2>4 DEF Dust
<1>14. Total(s, Policy) = need + f.fee + (IF r < Dust THEN 0 ELSE r) /\ f.fee \in Int
  <2>1. PICK x : x = Total(s, Policy)
    OBVIOUS
  <2>2. r = x - need - e /\ x \in Int /\ e \in Nat
    BY <1>5, <1>6, <1>8, <2>1
  <2>3. PICK g : g = f.fee
    OBVIOUS
  <2>4. g = IF r < Dust THEN e + r ELSE e
    BY <1>12, <2>3
  <2>5. g \in Int /\ x = need + g + (IF r < Dust THEN 0 ELSE r)
    BY ONLY <1>9, <2>2, <2>4, need \in Nat
  <2> QED BY <2>1, <2>3, <2>5
<1>15. r \in 0..MaxMoney /\ s = inputs \o SubSeq(pool, 1, m)
  BY <1>3, <1>8, <1>9, <1>10
<1>16. Pays(f, inputs, changes, pool, need, shape)
  BY <1>5, <1>12, <1>13, <1>14, <1>15 DEF Pays
<1>17. PayFee(inputs, changes, pool, need, shape, rate) = f
  <2> HIDE DEF with, fee, rest
  <2> QED BY <1>1, <1>2, <1>8, <1>11
<1> QED BY <1>16, <1>17

(* A single coin is worth no more than an amount can be.                     *)
LEMMA ForcedTotal ==
    ASSUME NEW C, \A c \in C : c.value \in 1..MaxMoney, NEW s \in Seq(C), Len(s) <= 1, NEW a
    PROVE  Total(s, a) \in 0..MaxMoney /\ Separate(s)
<1>1. MaxMoney \in Nat
  BY BoundsAssumption
<1>2. CASE Len(s) = 0
  <2>1. s = <<>>
    BY <1>2
  <2> QED BY <1>1, <1>2, <2>1, TotalNone DEF Separate
<1>3. CASE Len(s) = 1
  <2>1. PICK x : x = s[1]
    OBVIOUS
  <2>2. s = <<x>> /\ x \in C
    BY <1>3, <2>1
  <2>3. Total(<<x>>, a) = IF x.asset = a THEN x.value ELSE 0
    BY <1>1, <2>2, TotalOne
  <2>4. Total(s, a) \in 0..MaxMoney
    BY <1>1, <2>2, <2>3
  <2> QED BY <1>3, <2>4 DEF Separate
<1>4. Len(s) = 0 \/ Len(s) = 1
  <2>1. Len(s) \in Nat
    OBVIOUS
  <2>2. PICK n : n = Len(s)
    OBVIOUS
  <2>3. n \in Nat /\ n <= 1
    BY <2>1, <2>2
  <2>4. n = 0 \/ n = 1
    BY ONLY <2>3
  <2> QED BY <2>2, <2>4
<1> QED BY <1>2, <1>3, <1>4

(* One coin more of an asset adds its value.                                 *)
LEMMA TotalNext ==
    ASSUME NEW C, \A c \in C : c.value \in Int, NEW s \in Seq(C), NEW k \in 1..Len(s),
           NEW a, s[k].asset = a
    PROVE  Total(SubSeq(s, 1, k), a) = Total(SubSeq(s, 1, k - 1), a) + s[k].value
<1>1. k \in 0..Len(s) /\ k > 0 /\ k - 1 \in 0..Len(s) /\ s[k] \in C
  OBVIOUS
<1>2. PICK r, x : r = SubSeq(s, 1, k - 1) /\ x = s[k]
  OBVIOUS
<1>3. r \in Seq(C)
  BY <1>1, <1>2, Beginning
<1>4. SubSeq(s, 1, k) = r \o <<x>>
  BY <1>1, <1>2, Beginning
<1>5. Valued(r)
  BY <1>3, CoinsValued
<1>6. Valued(<<x>>) /\ Total(<<x>>, a) = x.value
  BY <1>1, <1>2, TotalOne
<1>7. Total(r \o <<x>>, a) = Total(r, a) + Total(<<x>>, a)
  BY <1>5, <1>6, TotalJoined
<1> QED BY <1>2, <1>4, <1>6, <1>7

(* The first coins of a pool that cover a need leave less than the last.     *)
LEMMA CoveringLeaves ==
    ASSUME NEW C, \A c \in C : c.value \in 1..MaxMoney, NEW forced \in Seq(C), NEW pool \in Seq(C),
           NEW a, Total(forced, a) \in 0..MaxMoney, \A i \in 1..Len(pool) : pool[i].asset = a,
           NEW need \in Nat
    PROVE  \E k \in 0..Len(pool) :
              /\ Covering(forced, pool, a, need) = SubSeq(pool, 1, k)
              /\ Total(forced, a) + Total(SubSeq(pool, 1, k), a) >= need
                   => (Total(forced, a) + Total(SubSeq(pool, 1, k), a)) - need <= MaxMoney
<1> DEFINE sum(k) == Total(forced, a) + Total(SubSeq(pool, 1, k), a)
           covers == {k \in 0..Len(pool) : sum(k) >= need}
           m == Min(covers)
<1>1. Covering(forced, pool, a, need) = IF covers = {} THEN pool ELSE SubSeq(pool, 1, m)
  BY DEF Covering
<1>2. /\ Len(pool) \in Nat /\ MaxMoney \in Nat /\ \A c \in C : c.value \in Int
      /\ \A k \in 1..Len(pool) : pool[k] \in C
  BY BoundsAssumption
<1>3. ASSUME NEW k \in 0..Len(pool) PROVE Total(SubSeq(pool, 1, k), a) \in Int
  <2>1. PICK s : s = SubSeq(pool, 1, k)
    OBVIOUS
  <2>2. s \in Seq(C)
    BY <2>1, Beginning
  <2> QED BY <1>2, <2>1, <2>2, TotalType
<1>4. CASE covers = {}
  <2>1. Len(pool) \in 0..Len(pool)
    BY <1>2
  <2>2. ~(sum(Len(pool)) >= need)
    BY <1>4, <2>1
  <2>3. SubSeq(pool, 1, Len(pool)) = pool
    OBVIOUS
  <2>4. Covering(forced, pool, a, need) = SubSeq(pool, 1, Len(pool))
    BY <1>1, <1>4, <2>3
  <2> QED BY <2>1, <2>2, <2>4
<1>5. CASE covers # {}
  <2>1. covers \subseteq Nat
    OBVIOUS
  <2>2. m \in covers /\ \A k \in covers : m <= k
    <3> HIDE DEF covers
    <3> QED BY <1>5, <2>1, MinIn
  <2>3. m \in 0..Len(pool) /\ (m > 0 => m - 1 \notin covers)
    <3>1. m \in 0..Len(pool)
      BY <2>2
    <3> HIDE DEF covers, m
    <3> QED BY <2>2, <3>1
  <2> HIDE DEF m
  <2>4. sum(m) - need <= MaxMoney
    <3>1. CASE m = 0
      <4>1. PICK s : s = SubSeq(pool, 1, m)
        OBVIOUS
      <4>2. s = <<>>
        BY <3>1, <4>1
      <4>3. Total(s, a) = 0
        BY <4>2, TotalNone
      <4> QED BY <1>2, <4>1, <4>3
    <3>2. CASE m > 0
      <4>1. m \in 1..Len(pool) /\ m - 1 \in 0..Len(pool)
        BY <2>3, <3>2
      <4>2. PICK x, y, v, z : /\ x = Total(SubSeq(pool, 1, m), a) /\ y = Total(SubSeq(pool, 1, m - 1), a)
                              /\ v = pool[m].value /\ z = Total(forced, a)
        OBVIOUS
      <4>3. x = y + v
        BY <1>2, <4>1, <4>2, TotalNext
      <4>4. v \in 1..MaxMoney
        BY <1>2, <4>1, <4>2
      <4>5. ~(z + y >= need)
        BY <2>3, <3>2, <4>1, <4>2
      <4>6. x \in Int /\ y \in Int /\ z \in Int
        BY <1>3, <2>3, <4>1, <4>2
      <4>7. (z + x) - need <= MaxMoney
        BY ONLY <1>2, <4>3, <4>4, <4>5, <4>6, need \in Nat
      <4>8. sum(m) = z + x
        BY <4>2
      <4> HIDE DEF sum
      <4> QED BY <4>7, <4>8
    <3>3. m = 0 \/ m > 0
      BY <2>3
    <3> QED BY <3>1, <3>2, <3>3
  <2>5. Covering(forced, pool, a, need) = SubSeq(pool, 1, m)
    <3> HIDE DEF covers
    <3> QED BY <1>1, <1>5 DEF m
  <2> HIDE DEF covers
  <2>6. sum(m) >= need => sum(m) - need <= MaxMoney
    BY <2>4
  <2> QED BY <2>3, <2>5, <2>6
<1> QED BY <1>4, <1>5

(* Sorting none or one.                                                      *)
LEMMA SortedFew == Sorted({}) = <<>> /\ \A t \in Int : Sorted({t}) = <<t>>
<1>1. Sorted({}) = <<>>
  <2>1. Sorted({}) \in Seq({}) /\ Len(Sorted({})) = 0
    BY SortedNumbers, FS_EmptySet
  <2> QED BY <2>1
<1>2. ASSUME NEW t \in Int PROVE Sorted({t}) = <<t>>
  <2>1. IsFiniteSet({t}) /\ Cardinality({t}) = 1 /\ {t} \subseteq Int
    BY FS_Singleton
  <2>2. Sorted({t}) \in Seq({t}) /\ Len(Sorted({t})) = 1
    BY <2>1, SortedNumbers
  <2>3. PICK s : s = Sorted({t})
    OBVIOUS
  <2>4. s \in Seq({t}) /\ Len(s) = 1
    BY <2>2, <2>3
  <2>5. s = <<t>>
    BY ONLY <2>4
  <2> QED BY <2>3, <2>5
<1> QED BY <1>1, <1>2

(* No sequences, or one, strung together.                                    *)
LEMMA FlattenedFew == FlattenSeq(<<>>) = <<>> /\ \A s : FlattenSeq(<<s>>) = s
<1>1. FlattenSeq(<<>>) = <<>>
  BY DEF FlattenSeq
<1>2. ASSUME NEW s PROVE FlattenSeq(<<s>>) = s
  <2> DEFINE q == <<s>>
             flatten == CHOOSE f : f = [i \in 1..Len(q) |-> IF i = 1 THEN q[i] ELSE f[i - 1] \o q[i]]
  <2>1. FlattenSeq(q) = IF Len(q) = 0 THEN q ELSE flatten[Len(q)]
    BY DEF FlattenSeq
  <2>2. Len(q) = 1 /\ q[1] = s
    OBVIOUS
  <2> HIDE DEF q
  <2>3. q = [i \in 1..Len(q) |-> IF i = 1 THEN q[i] ELSE q[i - 1] \o q[i]]
    <3>1. q = [i \in 1..1 |-> q[i]]
      BY DEF q
    <3>2. \A i \in 1..1 : q[i] = IF i = 1 THEN q[i] ELSE q[i - 1] \o q[i]
      OBVIOUS
    <3> QED BY <2>2, <3>1, <3>2
  <2>4. flatten = [i \in 1..Len(q) |-> IF i = 1 THEN q[i] ELSE flatten[i - 1] \o q[i]]
    BY <2>3
  <2>5. flatten[1] = q[1]
    <3> HIDE DEF flatten
    <3> QED BY <2>2, <2>4
  <2> HIDE DEF flatten
  <2>6. FlattenSeq(q) = s
    BY <2>1, <2>2, <2>5
  <2> QED BY <2>6 DEF q
<1> QED BY <1>1, <1>2

(* Tokens covered: candidates of these tokens are added, and what they bring *)
(* beyond the need is an amount.                                             *)
Covers(inputs, forced, candidates, tokens, needs) ==
    \E extra \in Seq({c \in candidates : c.asset \in tokens}) :
      /\ inputs = forced \o extra /\ Separate(extra)
      /\ \A a \in tokens : Total(inputs, a) >= NeedOf(needs, a)
                             => Total(inputs, a) - NeedOf(needs, a) <= MaxMoney

(* Covering the tokens uses each coin once and leaves nothing out.           *)
LEMMA CoverGives ==
    ASSUME NEW C, Proper(C), \A c \in C : c.value \in 1..MaxMoney, NEW candidates \in SUBSET C,
           NEW forced \in Seq(C), Len(forced) <= 1, NEW needs, NEW t \in Int,
           NeedOf(needs, t) \in Nat, NEW tokens, tokens = {} \/ tokens = {t}
    PROVE  Covers(CoverTokens(forced, candidates, needs, tokens), forced, candidates, tokens, needs)
<1> DEFINE order == Sorted(tokens)
           q == [i \in DOMAIN order |->
                   Covering(forced, Pool(candidates, order[i]), order[i], NeedOf(needs, order[i]))]
           inputs == CoverTokens(forced, candidates, needs, tokens)
<1>1. inputs = forced \o FlattenSeq(q)
  BY DEF CoverTokens
<1> HIDE DEF inputs
<1>2. CASE tokens = {}
  <2>1. order = <<>>
    BY <1>2, SortedFew
  <2>2. q = <<>>
    BY <2>1
  <2>3. inputs = forced \o <<>> /\ <<>> \in Seq({c \in candidates : c.asset \in tokens})
    BY <1>1, <2>2, FlattenedFew
  <2>4. Separate(<<>>)
    BY DEF Separate
  <2> QED BY <1>2, <2>3, <2>4 DEF Covers, inputs
<1>3. CASE tokens = {t}
  <2> DEFINE pool == Pool(candidates, t)
             P == {c \in candidates : c.asset = t}
             extra == Covering(forced, pool, t, NeedOf(needs, t))
  <2>1. order = <<t>>
    BY <1>3, SortedFew
  <2>2. q = <<extra>>
    BY <2>1
  <2>3. inputs = forced \o extra
    <3> HIDE DEF q, extra
    <3> QED BY <1>1, <2>2, FlattenedFew
  <2>4. Proper(candidates)
    <3>1. IsFiniteSet(candidates)
      BY FS_Subset DEF Proper
    <3> QED BY <3>1 DEF Proper
  <2>5. pool \in Seq(P) /\ Separate(pool)
    BY <2>4, PoolGives
  <2>6. pool \in Seq(C) /\ \A i \in 1..Len(pool) : pool[i].asset = t
    <3> HIDE DEF pool
    <3>1. P \subseteq C
      OBVIOUS
    <3>2. pool \in Seq(C)
      BY <2>5, <3>1, SeqSubset
    <3> QED BY <2>5, <3>2
  <2>7. Total(forced, t) \in 0..MaxMoney
    BY ForcedTotal
  <2> HIDE DEF pool
  <2>8. PICK k \in 0..Len(pool) :
              /\ extra = SubSeq(pool, 1, k)
              /\ Total(forced, t) + Total(SubSeq(pool, 1, k), t) >= NeedOf(needs, t)
                   => (Total(forced, t) + Total(SubSeq(pool, 1, k), t)) - NeedOf(needs, t) <= MaxMoney
    BY <2>6, <2>7, CoveringLeaves
  <2> HIDE DEF extra
  <2>9. extra \in Seq(P) /\ Separate(extra)
    BY <2>5, <2>8, Beginning, SeparateBeginning
  <2>10. Total(inputs, t) = Total(forced, t) + Total(extra, t)
    <3>1. \A c \in C : c.value \in Int
      OBVIOUS
    <3>2. Valued(forced) /\ Valued(extra)
      <4>1. \A c \in P : c.value \in Int
        BY <3>1
      <4> HIDE DEF P
      <4> QED BY <2>9, <3>1, <4>1, CoinsValued
    <3> QED BY <2>3, <3>2, TotalJoined
  <2>11. P = {c \in candidates : c.asset \in tokens}
    BY <1>3
  <2>12. \A a \in tokens : Total(inputs, a) >= NeedOf(needs, a)
                             => Total(inputs, a) - NeedOf(needs, a) <= MaxMoney
    <3>1. PICK x : x = Total(inputs, t)
      OBVIOUS
    <3>2. PICK y : y = Total(SubSeq(pool, 1, k), t)
      OBVIOUS
    <3>3. x = Total(forced, t) + y
      BY <2>8, <2>10, <3>1, <3>2
    <3>4. x >= NeedOf(needs, t) => x - NeedOf(needs, t) <= MaxMoney
      BY <2>8, <3>2, <3>3
    <3> QED BY <1>3, <3>1, <3>4
  <2> HIDE DEF P
  <2> QED BY <2>3, <2>9, <2>11, <2>12 DEF Covers, inputs
<1> QED BY <1>2, <1>3

(* What the token inputs leave over is listed in full.                       *)
LEMMA ChangesGive ==
    ASSUME NEW C, \A c \in C : c.value \in Int, NEW inputs \in Seq(C), NEW needs, NEW t \in Int,
           NeedOf(needs, t) \in Nat, NEW tokens, tokens = {} \/ tokens = {t},
           \A a \in tokens : /\ Total(inputs, a) >= NeedOf(needs, a)
                             /\ Total(inputs, a) - NeedOf(needs, a) <= MaxMoney
    PROVE  LET changes == ChangesOf(inputs, tokens, needs)
           IN  /\ Valued(changes) /\ \A i \in 1..Len(changes) : changes[i].value \in 1..MaxMoney
               /\ \A a : Total(changes, a) = IF a \in tokens THEN Total(inputs, a) - NeedOf(needs, a) ELSE 0
<1> DEFINE left(a) == Total(inputs, a) - NeedOf(needs, a)
           some == {a \in tokens : left(a) > 0}
           kept == Sorted(some)
           changes == [i \in DOMAIN kept |-> [asset |-> kept[i], value |-> left(kept[i])]]
<1>1. ChangesOf(inputs, tokens, needs) = changes
  BY DEF ChangesOf
<1>2. Total(inputs, t) \in Int
  BY TotalType
<1>3. left(t) \in Int /\ (t \in tokens => left(t) >= 0 /\ left(t) <= MaxMoney) /\ MaxMoney \in Nat
  BY <1>2, BoundsAssumption
<1> HIDE DEF left
<1>4. CASE some = {}
  <2>1. kept = <<>>
    BY <1>4, SortedFew
  <2> HIDE DEF kept
  <2>2. changes = <<>>
    BY <2>1
  <2> HIDE DEF changes
  <2>3. Valued(changes) /\ \A a : Total(changes, a) = 0
    BY <2>2, TotalNone
  <2>4. \A a \in tokens : left(a) = 0
    BY <1>3, <1>4
  <2>5. \A i \in 1..Len(changes) : changes[i].value \in 1..MaxMoney
    BY <2>2
  <2> QED BY <1>1, <2>3, <2>4, <2>5 DEF left
<1>5. CASE some # {}
  <2>1. some = {t} /\ tokens = {t} /\ left(t) > 0
    BY <1>5
  <2>2. kept = <<t>>
    BY <2>1, SortedFew
  <2> HIDE DEF kept, some
  <2>3. PICK x : x = [asset |-> t, value |-> left(t)]
    OBVIOUS
  <2>4. changes = <<x>>
    BY <2>2, <2>3
  <2> HIDE DEF changes
  <2>5. x.value \in 1..MaxMoney /\ x.value = left(t) /\ x.asset = t
    BY <1>3, <2>1, <2>3
  <2>6. Valued(changes) /\ \A a : Total(changes, a) = IF x.asset = a THEN x.value ELSE 0
    BY <2>4, <2>5, TotalOne
  <2>7. \A i \in 1..Len(changes) : changes[i].value \in 1..MaxMoney
    BY <2>4, <2>5, One
  <2> QED BY <1>1, <2>1, <2>5, <2>6, <2>7 DEF left
<1> QED BY <1>4, <1>5

(* What fund returns adds up in every asset, from coins that are all         *)
(* different, with changes that are amounts.                                 *)
Balanced(f, needs, shape) ==
    /\ Separate(f.inputs)
    /\ \A i \in 1..Len(f.changes) : f.changes[i].value \in 1..MaxMoney
    /\ \A a : Total(f.inputs, a)
                = (NeedOf(needs, a) + Total(f.changes, a)) + (IF a = Policy THEN f.fee ELSE 0)
    /\ AnyConfidential(f.inputs) /\ shape.blinded = 0 => f.changes # <<>>

(* Whatever the coins, the forced coin and the needs: what fund returns      *)
(* balances.                                                                 *)
LEMMA FundBalances ==
    ASSUME NEW C, Proper(C), \A c \in C : c.value \in 1..MaxMoney, NEW candidates \in SUBSET C,
           \A c \in candidates : c.asset = Policy => Fits(c),
           NEW forced \in Seq(C), Len(forced) <= 1, NEW t \in Int,
           \A i \in 1..Len(forced) : forced[i].asset = t,
           NEW needs, DOMAIN needs \subseteq {t}, \A a \in DOMAIN needs : needs[a] \in Nat,
           NEW shape, IsShape(shape), NEW rate,
           Fund(forced, candidates, needs, shape, rate).ok
    PROVE  Balanced(Fund(forced, candidates, needs, shape, rate), needs, shape)
<1> DEFINE tokens == (DOMAIN needs \cup {forced[i].asset : i \in DOMAIN forced}) \ {Policy}
           inputs == CoverTokens(forced, candidates, needs, tokens)
           changes == ChangesOf(inputs, tokens, needs)
           pool == Pool(candidates, Policy)
           need == NeedOf(needs, Policy)
           f == PayFee(inputs, changes, pool, need, shape, rate)
<1>1. /\ Fund(forced, candidates, needs, shape, rate) = f /\ f.ok
      /\ rate \in 1..MaxFeeRate
      /\ \A i \in DOMAIN forced : forced[i] \notin candidates
      /\ \A a \in tokens : ~(Total(inputs, a) < NeedOf(needs, a))
  BY DEF Fund, FundTokens, Failure
<1>2. rate \in Nat /\ MaxMoney \in Nat /\ Dust \in Nat /\ Dust > 0
  BY <1>1, BoundsAssumption DEF Dust
<1>3. /\ \A c \in C : c.value \in Int /\ c.id \in Int /\ c.asset \in Int
      /\ \A c, d \in C : c.id = d.id => c = d
  BY DEF Proper
<1>4. /\ DOMAIN forced = 1..Len(forced) /\ \A i \in 1..Len(forced) : forced[i] \in C
      /\ Len(forced) \in Nat
  OBVIOUS
<1>5. /\ tokens = {} \/ tokens = {t}
      /\ Policy \notin tokens
      /\ t \notin tokens => t = Policy \/ (DOMAIN needs = {} /\ Len(forced) = 0)
  <2>1. PICK mine : mine = {forced[i].asset : i \in DOMAIN forced}
    OBVIOUS
  <2>2. mine \subseteq {t}
    BY <1>4, <2>1
  <2>3. Len(forced) = 0 \/ t \in mine
    <3>1. PICK n : n = Len(forced)
      OBVIOUS
    <3>2. n = 0 \/ 1 \in 1..n
      BY <1>4, <3>1
    <3>3. 1 \in 1..n => forced[1].asset \in mine
      BY <1>4, <2>1, <3>1
    <3> QED BY <2>2, <3>1, <3>2, <3>3
  <2>4. PICK D : D = DOMAIN needs
    OBVIOUS
  <2>5. tokens = (D \cup mine) \ {Policy} /\ D \subseteq {t}
    BY <2>1, <2>4
  <2> HIDE DEF tokens
  <2> QED BY <2>2, <2>3, <2>4, <2>5
<1>6. \A a : NeedOf(needs, a) \in Nat
  BY DEF NeedOf
<1> HIDE DEF tokens
<1>7. Covers(inputs, forced, candidates, tokens, needs)
  BY <1>5, <1>6, CoverGives
<1> DEFINE Q == {c \in candidates : c.asset \in tokens}
<1>8. PICK extra \in Seq(Q) :
          /\ inputs = forced \o extra /\ Separate(extra)
          /\ \A a \in tokens : Total(inputs, a) >= NeedOf(needs, a)
                                 => Total(inputs, a) - NeedOf(needs, a) <= MaxMoney
  BY <1>7 DEF Covers
<1> HIDE DEF inputs
<1>9. extra \in Seq(C) /\ \A i \in 1..Len(extra) : extra[i] \in candidates /\ extra[i].asset \in tokens
  <2>1. Q \subseteq C
    OBVIOUS
  <2>2. extra \in Seq(C)
    BY <2>1, SeqSubset
  <2> QED BY <2>2
<1>10. inputs \in Seq(C)
  BY <1>8, <1>9
<1>11. /\ Valued(forced) /\ Valued(extra) /\ Valued(inputs)
       /\ \A a : Total(inputs, a) = Total(forced, a) + Total(extra, a)
       /\ \A a : Total(inputs, a) \in Int
  <2>1. Valued(forced) /\ Valued(extra) /\ Valued(inputs)
    BY <1>3, <1>9, <1>10, CoinsValued
  <2> QED BY <1>8, <2>1, TotalJoined, TotalIs
<1>12. \A a : a \notin tokens => Total(extra, a) = 0
  BY <1>9, <1>11, TotalOther
<1>13. /\ Valued(changes) /\ \A i \in 1..Len(changes) : changes[i].value \in 1..MaxMoney
       /\ \A a : Total(changes, a) = IF a \in tokens THEN Total(inputs, a) - NeedOf(needs, a) ELSE 0
  <2>1. \A a \in tokens : /\ Total(inputs, a) >= NeedOf(needs, a)
                          /\ Total(inputs, a) - NeedOf(needs, a) <= MaxMoney
    <3> SUFFICES ASSUME NEW a \in tokens PROVE Total(inputs, a) >= NeedOf(needs, a)
      BY <1>8
    <3>1. PICK x, y : x = Total(inputs, a) /\ y = NeedOf(needs, a)
      OBVIOUS
    <3>2. x \in Int /\ y \in Nat /\ ~(x < y)
      BY <1>1, <1>6, <1>11, <3>1
    <3> QED BY <3>1, <3>2
  <2>2. \A c \in C : c.value \in Int
    BY <1>3
  <2>3. tokens = {} \/ tokens = {t}
    BY <1>5
  <2>4. NeedOf(needs, t) \in Nat
    BY <1>6
  <2> QED BY ONLY SMTT(30), <1>10, <2>1, <2>2, <2>3, <2>4, t \in Int, ChangesGive
<1>14. changes \in Seq(Change(Int))
  <2>1. IsFiniteSet(tokens) /\ tokens \subseteq Int
    <3>1. IsFiniteSet({}) /\ IsFiniteSet({t})
      BY FS_EmptySet, FS_Singleton
    <3> QED BY <1>5, <3>1
  <2>2. \A c \in C : c.value \in Int
    BY <1>3
  <2>3. \A a \in DOMAIN needs : needs[a] \in Int
    OBVIOUS
  <2> QED BY ONLY <1>10, <2>1, <2>2, <2>3, ChangesType
<1> HIDE DEF changes
<1>15. /\ pool \in Seq({c \in candidates : c.asset = Policy}) /\ Separate(pool)
       /\ pool \in Seq(C)
  <2>1. Proper(candidates)
    <3>1. IsFiniteSet(candidates)
      BY FS_Subset DEF Proper
    <3> QED BY <3>1 DEF Proper
  <2>2. pool \in Seq({c \in candidates : c.asset = Policy}) /\ Separate(pool)
    BY <2>1, PoolGives
  <2>3. {c \in candidates : c.asset = Policy} \subseteq C
    OBVIOUS
  <2> HIDE DEF pool
  <2> QED BY <2>2, <2>3, SeqSubset
<1> HIDE DEF pool
<1>16. \A i \in 1..Len(pool) : pool[i] \in candidates /\ pool[i].asset = Policy /\ Fits(pool[i])
  BY <1>15
<1>17. Total(inputs, Policy) <= MaxMoney
  <2>1. Total(forced, Policy) \in 0..MaxMoney
    BY ForcedTotal
  <2>2. Total(extra, Policy) = 0
    BY <1>5, <1>12
  <2> QED BY <1>2, <1>11, <2>1, <2>2
<1>18. need \in Nat
  BY <1>6
<1> HIDE DEF need, f
<1>19. Pays(f, inputs, changes, pool, need, shape)
  <2>1. PayFee(inputs, changes, pool, need, shape, rate).ok
    BY <1>1 DEF f
  <2>2. \A i \in 1..Len(pool) : pool[i].asset = Policy /\ Fits(pool[i])
    BY <1>16
  <2>3. Policy \in Int
    BY DEF Policy
  <2>4. Pays(PayFee(inputs, changes, pool, need, shape, rate), inputs, changes, pool, need, shape)
    BY <1>2, <1>10, <1>14, <1>15, <1>17, <1>18, <2>1, <2>2, <2>3, PayFeeBalances
  <2> QED BY <2>4 DEF f
<1>20. PICK k \in 0..Len(pool), rest \in 0..MaxMoney :
         /\ f.inputs = inputs \o SubSeq(pool, 1, k)
         /\ f.changes = changes \o Leftover(rest)
         /\ f.fee \in Int
         /\ Total(f.inputs, Policy) = need + f.fee + (IF rest < Dust THEN 0 ELSE rest)
         /\ AnyConfidential(f.inputs) /\ shape.blinded = 0 => f.changes # <<>>
  BY <1>19 DEF Pays
<1>21. PICK paid : paid = SubSeq(pool, 1, k)
  OBVIOUS
<1>22. /\ paid \in Seq(C) /\ IsSeq(paid) /\ Separate(paid)
       /\ \A i \in 1..Len(paid) : paid[i] \in candidates /\ paid[i].asset = Policy
  <2>1. paid \in Seq(C) /\ IsSeq(paid) /\ Len(paid) = k /\ \A i \in 1..k : paid[i] = pool[i]
    BY ZenonT(30), <1>15, <1>21, Beginning
  <2>2. Separate(paid)
    BY <1>15, <1>21, SeparateBeginning
  <2>3. \A i \in 1..k : i \in 1..Len(pool)
    OBVIOUS
  <2> QED BY <1>16, <2>1, <2>2, <2>3
<1>23. Separate(f.inputs)
  <2>1. IsSeq(forced) /\ IsSeq(extra) /\ Separate(forced) /\ IsSeq(inputs)
    BY <1>10, <1>9, SeqIs, ForcedTotal
  <2>2. ASSUME NEW i \in 1..Len(forced), NEW c \in candidates PROVE forced[i].id # c.id
    BY <1>1, <1>3, <1>4
  <2>3. Separate(inputs)
    <3>1. \A i \in 1..Len(forced), j \in 1..Len(extra) : forced[i].id # extra[j].id
      BY <1>9, <2>2
    <3> QED BY <1>8, <2>1, <3>1, SeparateJoined
  <2>4. ASSUME NEW i \in 1..Len(inputs), NEW j \in 1..Len(paid) PROVE inputs[i].id # paid[j].id
    <3>1. /\ Len(inputs) = Len(forced) + Len(extra)
          /\ \A l \in 1..Len(forced) : inputs[l] = forced[l]
          /\ \A l \in 1..Len(extra) : inputs[Len(forced) + l] = extra[l]
      BY <1>8, <2>1, Joined
    <3>2. CASE i \in 1..Len(forced)
      BY <1>22, <2>2, <3>1, <3>2
    <3>3. CASE i \notin 1..Len(forced)
      <4>1. PICK l : l = i - Len(forced)
        OBVIOUS
      <4>2. l \in 1..Len(extra) /\ inputs[i] = extra[l]
        <5>1. Len(extra) \in Nat
          BY <1>9
        <5>2. l \in 1..Len(extra) /\ Len(forced) + l = i
          BY <1>4, <3>1, <3>3, <4>1, <5>1
        <5> QED BY <3>1, <5>2
      <4>3. inputs[i] \in C /\ inputs[i].asset # Policy
        BY <1>5, <1>9, <4>2
      <4>4. paid[j] \in C /\ paid[j].asset = Policy
        BY <1>22
      <4> QED BY <1>3, <4>3, <4>4
    <3> QED BY <3>2, <3>3
  <2>5. Separate(inputs \o paid)
    BY <1>22, <2>1, <2>3, <2>4, SeparateJoined
  <2> QED BY <1>20, <1>21, <2>5
<1>24. PICK over : over = Leftover(rest)
  OBVIOUS
<1>25. /\ Valued(over) /\ \A i \in 1..Len(over) : over[i].value \in 1..MaxMoney
       /\ \A a : Total(over, a) = IF a = Policy /\ ~(rest < Dust) THEN rest ELSE 0
  <2>1. CASE rest < Dust
    <3>1. over = <<>>
      BY <1>24, <2>1 DEF Leftover
    <3> QED BY <2>1, <3>1, TotalNone
  <2>2. CASE ~(rest < Dust)
    <3>1. PICK x : x = [asset |-> Policy, value |-> rest]
      OBVIOUS
    <3>2. over = <<x>> /\ x.value = rest /\ x.asset = Policy /\ rest \in 1..MaxMoney
      BY <1>2, <1>24, <2>2, <3>1 DEF Leftover
    <3>3. Valued(<<x>>) /\ \A a : Total(<<x>>, a) = IF x.asset = a THEN x.value ELSE 0
      BY <3>2, TotalOne
    <3>4. \A i \in 1..Len(over) : over[i].value \in 1..MaxMoney
      BY <3>2, One
    <3> QED BY <2>2, <3>2, <3>3, <3>4
  <2> QED BY <2>1, <2>2
<1>26. \A i \in 1..Len(f.changes) : f.changes[i].value \in 1..MaxMoney
  <2>1. f.changes = changes \o over /\ IsSeq(changes) /\ IsSeq(over)
    BY <1>13, <1>20, <1>24, <1>25 DEF Valued
  <2>2. PICK n, m : n = Len(changes) /\ m = Len(over)
    OBVIOUS
  <2>3. /\ Len(f.changes) = n + m /\ n \in Nat /\ m \in Nat
        /\ \A l \in 1..n : f.changes[l] = changes[l]
        /\ \A l \in 1..m : f.changes[n + l] = over[l]
    BY SMTT(30), <2>1, <2>2, Joined DEF IsSeq
  <2>4. ASSUME NEW i \in 1..Len(f.changes) PROVE f.changes[i].value \in 1..MaxMoney
    <3>1. CASE i \in 1..n
      BY <1>13, <2>2, <2>3, <3>1
    <3>2. CASE i \notin 1..n
      <4>1. PICK l : l = i - n
        OBVIOUS
      <4>2. l \in 1..m /\ n + l = i
        BY <2>3, <3>2, <4>1
      <4> QED BY <1>25, <2>2, <2>3, <4>2
    <3> QED BY <3>1, <3>2
  <2> QED BY <2>4
<1>27. /\ \A a : Total(f.inputs, a) = Total(inputs, a) + Total(paid, a)
       /\ \A a : Total(f.changes, a) = Total(changes, a) + Total(over, a)
       /\ \A a : a # Policy => Total(paid, a) = 0
  <2>1. Valued(paid)
    BY <1>3, <1>22, CoinsValued
  <2>2. \A a : a # Policy => Total(paid, a) = 0
    BY <1>22, <2>1, TotalOther
  <2> QED BY <1>11, <1>13, <1>20, <1>21, <1>24, <1>25, <2>1, <2>2, TotalJoined
<1>28. ASSUME NEW a
       PROVE  Total(f.inputs, a) = (NeedOf(needs, a) + Total(f.changes, a)) + (IF a = Policy THEN f.fee ELSE 0)
  <2>1. CASE a = Policy
    <3>1. PICK x, y : x = Total(f.inputs, a) /\ y = f.fee
      OBVIOUS
    <3>2. Total(f.changes, a) = IF rest < Dust THEN 0 ELSE rest
      BY <1>5, <1>13, <1>25, <1>27, <2>1
    <3>3. x = need + y + (IF rest < Dust THEN 0 ELSE rest) /\ y \in Int
      BY <1>20, <2>1, <3>1
    <3> QED BY <1>18, <2>1, <3>1, <3>2, <3>3 DEF need
  <2>2. CASE a # Policy /\ a \in tokens
    <3>1. Total(f.inputs, a) = Total(inputs, a) + 0
      BY <1>27, <2>2
    <3>2. Total(f.changes, a) = (Total(inputs, a) - NeedOf(needs, a)) + 0
      BY <1>13, <1>25, <1>27, <2>2
    <3>3. PICK x, y : x = Total(inputs, a) /\ y = NeedOf(needs, a)
      OBVIOUS
    <3>4. x \in Int /\ y \in Nat
      BY <1>6, <1>11, <3>3
    <3> QED BY <2>2, <3>1, <3>2, <3>3, <3>4
  <2>3. CASE a # Policy /\ a \notin tokens
    <3>1. NeedOf(needs, a) = 0
      BY <1>5, <2>3 DEF NeedOf
    <3>2. Total(forced, a) = 0
      <4>1. \A i \in 1..Len(forced) : forced[i].asset # a
        BY <1>5, <2>3
      <4> QED BY <1>11, <4>1, TotalOther
    <3>3. Total(inputs, a) = 0
      BY <1>11, <1>12, <2>3, <3>2
    <3>4. Total(f.changes, a) = 0
      BY <1>13, <1>25, <1>27, <2>3
    <3> QED BY <1>27, <2>3, <3>1, <3>3, <3>4
  <2> QED BY <2>1, <2>2, <2>3
<1>29. AnyConfidential(f.inputs) /\ shape.blinded = 0 => f.changes # <<>>
  BY <1>20
<1>30. Balanced(f, needs, shape)
  BY <1>23, <1>26, <1>28, <1>29 DEF Balanced
<1> QED BY <1>1, <1>30

-----------------------------------------------------------------------------
(* The review accepts what is put together from a funding.                   *)

(* The request did not fail with an error that speaks against the builder.   *)
NotBroken(res) == res.ok \/ res.error \notin {"InvalidPset", "DuplicateUtxo"}

(* What analyze checks once the number of items and their ids are settled.   *)
Checked(p, kind) ==
    /\ \A i \in DOMAIN p.ins : InputAccepted(p, i, kind)
    /\ \A i \in DOMAIN p.outs : OutputAccepted(p, i)
    /\ Confidential(p) => CommitmentsBalance(p)
    /\ kind # "SwapOffer" => Cardinality(FeeOutputs(p)) = 1 /\ Conserved(p)
    /\ KindAccepted(p, kind)

(* As many items as analyze admits.                                          *)
Few(p) == Len(p.ins) <= MaxPsetItems /\ Len(p.outs) <= MaxPsetItems

(* A PSET fails analyze only for its number of items, if it passes all the   *)
(* rest.                                                                     *)
LEMMA ReviewPasses ==
    ASSUME NEW p, NEW kind, p.genesis = Genesis, IsSeq(p.ins), Len(p.ins) > 0, Separate(p.ins),
           IsSeq(p.outs), Len(p.outs) > 0, Few(p) => Checked(p, kind)
    PROVE  NotBroken(ReviewPset(p, kind))
<1> DEFINE r == Analyze(p, kind)
<1>1. p.ins # <<>> /\ p.outs # <<>>
  BY NoElement
<1>2. ~(Cardinality({p.ins[i].id : i \in DOMAIN p.ins}) < Len(p.ins))
  BY SeparateCounted
<1>3. ~(Len(p.ins) > MaxPsetItems \/ Len(p.outs) > MaxPsetItems) => Few(p)
  <2>1. PICK m, n, k : m = Len(p.ins) /\ n = Len(p.outs) /\ k = MaxPsetItems
    OBVIOUS
  <2>2. m \in Nat /\ n \in Nat /\ k \in Nat
    BY <2>1, BoundsAssumption DEF IsSeq
  <2>3. ~(m > k \/ n > k) => m <= k /\ n <= k
    BY ONLY <2>2
  <2> QED BY <2>1, <2>3 DEF Few
<1>4. Checked(p, kind) =
        (/\ \A i \in DOMAIN p.ins : InputAccepted(p, i, kind)
         /\ \A i \in DOMAIN p.outs : OutputAccepted(p, i)
         /\ Confidential(p) => CommitmentsBalance(p)
         /\ kind # "SwapOffer" => Cardinality(FeeOutputs(p)) = 1 /\ Conserved(p)
         /\ KindAccepted(p, kind))
  BY DEF Checked
<1>5. \/ r = Failure("Confidential") \/ r = Failure("TooManyItems")
      \/ r = [ok |-> TRUE, review |-> TxReview(p, kind)]
  <2> DEFINE many == Len(p.ins) > MaxPsetItems \/ Len(p.outs) > MaxPsetItems
             twice == Cardinality({p.ins[i].id : i \in DOMAIN p.ins}) < Len(p.ins)
             rest == /\ \A i \in DOMAIN p.ins : InputAccepted(p, i, kind)
                     /\ \A i \in DOMAIN p.outs : OutputAccepted(p, i)
                     /\ Confidential(p) => CommitmentsBalance(p)
                     /\ kind # "SwapOffer" => Cardinality(FeeOutputs(p)) = 1 /\ Conserved(p)
                     /\ KindAccepted(p, kind)
  <2>1. r = IF p.genesis # Genesis \/ p.ins = <<>> \/ p.outs = <<>> THEN Failure("InvalidPset")
            ELSE IF Confidential(p) /\ kind \in {"SwapOffer", "SwapTake"} THEN Failure("Confidential")
            ELSE IF many THEN Failure("TooManyItems")
            ELSE IF twice THEN Failure("DuplicateUtxo")
            ELSE IF rest THEN [ok |-> TRUE, review |-> TxReview(p, kind)]
            ELSE Failure("InvalidPset")
    BY DEF Analyze
  <2>2. ~many => rest
    BY <1>3, <1>4
  <2>3. ~twice
    BY <1>2
  <2> HIDE DEF many, twice, rest, r
  <2> QED BY <1>1, <2>1, <2>2, <2>3
<1> HIDE DEF r
<1>6. r.ok \/ r.error \notin {"InvalidPset", "DuplicateUtxo"}
  BY <1>5 DEF Failure
<1>7. ReviewPset(p, kind) = r \/ ReviewPset(p, kind).ok
  BY DEF ReviewPset, r
<1> QED BY <1>6, <1>7 DEF NotBroken

(* Only a PSET that the wallet funds alone has blinded outputs.              *)
LEMMA FinishPasses ==
    ASSUME NEW ins, NEW outs, NEW kind, NEW funded, NEW p,
           p = [genesis |-> Genesis, ins |-> ins, outs |-> outs],
           (\E i \in DOMAIN outs : Blinded(outs[i])) => funded = Len(ins),
           NotBroken(ReviewPset(p, kind))
    PROVE  NotBroken(Finish(ins, outs, kind, funded))
BY DEF Finish

(* The fee of a PSET of no more items than analyze admits is an amount.      *)
LEMMA FeeIsAmount ==
    ASSUME NEW C, NEW A, NEW f, NEW shape, IsShape(shape), NEW rate \in 1..MaxFeeRate,
           Funded(f, C, A, shape, rate), shape.blinded <= shape.fixed,
           shape.foreign + Len(f.inputs) <= MaxPsetItems,
           shape.fixed + Len(f.changes) + 1 <= MaxPsetItems
    PROVE  f.fee \in 1..MaxMoney
<1> DEFINE hides == AnyConfidential(f.inputs)
<1>1. PICK a, b, c, i, n, fee, most, rates, money :
          /\ a = shape.foreign /\ b = shape.fixed /\ c = shape.blinded
          /\ i = Len(f.inputs) /\ n = Len(f.changes) /\ fee = f.fee
          /\ most = MaxPsetItems /\ rates = MaxFeeRate /\ money = MaxMoney
  OBVIOUS
<1>2. /\ a \in Nat /\ b \in Nat /\ c \in Nat /\ i \in Nat /\ n \in Nat /\ fee \in Int
      /\ most \in Nat /\ rates \in Nat /\ money \in Nat /\ rate \in Nat /\ 1 <= rate /\ rate <= rates
      /\ c <= b /\ a + i <= most /\ b + n + 1 <= most
  <2>1. f.inputs \in Seq(C) /\ f.changes \in Seq(Change(A)) /\ fee \in Int
    BY <1>1 DEF Funded
  <2>2. Len(f.inputs) \in Nat /\ Len(f.changes) \in Nat
    BY <2>1
  <2>3. a \in Nat /\ b \in Nat /\ c \in Nat
    BY <1>1 DEF IsShape
  <2>4. most \in Nat /\ rates \in Nat /\ money \in Nat
    BY <1>1, BoundsAssumption
  <2>5. c <= b /\ a + i <= most /\ b + n + 1 <= most
    BY <1>1
  <2>6. rate \in Nat /\ 1 <= rate /\ rate <= rates
    BY <1>1, <2>4
  <2> QED BY <1>1, <2>1, <2>2, <2>3, <2>4, <2>5, <2>6
<1>3. PICK k, l : k = (c + IF hides THEN n ELSE 0) /\ l = (c + IF hides THEN n + 1 ELSE 0)
  OBVIOUS
<1>4. k \in Nat /\ l \in Nat /\ l <= most + 1
  BY <1>2, <1>3
<1>5. PICK x, y, z : /\ x = Vsize(a + i, shape.issuance, b + n + 1, k)
                     /\ y = Vsize(a + i, shape.issuance, b + (n + 1) + 1, l)
                     /\ z = Vsize(most, TRUE, most + 1, most + 1)
  OBVIOUS
<1>6. fee >= rate * x /\ fee < rate * y + Dust
  <2>1. /\ fee >= rate * SizeWith(f, shape, n)
        /\ fee < rate * SizeWith(f, shape, n + 1) + Dust
    BY <1>1 DEF Funded, FairFee
  <2>2. SizeWith(f, shape, n) = x /\ SizeWith(f, shape, n + 1) = y
    BY <1>1, <1>3, <1>5 DEF SizeWith
  <2> QED BY <2>1, <2>2
<1>7. x \in Nat /\ x > 0
  <2>1. a + i \in Nat /\ b + n + 1 \in Nat /\ 1 <= b + n + 1 /\ a + i <= a + i
        /\ b + n + 1 <= b + n + 1 /\ k <= k
    BY ONLY <1>2, <1>4
  <2> QED BY <1>4, <1>5, <2>1, VsizeMore
<1>8. y \in Nat /\ z \in Nat /\ y <= z
  <2>1. a + i \in Nat /\ b + (n + 1) + 1 \in Nat /\ 1 <= b + (n + 1) + 1 /\ a + i <= most
        /\ b + (n + 1) + 1 <= most + 1 /\ most + 1 \in Nat
    BY ONLY <1>2, <1>4
  <2> QED BY ZenonT(30), <1>2, <1>4, <1>5, <2>1, VsizeMore
<1>9. rates * z + Dust <= money
  BY <1>1, <1>5, FeesAssumption
<1>10. rate * x >= 1 /\ rate * x \in Nat
  BY ONLY <1>2, <1>7
<1>11. rate * y <= rates * z /\ rate * y \in Nat /\ rates * z \in Nat
  <2>1. rate * y <= rate * z /\ rate * y \in Nat /\ rate * z \in Nat
    BY ONLY <1>2, <1>8
  <2>2. rate * z <= rates * z /\ rates * z \in Nat
    BY ONLY <1>2, <1>8
  <2> QED BY ONLY <2>1, <2>2
<1>12. fee >= 1 /\ fee <= money
  <2>1. PICK u, v, w : u = rate * x /\ v = rate * y /\ w = rates * z
    OBVIOUS
  <2> QED BY ONLY <1>2, <1>6, <1>9, <1>10, <1>11, <2>1, Dust = 546 DEF Dust
<1> QED BY <1>1, <1>2, <1>12

(* What an own input says is what its coin is.                               *)
LEMMA OwnIs ==
    ASSUME NEW own, NEW f, Own(own, f), NEW i \in 1..Len(own)
    PROVE  /\ own[i].id = f.inputs[i].id /\ own[i].asset = f.inputs[i].asset
           /\ own[i].value = f.inputs[i].value /\ own[i].conf = f.inputs[i].conf
           /\ own[i].opens = <<f.inputs[i].asset, f.inputs[i].value>>
           /\ own[i].script = f.inputs[i].owner /\ own[i].derived
           /\ own[i].sighash = "ALL" /\ own[i].witness = NoSig
<1>1. PICK v, c : v = own[i] /\ c = f.inputs[i]
  OBVIOUS
<1>2. v = [WalletInput(c, "ALL") EXCEPT !.issuance = v.issuance]
  BY <1>1 DEF Own
<1>3. /\ v.id = c.id /\ v.asset = c.asset /\ v.value = c.value /\ v.conf = c.conf
      /\ v.opens = <<c.asset, c.value>> /\ v.script = c.owner /\ v.derived
      /\ v.sighash = "ALL" /\ v.witness = NoSig
  BY <1>2 DEF WalletInput
<1> QED BY <1>1, <1>3

(* The inputs of a funded PSET carry what the makers' and the coins do, and  *)
(* no two are the same.                                                      *)
LEMMA InputsAddUp ==
    ASSUME NEW makers, Valued(makers), Separate(makers), NEW C, \A c \in C : c.value \in Int,
           NEW f, f.inputs \in Seq(C), Separate(f.inputs), NEW own, Own(own, f),
           \A i \in 1..Len(makers), j \in 1..Len(f.inputs) : makers[i].id # f.inputs[j].id
    PROVE  /\ \A a : Total(makers \o own, a) = Total(makers, a) + Total(f.inputs, a)
           /\ Separate(makers \o own)
<1>1. Valued(f.inputs)
  BY CoinsValued
<1>2. IsSeq(own) /\ Len(own) = Len(f.inputs) /\ IsSeq(makers)
  BY DEF Own, Valued
<1>3. \A i \in 1..Len(f.inputs) : own[i].asset = f.inputs[i].asset /\ own[i].value = f.inputs[i].value
  BY <1>2, OwnIs
<1>4. Valued(own) /\ \A a : Total(own, a) = Total(f.inputs, a)
  BY <1>1, <1>2, <1>3, TotalSame
<1>5. \A a : Total(makers \o own, a) = Total(makers, a) + Total(own, a)
  BY <1>4, TotalJoined
<1>6. \A i \in 1..Len(own) : own[i].id = f.inputs[i].id
  BY OwnIs
<1>7. Separate(own)
  BY <1>2, <1>6 DEF Separate
<1>8. \A i \in 1..Len(makers), j \in 1..Len(own) : makers[i].id # own[j].id
  BY <1>2, <1>6
<1> QED BY <1>2, <1>4, <1>5, <1>7, <1>8, SeparateJoined

(* Its outputs carry what the request's do, the changes and the fee.         *)
LEMMA OutputsAddUp ==
    ASSUME NEW head, Valued(head), NEW A, NEW f, f.changes \in Seq(Change(A)), f.fee \in Int
    PROVE  \A a : Total(head \o ChangesAndFee(f), a)
                    = (Total(head, a) + Total(f.changes, a)) + (IF a = Policy THEN f.fee ELSE 0)
<1> DEFINE n == Len(f.changes)
           q == [i \in 1..n |-> WalletOutput(f.changes[i].asset, f.changes[i].value,
                                             AnyConfidential(f.inputs))]
           t == ChangesAndFee(f)
           last == <<FeeOutput(f.fee)>>
<1>1. DOMAIN f.changes = 1..n /\ n \in Nat /\ IsSeq(f.changes)
      /\ \A i \in 1..n : f.changes[i].value \in Int
  <2>1. IsSeq(f.changes) /\ DOMAIN f.changes = 1..n
    BY SeqIs
  <2>2. \A i \in 1..n : f.changes[i] \in Change(A)
    BY <2>1
  <2>3. \A c \in Change(A) : c.value \in Int
    BY DEF Change
  <2> QED BY <2>1, <2>2, <2>3 DEF IsSeq
<1>2. Valued(f.changes)
  BY <1>1 DEF Valued
<1>3. IsSeq(q) /\ Len(q) = n
  <2>1. q = [i \in 1..n |-> q[i]]
    OBVIOUS
  <2> HIDE DEF q, n
  <2> QED BY <1>1, <2>1, Listed
<1>4. \A i \in 1..n : q[i].asset = f.changes[i].asset /\ q[i].value = f.changes[i].value
  BY DEF WalletOutput, PsetOutput
<1>5. t = Append(q, FeeOutput(f.fee))
  BY <1>1 DEF ChangesAndFee
<1> HIDE DEF q, n, t
<1>6. Valued(q) /\ \A a : Total(q, a) = Total(f.changes, a)
  BY <1>2, <1>3, <1>4, TotalSame DEF n
<1>7. Valued(last) /\ \A a : Total(last, a) = IF Policy = a THEN f.fee ELSE 0
  <2>1. PICK x : x = FeeOutput(f.fee)
    OBVIOUS
  <2>2. x.asset = Policy /\ x.value = f.fee
    BY <2>1 DEF FeeOutput, PsetOutput
  <2>3. Valued(<<x>>) /\ \A a : Total(<<x>>, a) = IF x.asset = a THEN x.value ELSE 0
    BY <2>2, TotalOne
  <2> QED BY <2>1, <2>2, <2>3
<1>8. t = q \o last
  <2>1. PICK x, S : x = FeeOutput(f.fee) /\ S = {q[i] : i \in 1..Len(q)} \cup {x}
    OBVIOUS
  <2>2. q \in Seq(S) /\ x \in S
    <3>1. q \in Seq({q[i] : i \in 1..Len(q)})
      BY <1>3, IsSeqOf
    <3> QED BY <2>1, <3>1, SeqSubset
  <2>3. Append(q, x) = q \o <<x>>
    BY <2>2
  <2> QED BY <1>5, <2>1, <2>3
<1> HIDE DEF last
<1>9. Valued(t) /\ \A a : Total(t, a) = Total(q, a) + Total(last, a)
  BY <1>6, <1>7, <1>8, TotalJoined
<1>10. \A a : Total(head \o t, a) = Total(head, a) + Total(t, a)
  BY <1>9, TotalJoined
<1> SUFFICES ASSUME NEW a
             PROVE  Total(head \o t, a) = (Total(head, a) + Total(f.changes, a)) + (IF a = Policy THEN f.fee ELSE 0)
  BY DEF t
<1>11. PICK u, v, w, x, y : /\ u = Total(head \o t, a) /\ v = Total(head, a) /\ w = Total(f.changes, a)
                            /\ x = (IF a = Policy THEN f.fee ELSE 0) /\ y = Total(t, a)
  OBVIOUS
<1>12. v \in Int /\ w \in Int /\ x \in Int
  BY <1>2, <1>11, TotalIs
<1>13. u = v + y /\ y = w + x
  BY <1>6, <1>7, <1>9, <1>10, <1>11
<1> QED BY <1>11, <1>12, <1>13

(* Outputs that a request asks for.                                          *)
Asked(head, shape) ==
    /\ IsSeq(head) /\ shape.fixed = Len(head) /\ shape.blinded <= Len(head)
    /\ \A i \in 1..Len(head) :
         /\ head[i].value \in 1..MaxMoney /\ head[i].to # Fee
         /\ Blinded(head[i]) => /\ OutputProofsVerify(head[i])
                                /\ OutputIsWallet(head[i]) => Unblinds(head[i])
    /\ shape.blinded > 0 => \E i \in 1..Len(head) : Blinded(head[i])

(* The outputs pass, and just the last is the fee.                           *)
LEMMA OutputsPass ==
    ASSUME NEW C, NEW A, NEW f, NEW shape, IsShape(shape), NEW rate \in 1..MaxFeeRate,
           Funded(f, C, A, shape, rate), \A i \in 1..Len(f.changes) : f.changes[i].value \in 1..MaxMoney,
           NEW p, NEW makers, NEW head, Assembled(p, f, makers, head), Asked(head, shape),
           shape.foreign = Len(makers), Few(p)
    PROVE  \A i \in DOMAIN p.outs : OutputAccepted(p, i)
<1>1. PICK h, k, l, m : h = Len(head) /\ k = Len(f.changes) /\ l = Len(f.inputs) /\ m = Len(makers)
  OBVIOUS
<1>2. h \in Nat /\ k \in Nat /\ l \in Nat /\ m \in Nat
  <2>1. f.changes \in Seq(Change(A)) /\ f.inputs \in Seq(C)
    BY DEF Funded
  <2>2. Len(f.changes) \in Nat /\ Len(f.inputs) \in Nat
    BY <2>1
  <2>3. h \in Nat
    BY <1>1 DEF Asked, IsSeq
  <2>4. m \in Nat
    BY <1>1 DEF IsShape
  <2> QED BY <1>1, <2>2, <2>3, <2>4
<1>3. /\ DOMAIN p.outs = 1..(h + k + 1) /\ Len(p.outs) = h + k + 1
      /\ \A i \in 1..h : p.outs[i] = head[i]
      /\ \A i \in 1..k : p.outs[h + i] = WalletOutput(f.changes[i].asset, f.changes[i].value,
                                                      AnyConfidential(f.inputs))
      /\ p.outs[h + k + 1] = FeeOutput(f.fee)
  BY <1>1, IsSeqOf DEF Assembled
<1>4. f.fee \in 1..MaxMoney
  <2>1. Len(p.ins) = m + l /\ Len(p.ins) <= MaxPsetItems /\ h + k + 1 <= MaxPsetItems
    BY <1>1, <1>3 DEF Few, Assembled
  <2>2. shape.foreign + Len(f.inputs) <= MaxPsetItems
    BY <1>1, <2>1
  <2>3. shape.fixed + Len(f.changes) + 1 <= MaxPsetItems
    BY <1>1, <2>1 DEF Asked
  <2>4. shape.blinded <= shape.fixed
    BY DEF Asked
  <2> QED BY <2>2, <2>3, <2>4, FeeIsAmount
<1>5. \A i \in 1..(h + k + 1) : i \in 1..h \/ (i - h \in 1..k /\ i = h + (i - h)) \/ i = h + k + 1
  BY SMTT(30), <1>2
<1> SUFFICES ASSUME NEW i \in 1..(h + k + 1) PROVE OutputAccepted(p, i)
  BY <1>3
<1>6. PICK o : o = p.outs[i]
  OBVIOUS
<1>7. CASE i \in 1..h
  <2>1. o = head[i]
    BY <1>3, <1>6, <1>7
  <2>2. /\ o.value \in 1..MaxMoney /\ o.to # Fee
        /\ Blinded(o) => OutputProofsVerify(o) /\ (OutputIsWallet(o) => Unblinds(o))
    BY <1>1, <1>7, <2>1 DEF Asked
  <2> QED BY <1>6, <2>2 DEF OutputAccepted
<1>8. CASE i - h \in 1..k /\ i = h + (i - h)
  <2>1. PICK j \in 1..k : i = h + j
    BY <1>8
  <2>2. PICK a, v, b : o = WalletOutput(a, v, b) /\ v = f.changes[j].value
    BY <1>3, <1>6, <2>1
  <2>3. v \in 1..MaxMoney
    BY <1>1, <2>2
  <2>4. /\ o.value = v /\ o.to = Wallet /\ o.opens = <<o.asset, o.value>>
        /\ o.key = "none" \/ o.key = Wallet
    BY <2>2 DEF WalletOutput, PsetOutput
  <2>5. o.to # Fee
    BY <2>4 DEF Wallet, Fee
  <2> QED BY <1>6, <2>3, <2>4, <2>5 DEF OutputAccepted, Blinded, OutputProofsVerify, Unblinds
<1>9. CASE i = h + k + 1
  <2>1. o = FeeOutput(f.fee)
    BY <1>3, <1>6, <1>9
  <2>2. o.value = f.fee /\ ~Blinded(o) /\ o.asset = Policy
    BY <2>1 DEF FeeOutput, PsetOutput, Blinded
  <2> QED BY <1>3, <1>4, <1>6, <1>9, <2>2 DEF OutputAccepted
<1> QED BY <1>5, <1>7, <1>8, <1>9

(* Just the last is the fee.                                                 *)
LEMMA OneFee ==
    ASSUME NEW A, NEW f, f.changes \in Seq(Change(A)), NEW p, NEW makers, NEW head,
           Assembled(p, f, makers, head), Len(head) \in Nat, \A i \in 1..Len(head) : head[i].to # Fee
    PROVE  Cardinality(FeeOutputs(p)) = 1
<1>1. PICK h, k : h = Len(head) /\ k = Len(f.changes)
  OBVIOUS
<1>2. h \in Nat /\ k \in Nat
  BY <1>1
<1>3. /\ DOMAIN p.outs = 1..(h + k + 1)
      /\ \A i \in 1..h : p.outs[i] = head[i]
      /\ \A i \in 1..k : p.outs[h + i] = WalletOutput(f.changes[i].asset, f.changes[i].value,
                                                      AnyConfidential(f.inputs))
      /\ p.outs[h + k + 1] = FeeOutput(f.fee)
  BY <1>1, IsSeqOf DEF Assembled
<1>4. \A i \in 1..(h + k + 1) : i \in 1..h \/ (i - h \in 1..k /\ i = h + (i - h)) \/ i = h + k + 1
  BY <1>2
<1>5. p.outs[h + k + 1].to = Fee
  BY <1>3 DEF FeeOutput, PsetOutput
<1>6. \A i \in 1..k : p.outs[h + i].to # Fee
  <2> SUFFICES ASSUME NEW i \in 1..k PROVE p.outs[h + i].to # Fee
    OBVIOUS
  <2>1. PICK o, a, v, b : o = p.outs[h + i] /\ o = WalletOutput(a, v, b)
    BY <1>3
  <2>2. o.to # Fee
    BY <2>1 DEF WalletOutput, PsetOutput, Wallet, Fee
  <2> QED BY <2>1, <2>2
<1>7. FeeOutputs(p) = {h + k + 1}
  <2>1. \A i \in 1..(h + k + 1) : p.outs[i].to = Fee <=> i = h + k + 1
    <3> SUFFICES ASSUME NEW i \in 1..(h + k + 1) PROVE p.outs[i].to = Fee <=> i = h + k + 1
      OBVIOUS
    <3>1. CASE i \in 1..h
      BY <1>1, <1>2, <1>3, <3>1
    <3>2. CASE i - h \in 1..k /\ i = h + (i - h)
      <4>1. PICK j \in 1..k : i = h + j
        BY <3>2
      <4> QED BY <1>2, <1>6, <4>1
    <3> QED BY <1>4, <1>5, <3>1, <3>2
  <2>2. h + k + 1 \in 1..(h + k + 1)
    BY <1>2
  <2> QED BY <1>3, <2>1, <2>2 DEF FeeOutputs
<1> QED BY <1>7, FS_Singleton

(* A funded PSET, put together from its parts.                               *)
FundedPset(makers, own, head, f) ==
    [genesis |-> Genesis, ins |-> makers \o own, outs |-> head \o ChangesAndFee(f)]

(* Makers' inputs that a request brings along are accepted, and no coin of   *)
(* the wallet is among them.                                                 *)
Brings(p, makers, f, kind) ==
    /\ Valued(makers) /\ Separate(makers)
    /\ \A i \in 1..Len(makers) : ~makers[i].conf /\ InputAccepted(p, i, kind)
    /\ \A i \in 1..Len(makers), j \in 1..Len(f.inputs) : makers[i].id # f.inputs[j].id

(* Only the first input of an issuance carries one.                          *)
IssuesRight(p, makers, kind) ==
    \A i \in DOMAIN p.ins : i > Len(makers) =>
        \/ p.ins[i].issuance = NoIssuance
        \/ kind = "Issuance" /\ i = 1 /\ ExplicitIssuance(p.ins[i].issuance)

(* What the request asks for is what it brings, needs and issues.            *)
Meets(p, makers, head, needs) ==
    \A a : /\ NeedOf(needs, a) \in Int /\ SumFunction(IssuedBy(p, a)) \in Int
           /\ (Total(makers, a) + NeedOf(needs, a)) + SumFunction(IssuedBy(p, a)) = Total(head, a)

(* The wallet's own inputs pass.                                             *)
LEMMA InputsPass ==
    ASSUME NEW C, \A c \in C : c.value \in 1..MaxMoney /\ c.owner = Wallet,
           NEW f, f.inputs \in Seq(C), NEW own, Own(own, f), NEW makers, NEW head,
           NEW p, p = FundedPset(makers, own, head, f),
           NEW kind, kind # "SwapOffer", Brings(p, makers, f, kind), IssuesRight(p, makers, kind)
    PROVE  \A i \in DOMAIN p.ins : InputAccepted(p, i, kind)
<1>1. PICK m, l : m = Len(makers) /\ l = Len(own)
  OBVIOUS
<1>2. /\ m \in Nat /\ l \in Nat /\ DOMAIN p.ins = 1..(m + l)
      /\ \A i \in 1..l : p.ins[m + i] = own[i]
  <2>1. IsSeq(makers) /\ IsSeq(own)
    BY DEF Brings, Valued, Own
  <2>2. p.ins = makers \o own
    BY DEF FundedPset
  <2>3. /\ IsSeq(p.ins) /\ Len(p.ins) = Len(makers) + Len(own)
        /\ \A i \in 1..Len(own) : p.ins[Len(makers) + i] = own[i]
    BY <2>1, <2>2, Joined
  <2>4. DOMAIN p.ins = 1..Len(p.ins)
    BY <2>3, IsSeqOf
  <2> QED BY <1>1, <2>1, <2>3, <2>4 DEF IsSeq
<1> SUFFICES ASSUME NEW i \in 1..(m + l) PROVE InputAccepted(p, i, kind)
  BY <1>2
<1>3. CASE i \in 1..m
  BY <1>1, <1>3 DEF Brings
<1>4. CASE i \notin 1..m
  <2>1. PICK j \in 1..l : i = m + j /\ i > m
    <3>1. i - m \in 1..l /\ i = m + (i - m) /\ i > m
      BY <1>2, <1>4
    <3> QED BY <3>1
  <2>2. PICK in, c : in = p.ins[i] /\ c = f.inputs[j]
    OBVIOUS
  <2>3. in = own[j]
    BY <1>2, <2>1, <2>2
  <2>4. /\ in.asset = c.asset /\ in.value = c.value /\ in.opens = <<c.asset, c.value>>
        /\ in.script = c.owner /\ in.derived /\ in.sighash = "ALL" /\ in.witness = NoSig
    BY <1>1, <2>2, <2>3, OwnIs
  <2>5. c \in C
    BY <1>1, <2>2 DEF Own
  <2>6. c.value \in 1..MaxMoney /\ c.owner = Wallet
    BY <2>5
  <2>7. in.issuance = NoIssuance \/ (kind = "Issuance" /\ i = 1 /\ ExplicitIssuance(in.issuance))
    BY <1>1, <1>2, <2>1, <2>2 DEF IssuesRight
  <2>8. in.sighash = KindSighash(kind)
    BY <2>4 DEF KindSighash
  <2>9. in.opens = <<in.asset, in.value>> /\ in.value \in 1..MaxMoney /\ in.script = Wallet
    BY <2>4, <2>6
  <2> QED BY <2>2, <2>4, <2>7, <2>8, <2>9 DEF InputAccepted, InputProofsVerify, InputIsWallet
<1> QED BY <1>3, <1>4

(* The review accepts every funded PSET whose parts are right: this is where *)
(* build.rs and review.rs meet.                                              *)
LEMMA FundedPasses ==
    ASSUME NEW C, \A c \in C : c.value \in 1..MaxMoney /\ c.owner = Wallet, NEW A,
           NEW needs, NEW shape, IsShape(shape), NEW rate \in 1..MaxFeeRate,
           NEW f, Funded(f, C, A, shape, rate), Balanced(f, needs, shape),
           NEW own, Own(own, f), NEW makers, NEW head, Asked(head, shape), shape.foreign = Len(makers),
           NEW p, p = FundedPset(makers, own, head, f),
           NEW kind, kind # "SwapOffer", Brings(p, makers, f, kind), IssuesRight(p, makers, kind),
           Meets(p, makers, head, needs), KindAccepted(p, kind)
    PROVE  NotBroken(ReviewPset(p, kind))
<1>1. f.inputs \in Seq(C) /\ f.inputs # <<>> /\ f.changes \in Seq(Change(A)) /\ f.fee \in Int
  BY DEF Funded
<1>2. \A c \in C : c.value \in Int
  BY BoundsAssumption
<1>3. IsSeq(makers) /\ IsSeq(head) /\ Len(head) \in Nat /\ Len(makers) \in Nat /\ Valued(makers)
  BY DEF Brings, Valued, Asked, IsSeq
<1>4. Assembled(p, f, makers, head)
  BY <1>1, <1>3, Assembles DEF FundedPset
<1>5. \A i \in 1..Len(head) : head[i].value \in Int
  BY BoundsAssumption DEF Asked
<1>6. Valued(head)
  BY <1>3, <1>5 DEF Valued
<1>7. p.ins = makers \o own /\ p.outs = head \o ChangesAndFee(f) /\ p.genesis = Genesis
  BY DEF FundedPset
<1>8. Separate(p.ins) /\ \A a : Total(p.ins, a) = Total(makers, a) + Total(f.inputs, a)
  <2>1. Valued(makers) /\ Separate(makers) /\ Separate(f.inputs)
    BY DEF Brings, Balanced
  <2>2. \A i \in 1..Len(makers), j \in 1..Len(f.inputs) : makers[i].id # f.inputs[j].id
    BY DEF Brings
  <2>3. /\ \A a : Total(makers \o own, a) = Total(makers, a) + Total(f.inputs, a)
        /\ Separate(makers \o own)
    BY <1>1, <1>2, <2>1, <2>2, InputsAddUp
  <2> QED BY <1>7, <2>3
<1>9. \A a : Total(p.outs, a) = (Total(head, a) + Total(f.changes, a)) + (IF a = Policy THEN f.fee ELSE 0)
  BY ZenonT(30), <1>1, <1>6, <1>7, OutputsAddUp
<1>10. Conserved(p)
  <2> SUFFICES ASSUME NEW a PROVE Brought(p, a) = Total(p.outs, a)
    BY DEF Conserved
  <2>1. PICK i, m, n, s, h, c, fee, w, o :
          /\ i = Total(p.ins, a) /\ m = Total(makers, a) /\ n = NeedOf(needs, a)
          /\ s = SumFunction(IssuedBy(p, a)) /\ h = Total(head, a) /\ c = Total(f.changes, a)
          /\ fee = (IF a = Policy THEN f.fee ELSE 0) /\ w = Total(f.inputs, a) /\ o = Total(p.outs, a)
    OBVIOUS
  <2>2. m \in Int /\ h \in Int /\ c \in Int /\ fee \in Int /\ n \in Int /\ s \in Int
    <3>1. Valued(f.changes)
      <4>1. IsSeq(f.changes)
        BY <1>1, SeqIs
      <4>2. \A j \in 1..Len(f.changes) : f.changes[j] \in Change(A)
        BY <1>1
      <4>3. \A j \in 1..Len(f.changes) : f.changes[j].value \in Int
        BY <4>2 DEF Change
      <4> QED BY <4>1, <4>3 DEF Valued
    <3>2. m \in Int /\ h \in Int /\ c \in Int
      BY <1>3, <1>6, <2>1, <3>1, TotalIs
    <3>3. n \in Int /\ s \in Int
      BY <2>1 DEF Meets
    <3> QED BY <1>1, <2>1, <3>2, <3>3
  <2>3. i = m + w /\ o = (h + c) + fee
    BY <1>8, <1>9, <2>1
  <2>4. w = (n + c) + fee
    BY <2>1 DEF Balanced
  <2>5. (m + n) + s = h
    BY <2>1 DEF Meets
  <2>6. i + s = o
    BY ONLY <2>2, <2>3, <2>4, <2>5
  <2>7. Brought(p, a) = i + s
    BY <2>1 DEF Brought, IssuedBy
  <2> QED BY <2>1, <2>6, <2>7
<1>11. \A i \in DOMAIN p.ins : InputAccepted(p, i, kind)
  BY <1>1, InputsPass
<1>12. Cardinality(FeeOutputs(p)) = 1
  <2>1. \A i \in 1..Len(head) : head[i].to # Fee
    BY DEF Asked
  <2> QED BY <1>1, <1>3, <1>4, <2>1, OneFee
<1>13. Confidential(p) => CommitmentsBalance(p)
  <2>1. AnyConfidential(p.ins) <=> AnyConfidential(f.inputs)
    <3>1. \A i \in 1..Len(makers) : ~makers[i].conf
      BY DEF Brings
    <3> QED BY <1>1, <1>3, <1>4, <3>1, ConfidentialAsFunded
  <2> SUFFICES ASSUME AnyConfidential(f.inputs) PROVE \E i \in DOMAIN p.outs : Blinded(p.outs[i])
    BY <1>10, <2>1 DEF CommitmentsBalance
  <2>2. PICK h, k : h = Len(head) /\ k = Len(f.changes)
    OBVIOUS
  <2>3. /\ h \in Nat /\ k \in Nat /\ DOMAIN p.outs = 1..(h + k + 1)
        /\ \A i \in 1..h : p.outs[i] = head[i]
        /\ \A i \in 1..k : p.outs[h + i] = WalletOutput(f.changes[i].asset, f.changes[i].value,
                                                        AnyConfidential(f.inputs))
    <3>1. h \in Nat /\ k \in Nat
      BY <1>1, <1>3, <2>2
    <3>2. DOMAIN p.outs = 1..Len(p.outs) /\ Len(p.outs) = h + k + 1
      BY <1>4, <2>2, IsSeqOf DEF Assembled
    <3> QED BY <1>4, <2>2, <3>1, <3>2 DEF Assembled
  <2>4. shape.blinded \in Nat
    BY DEF IsShape
  <2>5. CASE shape.blinded > 0
    <3>1. PICK i \in 1..h : Blinded(head[i])
      BY <2>2, <2>5 DEF Asked
    <3>2. i \in 1..(h + k + 1) /\ p.outs[i] = head[i]
      BY <2>3
    <3> QED BY <2>3, <3>1, <3>2
  <2>6. CASE shape.blinded = 0
    <3>1. f.changes # <<>>
      BY <2>6 DEF Balanced
    <3>2. k # 0
      BY <1>1, <2>2, <3>1
    <3>3. 1 \in 1..k /\ h + 1 \in 1..(h + k + 1)
      BY <2>3, <3>2
    <3>4. PICK a, v : p.outs[h + 1] = WalletOutput(a, v, AnyConfidential(f.inputs))
      BY <2>3, <3>3
    <3>5. Blinded(p.outs[h + 1])
      BY <3>4 DEF WalletOutput, PsetOutput, Blinded, Wallet
    <3> QED BY <2>3, <3>3, <3>5
  <2> QED BY <2>4, <2>5, <2>6
<1>14. Few(p) => Checked(p, kind)
  <2>1. ASSUME Few(p) PROVE \A i \in DOMAIN p.outs : OutputAccepted(p, i)
    <3>1. \A i \in 1..Len(f.changes) : f.changes[i].value \in 1..MaxMoney
      BY DEF Balanced
    <3> QED BY <1>4, <2>1, <3>1, OutputsPass
  <2> QED BY <1>10, <1>11, <1>12, <1>13, <2>1 DEF Checked
<1>15. IsSeq(p.ins) /\ IsSeq(p.outs) /\ Len(p.ins) > 0 /\ Len(p.outs) > 0
  <2>1. Len(f.inputs) \in Nat /\ Len(f.inputs) # 0 /\ Len(f.changes) \in Nat
    BY <1>1
  <2>2. Len(p.ins) = Len(makers) + Len(f.inputs) /\ Len(p.outs) = Len(head) + Len(f.changes) + 1
        /\ IsSeq(p.ins) /\ IsSeq(p.outs)
    BY <1>4 DEF Assembled
  <2> QED BY <1>3, <2>1, <2>2
<1> QED BY <1>7, <1>8, <1>14, <1>15, ReviewPasses

-----------------------------------------------------------------------------
(* Requests without makers.                                                  *)

(* Coins of the wallet, with amounts for values.                             *)
Held(C, A) == Usable(C, A) /\ \A c \in C : c.value \in 1..MaxMoney /\ c.owner = Wallet

(* fund fails for want of money or a rate out of range, unless a coin is     *)
(* both forced and a candidate.                                              *)
LEMMA FundNotBroken ==
    ASSUME NEW forced, NEW candidates, NEW needs, NEW shape, NEW rate,
           \A i \in DOMAIN forced : forced[i] \notin candidates
    PROVE  NotBroken(Fund(forced, candidates, needs, shape, rate))
<1> DEFINE tokens == (DOMAIN needs \cup {forced[i].asset : i \in DOMAIN forced}) \ {Policy}
           inputs == CoverTokens(forced, candidates, needs, tokens)
           changes == ChangesOf(inputs, tokens, needs)
           pool == Pool(candidates, Policy)
           need == NeedOf(needs, Policy)
           paid == PayFee(inputs, changes, pool, need, shape, rate)
           f == Fund(forced, candidates, needs, shape, rate)
<1>1. NotBroken(Failure("InsufficientFunds")) /\ NotBroken(Failure("InvalidFeeRate"))
  BY DEF NotBroken, Failure
<1>2. NotBroken(paid)
  <2> HIDE DEF inputs, changes, pool, need
  <2>1. paid = Failure("InsufficientFunds") \/ paid.ok
    BY DEF PayFee, Settled
  <2> HIDE DEF paid
  <2> QED BY <1>1, <2>1 DEF NotBroken
<1>3. f = paid \/ f = Failure("InsufficientFunds") \/ f = Failure("InvalidFeeRate")
  <2>1. ~(\E i \in DOMAIN forced : forced[i] \in candidates)
    OBVIOUS
  <2>2. f = IF rate \notin 1..MaxFeeRate THEN Failure("InvalidFeeRate")
            ELSE IF \E i \in DOMAIN forced : forced[i] \in candidates
            THEN Failure("DuplicateUtxo")
            ELSE IF \E a \in tokens : Total(inputs, a) < NeedOf(needs, a)
            THEN Failure("InsufficientFunds") ELSE paid
    BY DEF Fund, FundTokens
  <2> HIDE DEF f, paid, tokens, inputs
  <2> QED BY <2>1, <2>2
<1> HIDE DEF f, paid
<1>4. NotBroken(f)
  BY <1>1, <1>2, <1>3
<1> QED BY <1>4 DEF f

(* A funding of one asset beside the policy asset: fair, balanced, at a rate *)
(* in range.                                                                 *)
LEMMA FundAlone ==
    ASSUME NEW C, NEW A, Held(C, A), NEW candidates \in SUBSET C,
           \A c \in candidates : c.asset = Policy => Fits(c),
           NEW forced \in Seq(C), Len(forced) <= 1, NEW t \in A,
           \A i \in 1..Len(forced) : forced[i].asset = t,
           NEW needs, DOMAIN needs \subseteq {t}, \A a \in DOMAIN needs : needs[a] \in Nat,
           NEW shape, IsShape(shape), NEW rate,
           NEW f, f = Fund(forced, candidates, needs, shape, rate), f.ok
    PROVE  /\ Funded(f, C, A, shape, rate) /\ Balanced(f, needs, shape) /\ rate \in 1..MaxFeeRate
<1>1. /\ Proper(C) /\ \A c \in C : c.value \in 1..MaxMoney
      /\ A \subseteq Int /\ Policy \in A /\ \A c \in C : c.asset \in A
  BY DEF Held, Usable
<1>2. t \in Int /\ DOMAIN needs \subseteq Int /\ DOMAIN needs \subseteq A
  BY <1>1
<1>3. IsFiniteSet(DOMAIN needs)
  <2>1. PICK D : D = DOMAIN needs
    OBVIOUS
  <2>2. D \subseteq {t}
    BY <2>1
  <2>3. IsFiniteSet({t})
    BY FS_Singleton
  <2> QED BY <2>1, <2>2, <2>3, FS_Subset
<1>4. \A a \in DOMAIN needs : needs[a] \in Int
  OBVIOUS
<1>5. MaxFeeRate \in Nat
  BY BoundsAssumption
<1>6. Funded(f, C, A, shape, rate)
  BY <1>1, <1>2, <1>3, <1>4, <1>5, FundGives
<1>7. Balanced(f, needs, shape)
  BY <1>1, <1>2, FundBalances
<1>8. rate \in 1..MaxFeeRate
  BY DEF Fund, Failure
<1> QED BY <1>6, <1>7, <1>8

(* A PSET without makers' inputs or issuances brings what it needs.          *)
LEMMA MeetsPlain ==
    ASSUME NEW p, IsSeq(p.ins), \A i \in DOMAIN p.ins : p.ins[i].issuance = NoIssuance,
           NEW head, NEW needs, \A a : NeedOf(needs, a) \in Int /\ Total(head, a) = NeedOf(needs, a)
    PROVE  Meets(p, <<>>, head, needs)
<1> SUFFICES ASSUME NEW a
             PROVE  /\ NeedOf(needs, a) \in Int /\ SumFunction(IssuedBy(p, a)) \in Int
                    /\ (Total(<<>>, a) + NeedOf(needs, a)) + SumFunction(IssuedBy(p, a)) = Total(head, a)
  BY DEF Meets
<1>1. SumFunctionOnSet(IssuedBy(p, a), DOMAIN p.ins) = 0
  BY NothingIssued
<1>2. SumFunction(IssuedBy(p, a)) = 0
  <2>1. DOMAIN IssuedBy(p, a) = DOMAIN p.ins
    BY DEF IssuedBy
  <2> QED BY <1>1, <2>1 DEF SumFunction
<1>3. PICK x, y, z, s : x = Total(<<>>, a) /\ y = NeedOf(needs, a) /\ z = Total(head, a) /\ s = SumFunction(IssuedBy(p, a))
  OBVIOUS
<1>4. x = 0 /\ y \in Int /\ z = y /\ s = 0
  BY <1>2, <1>3, TotalNone
<1>5. s \in Int /\ (x + y) + s = z
  BY ONLY <1>4
<1> QED BY <1>3, <1>4, <1>5

(* Without makers nothing is brought along.                                  *)
LEMMA BringsNone == ASSUME NEW p, NEW f, NEW kind PROVE Brings(p, <<>>, f, kind)
<1>1. Len(<<>>) = 0 /\ 1..0 = {}
  OBVIOUS
<1>2. Valued(<<>>)
  BY TotalNone
<1>3. Separate(<<>>)
  BY <1>1 DEF Separate
<1> QED BY <1>1, <1>2, <1>3 DEF Brings

(* Without makers and issuance, transfers must pay somebody else, splits and *)
(* cancels nobody else.                                                      *)
LEMMA PlainAccepted ==
    ASSUME NEW C, NEW A, NEW f, f.inputs \in Seq(C), f.inputs # <<>>, f.changes \in Seq(Change(A)),
           NEW p, NEW head, Assembled(p, f, <<>>, head), IsSeq(head),
           \A i \in DOMAIN p.ins : p.ins[i].issuance = NoIssuance,
           \A i \in 1..Len(head) : head[i].to # Fee, NEW kind,
           \/ kind = "Transfer" /\ \E i \in 1..Len(head) : ~OutputIsWallet(head[i])
           \/ kind \in {"OfferSplit", "Cancel"} /\ \A i \in 1..Len(head) : OutputIsWallet(head[i])
    PROVE  KindAccepted(p, kind)
<1>1. External(p) = {i \in 1..Len(head) : head[i].to # Fee /\ ~OutputIsWallet(head[i])}
  BY ExternalInHead DEF IsSeq
<1>2. kind = "Transfer" => External(p) # {}
  BY <1>1
<1>3. kind \in {"OfferSplit", "Cancel"} => External(p) = {}
  BY <1>1
<1>4. {i \in DOMAIN p.ins : ~p.ins[i].derived} = {}
  BY AllDerived
<1>5. Cardinality({i \in DOMAIN p.ins : ~p.ins[i].derived}) = 0
  BY <1>4, FS_EmptySet
<1>6. 0 < Len(p.ins)
  <2>1. PICK l : l = Len(f.inputs)
    OBVIOUS
  <2>2. l \in Nat /\ l # 0
    BY <2>1
  <2>3. Len(<<>>) = 0 /\ Len(p.ins) = Len(<<>>) + l
    BY <2>1, NoElement DEF Assembled
  <2> QED BY <2>2, <2>3
<1> QED BY <1>2, <1>3, <1>5, <1>6 DEF KindAccepted

(* What a plain request funds, and pays: it needs one asset at most, and its *)
(* outputs are of what it needs.                                             *)
Plain(C, A, candidates, forced, t, needs, shape, head, kind) ==
    /\ Held(C, A) /\ candidates \in SUBSET C /\ \A c \in candidates : c.asset = Policy => Fits(c)
    /\ forced \in Seq(C) /\ Len(forced) <= 1 /\ t \in A
    /\ \A i \in 1..Len(forced) : forced[i].asset = t
    /\ DOMAIN needs \subseteq {t} /\ \A a \in DOMAIN needs : needs[a] \in Nat
    /\ IsShape(shape) /\ shape.foreign = 0 /\ Asked(head, shape)
    /\ \A a : NeedOf(needs, a) \in Int /\ Total(head, a) = NeedOf(needs, a)
    /\ \/ kind = "Transfer" /\ \E i \in 1..Len(head) : ~OutputIsWallet(head[i])
       \/ kind \in {"OfferSplit", "Cancel"} /\ \A i \in 1..Len(head) : OutputIsWallet(head[i])

(* A plain request that finds its funding passes the review.                 *)
LEMMA PlainPasses ==
    ASSUME NEW C, NEW A, NEW candidates, NEW forced, NEW t, NEW needs, NEW shape, NEW head, NEW kind,
           Plain(C, A, candidates, forced, t, needs, shape, head, kind), NEW rate,
           NEW f, f = Fund(forced, candidates, needs, shape, rate), f.ok
    PROVE  NotBroken(Finish(WalletInputs(f.inputs), head \o ChangesAndFee(f), kind, Len(f.inputs)))
<1>1. Funded(f, C, A, shape, rate) /\ Balanced(f, needs, shape) /\ rate \in 1..MaxFeeRate
  BY FundAlone DEF Plain
<1>a. /\ Held(C, A) /\ IsShape(shape) /\ shape.foreign = 0 /\ Asked(head, shape)
      /\ \A a : NeedOf(needs, a) \in Int /\ Total(head, a) = NeedOf(needs, a)
      /\ \/ kind = "Transfer" /\ \E i \in 1..Len(head) : ~OutputIsWallet(head[i])
         \/ kind \in {"OfferSplit", "Cancel"} /\ \A i \in 1..Len(head) : OutputIsWallet(head[i])
  BY DEF Plain
<1>2. PICK own : own = WalletInputs(f.inputs)
  OBVIOUS
<1>3. f.inputs \in Seq(C) /\ f.inputs # <<>> /\ f.changes \in Seq(Change(A))
  BY <1>1 DEF Funded
<1>4. Own(own, f)
  BY <1>2, <1>3, InputsOwn
<1>5. PICK p : p = FundedPset(<<>>, own, head, f)
  OBVIOUS
<1>6. p = [genesis |-> Genesis, ins |-> own, outs |-> head \o ChangesAndFee(f)] /\ p.ins = own
  BY <1>4, <1>5, NoMakers DEF FundedPset
<1>7. IsSeq(head) /\ IsSeq(<<>>) /\ Len(<<>>) = 0 /\ \A i \in 1..Len(head) : head[i].to # Fee
  BY <1>a, NoElement DEF Asked
<1>8. Assembled(p, f, <<>>, head)
  BY <1>3, <1>4, <1>5, <1>7, Assembles DEF FundedPset
<1>9. IsSeq(p.ins) /\ DOMAIN p.ins = 1..Len(f.inputs) /\ Len(p.ins) = Len(f.inputs)
  BY <1>4, <1>6, IsSeqOf DEF Own
<1>10. \A i \in DOMAIN p.ins : p.ins[i].issuance = NoIssuance
  <2> SUFFICES ASSUME NEW i \in 1..Len(f.inputs) PROVE own[i].issuance = NoIssuance
    BY <1>6, <1>9
  <2>1. own[i] = WalletInput(f.inputs[i], "ALL")
    BY <1>2, <1>3 DEF WalletInputs
  <2> QED BY <2>1 DEF WalletInput
<1>11. IssuesRight(p, <<>>, kind)
  BY <1>10 DEF IssuesRight
<1>12. KindAccepted(p, kind)
  BY <1>3, <1>7, <1>8, <1>10, <1>a, PlainAccepted
<1>13. Meets(p, <<>>, head, needs)
  BY <1>9, <1>10, <1>a, MeetsPlain
<1>14. Brings(p, <<>>, f, kind)
  BY BringsNone
<1>15. \A c \in C : c.value \in 1..MaxMoney /\ c.owner = Wallet
  BY <1>a DEF Held
<1>16. kind # "SwapOffer" /\ shape.foreign = Len(<<>>)
  BY <1>7, <1>a
<1>17. NotBroken(ReviewPset(p, kind))
  BY <1>1, <1>a, <1>4, <1>5, <1>11, <1>12, <1>13, <1>14, <1>15, <1>16, FundedPasses
<1>18. Len(f.inputs) = Len(own)
  BY <1>4 DEF Own
<1>19. PICK outs : outs = head \o ChangesAndFee(f)
  OBVIOUS
<1>20. p = [genesis |-> Genesis, ins |-> own, outs |-> outs]
  BY <1>6, <1>19
<1>21. NotBroken(Finish(own, outs, kind, Len(f.inputs)))
  BY ONLY <1>17, <1>18, <1>20, FinishPasses
<1> QED BY <1>2, <1>19, <1>21

(* Outputs of just what a single need calls for.                             *)
AsksOnly(needs, asset, head) ==
    /\ DOMAIN needs = {asset} /\ \A a \in DOMAIN needs : needs[a] \in Nat
    /\ \A a : NeedOf(needs, a) \in Int /\ Total(head, a) = NeedOf(needs, a)

(* One output of the amount asked for is what a single need calls for.       *)
LEMMA OnlyMeets ==
    ASSUME NEW asset, NEW amount \in 1..MaxMoney, NEW o, o.asset = asset, o.value = amount
    PROVE  AsksOnly(Only(asset, amount), asset, <<o>>)
<1>1. amount \in Nat
  BY BoundsAssumption
<1>2. DOMAIN Only(asset, amount) = {asset} /\ \A a \in {asset} : Only(asset, amount)[a] = amount
  BY DEF Only
<1>3. \A a : Total(<<o>>, a) = IF o.asset = a THEN o.value ELSE 0
  BY <1>1, TotalOne
<1>4. \A a : NeedOf(Only(asset, amount), a) = IF asset = a THEN amount ELSE 0
  BY <1>2 DEF NeedOf
<1> QED BY <1>1, <1>2, <1>3, <1>4 DEF AsksOnly

(* A transfer is never refused as invalid.                                   *)
LEMMA TransferPasses ==
    ASSUME NEW C, NEW A, Held(C, A), \A c \in C : c.asset = Policy => Fits(c), NEW asset \in A,
           NEW amount, NEW key \in {"none", "recipient"}, NEW rate
    PROVE  NotBroken(PrepareTransfer(C, asset, amount, key, rate))
<1> DEFINE shape == Shape(0, FALSE, 1, IF key = "none" THEN 0 ELSE 1)
           needs == Only(asset, amount)
           f == Fund(<<>>, C, needs, shape, rate)
           o == Recipient(asset, amount, key)
           head == <<o>>
           done == Finish(WalletInputs(f.inputs), head \o ChangesAndFee(f), "Transfer", Len(f.inputs))
           res == PrepareTransfer(C, asset, amount, key, rate)
<1>1. NotBroken(Failure("InvalidRequest"))
  BY DEF NotBroken, Failure
<1>2. NotBroken(f)
  <2>1. \A i \in DOMAIN <<>> : <<>>[i] \notin C
    OBVIOUS
  <2> HIDE DEF needs, shape
  <2> QED BY <2>1, FundNotBroken
<1>3. ASSUME amount \in 1..MaxMoney, f.ok PROVE NotBroken(done)
  <2>1. IsShape(shape) /\ shape.foreign = 0 /\ shape.fixed = 1
        /\ shape.blinded = IF key = "none" THEN 0 ELSE 1
    BY DEF IsShape, Shape
  <2>2. o.asset = asset /\ o.value = amount /\ o.to = "recipient" /\ o.key = key /\ ~o.derived
        /\ o.opens = <<asset, amount>>
    BY DEF Recipient, PsetOutput
  <2>3. /\ DOMAIN needs = {asset} /\ \A a \in DOMAIN needs : needs[a] \in Nat
        /\ \A a : NeedOf(needs, a) \in Int /\ Total(head, a) = NeedOf(needs, a)
    <3>1. AsksOnly(needs, asset, head)
      <4> HIDE DEF o
      <4> QED BY <1>3, <2>2, OnlyMeets
    <3> QED BY <3>1 DEF AsksOnly
  <2>4. <<>> \in Seq(C) /\ Len(<<>>) <= 1 /\ \A i \in 1..Len(<<>>) : <<>>[i].asset = asset
    OBVIOUS
  <2>5. IsSeq(head) /\ Len(head) = 1 /\ head[1] = o
    BY One
  <2>6. ~OutputIsWallet(o) /\ o.to # Fee /\ OutputProofsVerify(o) /\ (Blinded(o) <=> key # "none")
    BY <2>2 DEF OutputIsWallet, Fee, OutputProofsVerify, Blinded
  <2> HIDE DEF needs, shape, f, head, o
  <2>7. Asked(head, shape)
    <3>1. 1..Len(head) = {1} /\ 0 <= 1
      BY <2>5
    <3>2. shape.blinded <= 1 /\ (shape.blinded > 0 => key # "none")
      BY <2>1
    <3> QED BY <1>3, <2>1, <2>2, <2>5, <2>6, <3>1, <3>2 DEF Asked
  <2>8. \E i \in 1..Len(head) : ~OutputIsWallet(head[i])
    BY <2>5, <2>6
  <2>9. f = Fund(<<>>, C, needs, shape, rate)
    BY DEF f
  <2>10. C \in SUBSET C
    OBVIOUS
  <2>11. DOMAIN needs \subseteq {asset}
    BY <2>3
  <2>12. Plain(C, A, C, <<>>, asset, needs, shape, head, "Transfer")
    BY <2>1, <2>3, <2>4, <2>7, <2>8, <2>10, <2>11 DEF Plain
  <2> QED BY <1>3, <2>9, <2>12, PlainPasses
<1>4. res = IF ~(amount \in 1..MaxMoney) \/ ~UtxosAccepted(C) THEN Failure("InvalidRequest")
            ELSE IF ~f.ok THEN f ELSE done
  BY DEF PrepareTransfer, AmountAccepted
<1> HIDE DEF res, f, done
<1>5. NotBroken(res)
  BY <1>1, <1>2, <1>3, <1>4
<1> QED BY <1>5 DEF res

(* Nor is the split of a coin for an offer, ...                              *)
LEMMA SplitPasses ==
    ASSUME NEW C, NEW A, Held(C, A), \A c \in C : c.asset = Policy => Fits(c), NEW asset \in A,
           NEW amount, NEW rate
    PROVE  NotBroken(PrepareOfferSplit(C, asset, amount, rate))
<1> DEFINE shape == Shape(0, FALSE, 1, 0)
           needs == Only(asset, amount)
           f == Fund(<<>>, C, needs, shape, rate)
           o == WalletOutput(asset, amount, FALSE)
           head == <<o>>
           done == Finish(WalletInputs(f.inputs), head \o ChangesAndFee(f), "OfferSplit", Len(f.inputs))
           res == PrepareOfferSplit(C, asset, amount, rate)
<1>1. NotBroken(Failure("InvalidRequest"))
  BY DEF NotBroken, Failure
<1>2. NotBroken(f)
  <2>1. \A i \in DOMAIN <<>> : <<>>[i] \notin C
    OBVIOUS
  <2> HIDE DEF needs, shape
  <2> QED BY <2>1, FundNotBroken
<1>3. ASSUME amount \in 1..MaxMoney, f.ok PROVE NotBroken(done)
  <2>1. IsShape(shape) /\ shape.foreign = 0 /\ shape.fixed = 1 /\ shape.blinded = 0
    BY DEF IsShape, Shape
  <2>2. o.asset = asset /\ o.value = amount /\ o.to = Wallet /\ o.key = "none" /\ o.derived
    BY DEF WalletOutput, PsetOutput
  <2>3. /\ DOMAIN needs = {asset} /\ \A a \in DOMAIN needs : needs[a] \in Nat
        /\ \A a : NeedOf(needs, a) \in Int /\ Total(head, a) = NeedOf(needs, a)
    <3>1. AsksOnly(needs, asset, head)
      <4> HIDE DEF o
      <4> QED BY <1>3, <2>2, OnlyMeets
    <3> QED BY <3>1 DEF AsksOnly
  <2>4. <<>> \in Seq(C) /\ Len(<<>>) <= 1 /\ \A i \in 1..Len(<<>>) : <<>>[i].asset = asset
    OBVIOUS
  <2>5. IsSeq(head) /\ Len(head) = 1 /\ head[1] = o
    BY One
  <2>6. OutputIsWallet(o) /\ o.to # Fee /\ ~Blinded(o)
    BY <2>2 DEF OutputIsWallet, Wallet, Fee, Blinded
  <2> HIDE DEF needs, shape, f, head, o
  <2>7. Asked(head, shape)
    <3>1. 1..Len(head) = {1} /\ 0 <= 1
      BY <2>5
    <3> QED BY <1>3, <2>1, <2>2, <2>5, <2>6, <3>1 DEF Asked
  <2>8. \A i \in 1..Len(head) : OutputIsWallet(head[i])
    <3>1. 1..Len(head) = {1}
      BY <2>5
    <3> QED BY <2>5, <2>6, <3>1
  <2>9. f = Fund(<<>>, C, needs, shape, rate)
    BY DEF f
  <2>10. C \in SUBSET C
    OBVIOUS
  <2>11. DOMAIN needs \subseteq {asset}
    BY <2>3
  <2>12. Plain(C, A, C, <<>>, asset, needs, shape, head, "OfferSplit")
    BY <2>1, <2>3, <2>4, <2>7, <2>8, <2>10, <2>11 DEF Plain
  <2> QED BY <1>3, <2>9, <2>12, PlainPasses
<1>4. res = IF ~(amount \in 1..MaxMoney) \/ ~UtxosAccepted(C) THEN Failure("InvalidRequest")
            ELSE IF ~f.ok THEN f ELSE done
  BY DEF PrepareOfferSplit, AmountAccepted
<1> HIDE DEF res, f, done
<1>5. NotBroken(res)
  BY <1>1, <1>2, <1>3, <1>4
<1> QED BY <1>5 DEF res

(* ... nor the cancel of one.                                                *)
LEMMA CancelPasses ==
    ASSUME NEW C, NEW A, Held(C, A), NEW coin \in C, NEW others \in SUBSET C, coin \notin others,
           \A c \in others : c.asset = Policy => Fits(c), NEW rate
    PROVE  NotBroken(PrepareCancel(coin, others, rate))
<1> DEFINE shape == Shape(0, FALSE, 0, 0)
           needs == <<>>
           f == Fund(<<coin>>, others, needs, shape, rate)
           done == Finish(WalletInputs(f.inputs), ChangesAndFee(f), "Cancel", Len(f.inputs))
           res == PrepareCancel(coin, others, rate)
<1>1. NotBroken(Failure("InvalidRequest")) /\ NotBroken(Failure("InsufficientFunds"))
  BY DEF NotBroken, Failure
<1>2. NotBroken(f)
  <2>1. \A i \in DOMAIN <<coin>> : <<coin>>[i] \notin others
    OBVIOUS
  <2> HIDE DEF needs, shape
  <2> QED BY <2>1, FundNotBroken
<1>3. ASSUME f.ok PROVE NotBroken(done)
  <2>1. IsShape(shape) /\ shape.foreign = 0 /\ shape.fixed = 0 /\ shape.blinded = 0
    BY DEF IsShape, Shape
  <2>2. DOMAIN needs = {}
    BY NoNeed
  <2>3. <<coin>> \in Seq(C) /\ Len(<<coin>>) <= 1 /\ \A i \in 1..Len(<<coin>>) : <<coin>>[i].asset = coin.asset
    OBVIOUS
  <2>4. coin.asset \in A /\ A \subseteq Int
    BY DEF Held, Usable
  <2>5. IsSeq(<<>>) /\ Len(<<>>) = 0 /\ 1..0 = {}
    BY NoElement
  <2>6. \A a : NeedOf(needs, a) \in Int /\ Total(<<>>, a) = NeedOf(needs, a)
    <3> HIDE DEF needs
    <3> QED BY <2>2, TotalNone DEF NeedOf
  <2>7. PICK g : g = f
    OBVIOUS
  <2>8. g = Fund(<<coin>>, others, needs, shape, rate) /\ g.ok
    BY <1>3, <2>7
  <2> HIDE DEF needs, shape, f
  <2>9. Asked(<<>>, shape)
    BY <2>1, <2>5 DEF Asked
  <2>10. DOMAIN needs \subseteq {coin.asset} /\ \A a \in DOMAIN needs : needs[a] \in Nat
    BY <2>2
  <2>11. NotBroken(Finish(WalletInputs(g.inputs), <<>> \o ChangesAndFee(g), "Cancel", Len(g.inputs)))
    <3>1. \A i \in 1..Len(<<>>) : OutputIsWallet(<<>>[i])
      BY <2>5
    <3>2. Plain(C, A, others, <<coin>>, coin.asset, needs, shape, <<>>, "Cancel")
      BY <2>1, <2>3, <2>4, <2>6, <2>9, <2>10, <3>1 DEF Plain
    <3> QED BY <2>8, <3>2, PlainPasses
  <2>12. <<>> \o ChangesAndFee(g) = ChangesAndFee(g)
    <3>1. Funded(g, C, A, shape, rate)
      BY <2>1, <2>3, <2>4, <2>8, <2>10, FundAlone
    <3>2. IsSeq(ChangesAndFee(g))
      BY <3>1, ChangesListed DEF Funded
    <3>3. PICK t : t = ChangesAndFee(g)
      OBVIOUS
    <3>4. t \in Seq({t[i] : i \in 1..Len(t)})
      BY <3>2, <3>3, IsSeqOf
    <3> QED BY <3>3, <3>4
  <2> QED BY <2>7, <2>11, <2>12
<1>4. res = IF ~UtxoAccepted(coin) \/ ~UtxosAccepted(others) THEN Failure("InvalidRequest")
            ELSE IF ~f.ok THEN f
            ELSE IF f.changes = <<>> THEN Failure("InsufficientFunds") ELSE done
  BY DEF PrepareCancel
<1> HIDE DEF res, f, done
<1>5. NotBroken(res)
  BY <1>1, <1>2, <1>3, <1>4
<1> QED BY <1>5 DEF res

(* The first input of an issuance carries it, and no other does.             *)
Issuing(ins, x) == [ins EXCEPT ![1].issuance = x]

(* What the first input of an issuance says, and the others.                 *)
IssuedFirst(own, f, x) ==
    /\ Own(own, f) /\ 1 \in 1..Len(own)
    /\ own[1].issuance = x /\ own[1].id = f.inputs[1].id
    /\ \A i \in 1..Len(own) : i # 1 => own[i].issuance = NoIssuance

(* That is what the wallet prepares.                                         *)
LEMMA IssuerIs ==
    ASSUME NEW C, NEW f, f.inputs \in Seq(C), f.inputs # <<>>, NEW x,
           NEW own, own = Issuing(WalletInputs(f.inputs), x)
    PROVE  IssuedFirst(own, f, x)
<1>1. Own(own, f)
  BY InputsOwn, IssuerOwn DEF Issuing
<1>2. Len(f.inputs) \in Nat /\ Len(f.inputs) # 0 /\ DOMAIN f.inputs = 1..Len(f.inputs)
  OBVIOUS
<1>3. 1 \in 1..Len(own) /\ 1 \in DOMAIN f.inputs /\ Len(own) = Len(f.inputs)
  BY <1>1, <1>2 DEF Own
<1>4. WalletInputs(f.inputs) = [i \in DOMAIN f.inputs |-> WalletInput(f.inputs[i], "ALL")]
  BY DEF WalletInputs
<1>5. own[1] = [WalletInput(f.inputs[1], "ALL") EXCEPT !.issuance = x]
  BY <1>3, <1>4 DEF Issuing
<1>6. own[1].issuance = x /\ own[1].id = f.inputs[1].id
  BY <1>5 DEF WalletInput
<1>7. ASSUME NEW i \in 1..Len(own), i # 1 PROVE own[i].issuance = NoIssuance
  <2>1. own[i] = WalletInput(f.inputs[i], "ALL")
    BY <1>2, <1>3, <1>4, <1>7 DEF Issuing
  <2> QED BY <2>1 DEF WalletInput
<1> QED BY <1>1, <1>3, <1>6, <1>7 DEF IssuedFirst

(* The outputs of an issuance carry what its input issues.                   *)
LEMMA IssueTotals ==
    ASSUME NEW amount \in Nat, NEW tokens \in Nat, NEW in,
           in.issuance = [amount |-> amount, tokens |-> tokens],
           NEW head, head = IssueHead(in.id, amount, tokens)
    PROVE  \A a : Issued(in, a) \in Int /\ Total(head, a) = Issued(in, a)
<1> DEFINE x == WalletOutput(IssuanceIds(in.id).asset, amount, FALSE)
           y == WalletOutput(IssuanceIds(in.id).token, tokens, FALSE)
<1>1. PICK one, two : one = IssuanceIds(in.id).asset /\ two = IssuanceIds(in.id).token
  OBVIOUS
<1>2. x.asset = one /\ x.value = amount /\ y.asset = two /\ y.value = tokens
  BY <1>1 DEF WalletOutput, PsetOutput
<1>3. head = IF tokens > 0 THEN <<x>> \o <<y>> ELSE <<x>> \o <<>>
  BY DEF IssueHead
<1> HIDE DEF x, y
<1>4. in.issuance.amount = amount /\ in.issuance.tokens = tokens
  OBVIOUS
<1> SUFFICES ASSUME NEW a PROVE Issued(in, a) \in Int /\ Total(head, a) = Issued(in, a)
  OBVIOUS
<1>5. PICK r, s : r = (IF one = a THEN amount ELSE 0) /\ s = (IF two = a THEN tokens ELSE 0)
  OBVIOUS
<1>6. Issued(in, a) = r + s /\ r \in Int /\ s \in Int
  BY <1>1, <1>4, <1>5 DEF Issued
<1>7. Valued(<<x>>) /\ Total(<<x>>, a) = r
  BY <1>2, <1>5, TotalOne
<1>8. Valued(<<y>>) /\ Total(<<y>>, a) = s
  BY <1>2, <1>5, TotalOne
<1>9. Valued(<<>>) /\ Total(<<>>, a) = 0
  BY TotalNone
<1>10. Total(head, a) = r + s
  <2>1. CASE tokens > 0
    <3>1. Total(<<x>> \o <<y>>, a) = Total(<<x>>, a) + Total(<<y>>, a)
      BY <1>7, <1>8, TotalJoined
    <3> QED BY <1>3, <1>7, <1>8, <2>1, <3>1
  <2>2. CASE ~(tokens > 0)
    <3>1. Total(<<x>> \o <<>>, a) = Total(<<x>>, a) + Total(<<>>, a)
      BY <1>7, <1>9, TotalJoined
    <3>2. s = 0
      BY <1>5, <2>2
    <3> QED BY <1>3, <1>7, <1>9, <2>2, <3>1, <3>2
  <2> QED BY <2>1, <2>2
<1> QED BY <1>6, <1>10

(* Without makers, what the first input issues is all there is.              *)
LEMMA MeetsIssued ==
    ASSUME NEW p, IsSeq(p.ins), 1 \in DOMAIN p.ins,
           \A i \in DOMAIN p.ins : i # 1 => p.ins[i].issuance = NoIssuance,
           NEW head, \A a : Issued(p.ins[1], a) \in Int /\ Total(head, a) = Issued(p.ins[1], a)
    PROVE  Meets(p, <<>>, head, <<>>)
<1> SUFFICES ASSUME NEW a
             PROVE  /\ NeedOf(<<>>, a) \in Int /\ SumFunction(IssuedBy(p, a)) \in Int
                    /\ (Total(<<>>, a) + NeedOf(<<>>, a)) + SumFunction(IssuedBy(p, a)) = Total(head, a)
  BY DEF Meets
<1>1. PICK g, D : g = IssuedBy(p, a) /\ D = DOMAIN p.ins
  OBVIOUS
<1>2. DOMAIN g = D /\ \A i \in D : g[i] = Issued(p.ins[i], a)
  BY <1>1 DEF IssuedBy
<1>3. IsFiniteSet(D)
  <2>1. D = 1..Len(p.ins) /\ Len(p.ins) \in Nat
    BY <1>1, IsSeqOf DEF IsSeq
  <2> QED BY <2>1, FS_Interval
<1>4. 1 \in D /\ g[1] \in Int /\ g[1] = Total(head, a)
  BY <1>1, <1>2
<1>5. \A i \in D : i # 1 => g[i] = 0
  BY <1>1, <1>2 DEF Issued, NoIssuance
<1>6. SumFunctionOnSet(g, D) = g[1]
  BY <1>3, <1>4, <1>5, SumSingle
<1>7. NeedOf(<<>>, a) = 0
  BY NoNeed DEF NeedOf
<1>8. PICK x, y, z, s : x = Total(<<>>, a) /\ y = NeedOf(<<>>, a) /\ z = Total(head, a) /\ s = SumFunction(IssuedBy(p, a))
  OBVIOUS
<1>9. x = 0 /\ y = 0 /\ s = z /\ z \in Int
  BY <1>1, <1>2, <1>4, <1>6, <1>7, <1>8, TotalNone DEF SumFunction
<1>10. s \in Int /\ y \in Int /\ (x + y) + s = z
  BY ONLY <1>9
<1> QED BY <1>8, <1>10

(* An issuance is never refused as invalid, ...                              *)
LEMMA IssuePasses ==
    ASSUME NEW C, NEW A, Held(C, A), \A c \in C : c.asset = Policy => Fits(c),
           NEW amount, NEW tokens \in Nat, NEW rate
    PROVE  NotBroken(PrepareIssuance(C, amount, tokens, rate))
<1> DEFINE shape == Shape(0, TRUE, Heads(tokens), 0)
           f == Fund(<<>>, C, <<>>, shape, rate)
           x == [amount |-> amount, tokens |-> tokens]
           own == Issuing(WalletInputs(f.inputs), x)
           head == IssueHead(f.inputs[1].id, amount, tokens)
           done == Finish(own, head \o ChangesAndFee(f), "Issuance", Len(f.inputs))
           res == PrepareIssuance(C, amount, tokens, rate)
<1>1. NotBroken(Failure("InvalidRequest"))
  BY DEF NotBroken, Failure
<1>2. NotBroken(f)
  <2>1. \A i \in DOMAIN <<>> : <<>>[i] \notin C
    OBVIOUS
  <2> HIDE DEF shape
  <2> QED BY <2>1, FundNotBroken
<1>3. ASSUME amount \in 1..MaxMoney, ~(tokens > MaxMoney), f.ok PROVE NotBroken(done)
  <2>1. IsShape(shape) /\ shape.foreign = 0 /\ shape.fixed = Heads(tokens) /\ shape.blinded = 0
    BY DEF IsShape, Shape, Heads
  <2>2. PICK g, w, h : g = f /\ w = own /\ h = head
    OBVIOUS
  <2>3. g = Fund(<<>>, C, <<>>, shape, rate) /\ g.ok
    BY <1>3, <2>2
  <2>4. w = Issuing(WalletInputs(g.inputs), x) /\ h = IssueHead(g.inputs[1].id, amount, tokens)
    BY <2>2
  <2>5. Policy \in A /\ \A c \in C : c.value \in 1..MaxMoney /\ c.owner = Wallet
    BY DEF Held, Usable
  <2>6. amount \in Nat /\ amount # 0 /\ tokens \in 0..MaxMoney
    BY <1>3, BoundsAssumption
  <2>6a. x.amount = amount /\ x.tokens = tokens
    OBVIOUS
  <2> HIDE DEF f, own, head, shape
  <2>7. Funded(g, C, A, shape, rate) /\ Balanced(g, <<>>, shape) /\ rate \in 1..MaxFeeRate
    <3>1. <<>> \in Seq(C) /\ Len(<<>>) <= 1 /\ \A i \in 1..Len(<<>>) : <<>>[i].asset = Policy
      OBVIOUS
    <3>2. DOMAIN <<>> \subseteq {Policy} /\ \A a \in DOMAIN <<>> : <<>>[a] \in Nat
      OBVIOUS
    <3>3. PICK none : none = <<>>
      OBVIOUS
    <3>4. none \in Seq(C) /\ Len(none) <= 1 /\ \A i \in 1..Len(none) : none[i].asset = Policy
      BY <3>1, <3>3
    <3>5. DOMAIN none \subseteq {Policy}
      BY <3>2, <3>3
    <3>6. \A a \in DOMAIN none : none[a] \in Nat
      BY <3>2, <3>3
    <3>7. g = Fund(none, C, none, shape, rate)
      BY <2>3, <3>3
    <3>8. C \in SUBSET C /\ g.ok /\ IsShape(shape)
      BY <2>1, <2>3
    <3>9. Funded(g, C, A, shape, rate) /\ Balanced(g, none, shape) /\ rate \in 1..MaxFeeRate
      BY <2>5, <3>4, <3>5, <3>6, <3>7, <3>8, FundAlone
    <3> QED BY <3>3, <3>9
  <2>8. g.inputs \in Seq(C) /\ g.inputs # <<>> /\ g.changes \in Seq(Change(A))
    BY <2>7 DEF Funded
  <2>9. /\ Own(w, g) /\ 1 \in 1..Len(w)
        /\ w[1].issuance = x /\ w[1].id = g.inputs[1].id
        /\ \A i \in 1..Len(w) : i # 1 => w[i].issuance = NoIssuance
    <3>1. w = Issuing(WalletInputs(g.inputs), x)
      BY <2>4
    <3>2. g.inputs \in Seq(C)
      BY <2>8
    <3>3. g.inputs # <<>>
      BY <2>8
    <3> HIDE DEF x
    <3>4. IssuedFirst(w, g, x)
      BY ONLY <3>1, <3>2, <3>3, IssuerIs
    <3> QED BY <3>4 DEF IssuedFirst
  <2>10. PICK p : p = FundedPset(<<>>, w, h, g)
    OBVIOUS
  <2>11. p = [genesis |-> Genesis, ins |-> w, outs |-> h \o ChangesAndFee(g)] /\ p.ins = w
    BY <2>9, <2>10, NoMakers DEF FundedPset
  <2>12. IsSeq(w) /\ DOMAIN w = 1..Len(w) /\ Len(w) = Len(g.inputs)
    BY <2>9, IsSeqOf DEF Own
  <2>13. h = IssueHead(w[1].id, amount, tokens) /\ w[1].issuance = [amount |-> amount, tokens |-> tokens]
    BY <2>4, <2>9
  <2>14. \A a : Issued(w[1], a) \in Int /\ Total(h, a) = Issued(w[1], a)
    BY <2>6, <2>13, IssueTotals
  <2>15. Meets(p, <<>>, h, <<>>)
    <3>1. IsSeq(p.ins) /\ 1 \in DOMAIN p.ins /\ \A i \in DOMAIN p.ins : i # 1 => p.ins[i].issuance = NoIssuance
      BY <2>9, <2>11, <2>12
    <3>2. \A a : Issued(p.ins[1], a) \in Int /\ Total(h, a) = Issued(p.ins[1], a)
      BY <2>11, <2>14
    <3> QED BY <3>1, <3>2, MeetsIssued
  <2>16. IssuesRight(p, <<>>, "Issuance")
    <3>1. ExplicitIssuance(x)
      BY <1>3, <2>6, <2>6a DEF ExplicitIssuance
    <3> QED BY <2>9, <2>11, <2>12, <3>1 DEF IssuesRight
  <2>17. Asked(h, shape)
    <3>1. /\ IsSeq(h) /\ Len(h) = Heads(tokens)
          /\ h[1] = WalletOutput(IssuanceIds(w[1].id).asset, amount, FALSE)
          /\ tokens > 0 => h[2] = WalletOutput(IssuanceIds(w[1].id).token, tokens, FALSE)
      <4>1. PICK id : id = w[1].id
        OBVIOUS
      <4>2. h = IssueHead(id, amount, tokens)
        BY <2>13, <4>1
      <4>3. /\ IsSeq(h) /\ Len(h) = IF tokens > 0 THEN 2 ELSE 1
            /\ h[1] = WalletOutput(IssuanceIds(id).asset, amount, FALSE)
            /\ tokens > 0 => h[2] = WalletOutput(IssuanceIds(id).token, tokens, FALSE)
        BY ONLY <4>2, IssueHeads
      <4> QED BY <4>1, <4>3 DEF Heads
    <3>2. \A i \in 1..Len(h) : i = 1 \/ (i = 2 /\ tokens > 0)
      BY <3>1 DEF Heads
    <3>3. ASSUME NEW i \in 1..Len(h)
          PROVE  h[i].value \in 1..MaxMoney /\ h[i].to # Fee /\ ~Blinded(h[i])
      <4>1. PICK o, a, v : o = h[i] /\ o = WalletOutput(a, v, FALSE) /\ (v = amount \/ (v = tokens /\ tokens > 0))
        BY <3>1, <3>2
      <4>2. v \in 1..MaxMoney
        BY <1>3, <2>6, <4>1
      <4>3. o.value = v /\ o.to = Wallet /\ o.key = "none"
        BY <4>1 DEF WalletOutput, PsetOutput
      <4> QED BY <4>1, <4>2, <4>3 DEF Blinded, Wallet, Fee
    <3>4. 0 <= Len(h)
      BY <3>1 DEF Heads
    <3> QED BY <2>1, <3>1, <3>3, <3>4 DEF Asked
  <2>18. Assembled(p, g, <<>>, h)
    <3>1. IsSeq(h) /\ IsSeq(<<>>)
      BY <2>17, NoElement DEF Asked
    <3> QED BY <2>8, <2>9, <2>10, <3>1, Assembles DEF FundedPset
  <2>19. KindAccepted(p, "Issuance")
    <3>1. {i \in DOMAIN p.ins : ~p.ins[i].derived} = {}
      BY <2>8, <2>18, AllDerived
    <3>2. Cardinality({i \in DOMAIN p.ins : ~p.ins[i].derived}) = 0
      BY <3>1, FS_EmptySet
    <3>3. x # NoIssuance
      BY <2>6, <2>6a DEF NoIssuance
    <3>4. \E i \in DOMAIN p.ins : p.ins[i].issuance # NoIssuance
      BY <2>9, <2>11, <2>12, <3>3
    <3>5. 0 < Len(p.ins)
      BY <2>9, <2>11, <2>12 DEF IsSeq
    <3> QED BY <3>2, <3>4, <3>5 DEF KindAccepted
  <2>20. Brings(p, <<>>, g, "Issuance") /\ "Issuance" # "SwapOffer" /\ shape.foreign = Len(<<>>)
    BY <2>1, BringsNone, NoElement
  <2>21. NotBroken(ReviewPset(p, "Issuance"))
    <3> HIDE DEF x
    <3> QED BY <2>1, <2>5, <2>7, <2>9, <2>10, <2>15, <2>16, <2>17, <2>19, <2>20, FundedPasses
  <2>22. PICK outs : outs = h \o ChangesAndFee(g)
    OBVIOUS
  <2>23. p = [genesis |-> Genesis, ins |-> w, outs |-> outs]
    BY <2>11, <2>22
  <2>24. NotBroken(Finish(w, outs, "Issuance", Len(g.inputs)))
    BY ONLY <2>12, <2>21, <2>23, FinishPasses
  <2> QED BY <2>2, <2>22, <2>24
<1>4. res = IF ~(amount \in 1..MaxMoney) \/ tokens > MaxMoney \/ ~UtxosAccepted(C)
            THEN Failure("InvalidRequest")
            ELSE IF ~f.ok THEN f ELSE done
  BY DEF PrepareIssuance, AmountAccepted, IssueHead, Heads, Issuing
<1> HIDE DEF res, f, done
<1>5. NotBroken(res)
  BY <1>1, <1>2, <1>3, <1>4
<1> QED BY <1>5 DEF res

(* ... and neither is an offer.                                              *)
LEMMA OfferPasses ==
    ASSUME NEW coin, NEW want, NEW amount
    PROVE  NotBroken(PrepareSwapOffer(coin, want, amount))
<1> DEFINE in == WalletInput(coin, KindSighash("SwapOffer"))
           o == WalletOutput(want, amount, FALSE)
           ins == <<in>>
           outs == <<o>>
           p == [genesis |-> Genesis, ins |-> ins, outs |-> outs]
           done == Finish(ins, outs, "SwapOffer", 0)
           res == PrepareSwapOffer(coin, want, amount)
<1>1. NotBroken(Failure("InvalidRequest")) /\ NotBroken(Failure("Confidential"))
  BY DEF NotBroken, Failure
<1>2. ASSUME amount \in 1..MaxMoney, UtxoAccepted(coin), coin.asset # want, ~coin.conf
      PROVE  NotBroken(done)
  <2>1. /\ in.asset = coin.asset /\ in.value = coin.value /\ in.conf = coin.conf
        /\ in.script = coin.owner /\ in.derived /\ in.witness = NoSig
        /\ in.sighash = KindSighash("SwapOffer") /\ in.issuance = NoIssuance
    BY DEF WalletInput
  <2>2. /\ o.asset = want /\ o.value = amount /\ o.to = Wallet /\ o.derived /\ o.key = "none"
    BY DEF WalletOutput, PsetOutput
  <2>3. coin.value \in 1..MaxMoney /\ coin.owner = Wallet
    BY <1>2 DEF UtxoAccepted
  <2> HIDE DEF in, o
  <2>4. IsSeq(ins) /\ Len(ins) = 1 /\ IsSeq(outs) /\ Len(outs) = 1
    BY One
  <2>5. DOMAIN ins = {1} /\ ins[1] = in /\ DOMAIN outs = {1} /\ outs[1] = o
    OBVIOUS
  <2>6. p.genesis = Genesis /\ p.ins = ins /\ p.outs = outs
    OBVIOUS
  <2>7. PICK q : q = p
    OBVIOUS
  <2>8. q.genesis = Genesis /\ q.ins = ins /\ q.outs = outs /\ q = [genesis |-> Genesis, ins |-> ins, outs |-> outs]
    BY <2>6, <2>7
  <2> HIDE DEF ins, outs
  <2>9. ~Blinded(o) /\ OutputIsWallet(o) /\ o.to # Fee
    BY <2>2 DEF Blinded, OutputIsWallet, Wallet, Fee
  <2>10. ~Confidential(q)
    BY <1>2, <2>1, <2>5, <2>8, <2>9 DEF Confidential, AnyConfidential
  <2>11. InputAccepted(q, 1, "SwapOffer")
    BY <1>2, <2>1, <2>3, <2>5, <2>8 DEF InputAccepted, InputIsWallet
  <2>12. OutputAccepted(q, 1)
    BY <1>2, <2>2, <2>5, <2>8, <2>9 DEF OutputAccepted
  <2>13. KindAccepted(q, "SwapOffer")
    <3>1. {i \in DOMAIN q.ins : ~q.ins[i].derived} = {}
      BY <2>1, <2>5, <2>8
    <3>2. Cardinality({i \in DOMAIN q.ins : ~q.ins[i].derived}) = 0
      BY <3>1, FS_EmptySet
    <3>3. FeeOutputs(q) = {} /\ External(q) = {}
      BY <2>5, <2>8, <2>9 DEF FeeOutputs, External
    <3>4. q.ins[1].asset # q.outs[1].asset
      BY <1>2, <2>1, <2>2, <2>5, <2>8
    <3>5. PICK foreign : foreign = Cardinality({i \in DOMAIN q.ins : ~q.ins[i].derived})
      OBVIOUS
    <3>6. foreign = 0 /\ Len(q.ins) = 1 /\ Len(q.outs) = 1 /\ foreign < Len(q.ins)
      BY <2>4, <2>8, <3>2, <3>5
    <3>7. PICK kind : kind = "SwapOffer"
      OBVIOUS
    <3>8. kind \notin {"Transfer", "OfferSplit", "Cancel", "Issuance", "SwapTake"}
      BY <3>7
    <3>9. KindAccepted(q, kind)
      BY <3>3, <3>4, <3>5, <3>6, <3>8 DEF KindAccepted
    <3> QED BY <3>7, <3>9
  <2>14. Checked(q, "SwapOffer")
    BY <2>5, <2>8, <2>10, <2>11, <2>12, <2>13 DEF Checked
  <2>15. Separate(q.ins)
    <3>0. Len(q.ins) = 1
      BY <2>4, <2>8
    <3>1. \A i \in 1..Len(q.ins) : i = 1
      BY <3>0
    <3> QED BY <3>1 DEF Separate
  <2>16. NotBroken(ReviewPset(q, "SwapOffer"))
    BY <2>4, <2>8, <2>14, <2>15, ReviewPasses
  <2>17. ~\E i \in DOMAIN outs : Blinded(outs[i])
    BY <2>5, <2>9
  <2> QED BY <2>8, <2>16, <2>17, FinishPasses
<1>3. res = IF ~(amount \in 1..MaxMoney) \/ ~UtxoAccepted(coin) \/ coin.asset = want
            THEN Failure("InvalidRequest")
            ELSE IF coin.conf THEN Failure("Confidential") ELSE done
  BY DEF PrepareSwapOffer, AmountAccepted
<1> HIDE DEF res, done
<1>4. NotBroken(res)
  BY <1>1, <1>2, <1>3
<1> QED BY <1>4 DEF res

-----------------------------------------------------------------------------
(* Takes: the offers of the makers, and the PSET around them.                *)

(* What legs of one asset add up to, and outputs or inputs that carry them.  *)
AddsUp(sums, t, s) ==
    /\ DOMAIN sums = {t} /\ sums[t] \in Nat /\ sums[t] > 0
    /\ Valued(s) /\ \A a : Total(s, a) = IF a = t THEN sums[t] ELSE 0
    /\ \A i \in 1..Len(s) : s[i].value <= sums[t]

(* Their sums are what outputs or inputs of the same amounts carry.          *)
LEMMA LegsAddUp ==
    ASSUME NEW t, NEW legs, IsSeq(legs), Len(legs) > 0,
           \A i \in 1..Len(legs) : legs[i].asset = t /\ legs[i].amount \in Nat /\ legs[i].amount > 0,
           NEW s, IsSeq(s), Len(s) = Len(legs),
           \A i \in 1..Len(s) : s[i].asset = t /\ s[i].value = legs[i].amount
    PROVE  AddsUp(LegSums(legs), t, s)
<1>1. PICK n, sums, amounts : /\ n = Len(legs) /\ sums = LegSums(legs)
                              /\ amounts = [i \in DOMAIN legs |-> legs[i].amount]
  OBVIOUS
<1>2. n \in Nat /\ n > 0 /\ DOMAIN legs = 1..n /\ Len(s) = n
  BY <1>1, IsSeqOf DEF IsSeq
<1>3. 1 \in 1..n /\ IsFiniteSet(1..n) /\ 1..n # {}
  <2>1. 1 \in 1..n
    BY <1>2
  <2>2. 1..n \in SUBSET (1..n)
    OBVIOUS
  <2>3. IsFiniteSet(1..n)
    BY <1>2, <2>2, Positions
  <2> QED BY <2>1, <2>3
<1>4. \A i \in 1..n : amounts[i] \in Nat /\ amounts[i] > 0 /\ amounts[i] \in Int /\ amounts[i] = s[i].value
  BY <1>1, <1>2
<1>5. DOMAIN sums = {t} /\ sums[t] = SumFunctionOnSet(amounts, 1..n)
  <2>1. {legs[i].asset : i \in DOMAIN legs} = {t}
    BY <1>1, <1>2, <1>3
  <2>2. {i \in DOMAIN legs : legs[i].asset = t} = 1..n
    BY <1>1, <1>2
  <2>3. sums = [a \in {legs[i].asset : i \in DOMAIN legs} |->
                  SumFunctionOnSet(amounts, {i \in DOMAIN legs : legs[i].asset = a})]
    BY <1>1 DEF LegSums
  <2> QED BY <2>1, <2>2, <2>3
<1>6. sums[t] \in Nat /\ sums[t] > 0
  <2>1. PICK D : D = 1..n
    OBVIOUS
  <2>2. IsFiniteSet(D) /\ D # {} /\ \A i \in D : amounts[i] \in Nat /\ amounts[i] > 0
    BY <1>3, <1>4, <2>1
  <2>3. SumFunctionOnSet(amounts, D) \in Nat /\ SumFunctionOnSet(amounts, D) > 0
    BY <2>2, SumPositive
  <2> QED BY <1>5, <2>1, <2>3
<1>7. Valued(s)
  BY <1>2, <1>4 DEF Valued
<1>8. ASSUME NEW i \in 1..n PROVE s[i].value <= sums[t]
  <2>1. SumFunctionOnSet(amounts, {i}) <= SumFunctionOnSet(amounts, 1..n)
    BY <1>3, <1>4, SumSubset
  <2>2. SumFunctionOnSet(amounts, {i}) = amounts[i]
    BY <1>4, SumOne
  <2> QED BY <1>4, <1>5, <2>1, <2>2
<1>9. Total(s, t) = sums[t]
  <2>1. Places(s, t) = 1..n
    BY <1>2 DEF Places
  <2>2. Total(s, t) = SumFunctionOnSet(Values(s), 1..n) /\ \A i \in 1..n : Values(s)[i] = s[i].value
    BY <1>2, <1>7, <2>1, TotalIs
  <2>3. SumFunctionOnSet(Values(s), 1..n) = SumFunctionOnSet(amounts, 1..n)
    <3>1. PICK D, f : D = 1..n /\ f = Values(s)
      OBVIOUS
    <3>2. IsFiniteSet(D) /\ \A i \in D : f[i] = amounts[i]
      BY <1>3, <1>4, <2>2, <3>1
    <3>3. SumFunctionOnSet(f, D) = SumFunctionOnSet(amounts, D)
      BY <3>2, SumSame
    <3> QED BY <3>1, <3>3
  <2> QED BY <1>5, <2>2, <2>3
<1>10. \A a : a # t => Total(s, a) = 0
  BY <1>2, <1>7, TotalOther
<1> QED BY <1>1, <1>2, <1>5, <1>6, <1>7, <1>8, <1>9, <1>10 DEF AddsUp

(* As many ids as elements: no two elements have the same.                   *)
LEMMA CountedSeparate ==
    ASSUME NEW s, IsSeq(s), ~(Cardinality({s[i].id : i \in DOMAIN s}) < Len(s))
    PROVE  Separate(s)
<1>1. PICK D, T, f : D = DOMAIN s /\ T = {s[k].id : k \in DOMAIN s} /\ f = [k \in D |-> s[k].id]
  OBVIOUS
<1>2. D = 1..Len(s) /\ Len(s) \in Nat
  BY <1>1, IsSeqOf DEF IsSeq
<1>3. IsFiniteSet(D) /\ Cardinality(D) = Len(s)
  <2>1. PICK n \in Nat : n = Len(s) /\ D = 1..n
    BY <1>2
  <2>2. Cardinality(1..n) = IF 1 > n THEN 0 ELSE n - 1 + 1
    BY ONLY n \in Nat, FS_Interval
  <2>3. IsFiniteSet(1..n)
    BY ONLY n \in Nat, Positions
  <2> QED BY <2>1, <2>2, <2>3
<1>4. f \in Surjection(D, T)
  BY <1>1 DEF Surjection
<1>5. IsFiniteSet(T) /\ Cardinality(T) <= Cardinality(D)
  BY <1>3, <1>4, FS_Surjection
<1>6. Cardinality(T) \in Nat /\ ~(Cardinality(T) < Len(s))
  BY <1>1, <1>5, FS_CardinalityType
<1>7. Cardinality(D) = Cardinality(T)
  BY <1>2, <1>3, <1>5, <1>6
<1>8. f \in Injection(D, T)
  BY <1>3, <1>4, <1>7, FS_SurjSameCardinalityImpliesInj
<1>9. \A i, j \in D : f[i] = f[j] => i = j
  BY <1>8 DEF Injection, IsInjective
<1> QED BY <1>1, <1>2, <1>9 DEF Separate

(* An offer that verifies with its coin.                                     *)
Deal(o, c) ==
    /\ OfferVerifies(o, c) /\ c.value \in 1..MaxMoney /\ o.out.value \in Int
    /\ o.out = [asset |-> o.out.asset, value |-> o.out.value, to |-> o.out.to, key |-> o.out.key]

(* What it says of its coin, its input and its output.                       *)
Says(o, c, in, out) ==
    /\ in.id = o.id /\ in.asset = o.give.asset /\ in.value = o.give.amount /\ in.value \in 1..MaxMoney
    /\ ~in.conf /\ ~in.derived /\ in.sighash = "none" /\ in.witness = o.sig /\ o.sig # NoSig
    /\ in.script = c.owner /\ in.issuance = NoIssuance
    /\ out.asset = o.want.asset /\ out.value = o.want.amount /\ out.value \in Nat /\ out.value > 0
    /\ out.to # Fee /\ ~out.derived /\ ~Blinded(out)
    /\ o.sig.flag = "SINGLE|ANYONECANPAY"
    /\ o.sig = [flag |-> o.sig.flag, by |-> c.owner, over |-> [ins |-> <<TxIn(in)>>, outs |-> <<TxOut(out)>>]]

(* All of it follows from the verification.                                  *)
LEMMA OfferSays ==
    ASSUME NEW o, NEW c, Deal(o, c), NEW in, in = MakerInput(o, c), NEW out, out = MakerOutput(o)
    PROVE  Says(o, c, in, out)
<1>1. PICK a, v, t, k, s : a = o.out.asset /\ v = o.out.value /\ t = o.out.to /\ k = o.out.key /\ s = o.sig
  OBVIOUS
<1>2. PICK tx : tx = [ins |-> <<SpentCoin(c)>>, outs |-> <<o.out>>]
  OBVIOUS
<1>3. /\ o.id = c.id /\ v > 0 /\ k = "none" /\ t # Fee /\ ~c.conf
      /\ WitnessVerifies(tx, 1, s, c.owner) /\ s.flag = "SINGLE|ANYONECANPAY"
      /\ o.give = [asset |-> c.asset, amount |-> c.value]
      /\ o.want = [asset |-> a, amount |-> v]
  BY <1>1, <1>2 DEF Deal, OfferVerifies
<1>4. /\ in.id = c.id /\ in.asset = c.asset /\ in.value = c.value /\ ~in.conf /\ ~in.derived
      /\ in.sighash = "none" /\ in.witness = s /\ in.script = c.owner /\ in.issuance = NoIssuance
  BY <1>1 DEF MakerInput
<1>4a. c.value \in 1..MaxMoney /\ v \in Int
       /\ o.out = [asset |-> a, value |-> v, to |-> t, key |-> k]
  BY <1>1 DEF Deal
<1>5. out = [asset |-> a, value |-> v, to |-> t, derived |-> FALSE, key |-> k, opens |-> <<a, v>>]
  BY <1>1 DEF MakerOutput, PsetOutput
<1>6. s # NoSig /\ s = Signature(tx, 1, s.flag, c.owner)
  BY <1>3 DEF WitnessVerifies
<1>7. SighashData(tx, 1, "SINGLE|ANYONECANPAY") = [ins |-> <<tx.ins[1]>>, outs |-> <<tx.outs[1]>>]
  <2>1. 1 \in DOMAIN tx.outs
    BY <1>2
  <2> QED BY <2>1 DEF SighashData
<1>8. tx.ins[1] = TxIn(in)
  BY <1>2, <1>3, <1>4 DEF TxIn, SpentCoin, Commitment
<1>9. tx.outs[1] = TxOut(out)
  BY <1>2, <1>3, <1>4a, <1>5 DEF TxOut, Blinded
<1>10. s = [flag |-> s.flag, by |-> c.owner, over |-> [ins |-> <<TxIn(in)>>, outs |-> <<TxOut(out)>>]]
  <2>1. PICK x, y : x = TxIn(in) /\ y = TxOut(out)
    OBVIOUS
  <2> QED BY <1>3, <1>6, <1>7, <1>8, <1>9, <2>1 DEF Signature
<1>11. v \in Int /\ v \in Nat
  BY <1>3, <1>4a
<1> QED BY <1>1, <1>3, <1>4, <1>4a, <1>5, <1>6, <1>10, <1>11 DEF Says, Blinded

(* Offers that a swap takes: verified with their coins, of one pair.         *)
Takes(s, fetched, sell, buy) ==
    /\ IsSeq(s) /\ Len(s) > 0
    /\ \A i \in 1..Len(s) :
         /\ Deal(s[i], fetched[i])
         /\ s[i].give.asset = buy /\ s[i].want.asset = sell

(* Every maker's signature is valid in the PSET put together for them.       *)
LEMMA SwapAccepted ==
    ASSUME NEW s, NEW fetched, NEW sell, NEW buy, Takes(s, fetched, sell, buy),
           NEW makers, NEW head, NEW A, Taken(s, fetched, makers, head, A), IsSeq(head),
           NEW p, NEW f, Assembled(p, f, makers, head), NEW C, f.inputs \in Seq(C), f.inputs # <<>>,
           f.changes \in Seq(Change(A)), \A i \in DOMAIN p.ins : p.ins[i].issuance = NoIssuance
    PROVE  KindAccepted(p, "SwapTake")
<1>1. PICK n : n = Len(s)
  OBVIOUS
<1>2. n \in Nat /\ n > 0 /\ IsSeq(s)
  BY <1>1 DEF Takes, IsSeq
<1>3. Trades(p, s, sell, buy)
  <2>1. \A i \in 1..Len(s) : s[i].give.asset = buy /\ s[i].want.asset = sell
    BY DEF Takes
  <2> QED BY <1>2, <2>1, SwapTrades
<1>4. {i \in DOMAIN p.ins : ~p.ins[i].derived} = 1..n
  BY <1>1, <1>3 DEF Trades
<1>5. PICK foreign : foreign = Cardinality({i \in DOMAIN p.ins : ~p.ins[i].derived})
  OBVIOUS
<1>6. foreign = n
  <2>1. Cardinality(1..n) = IF 1 > n THEN 0 ELSE n - 1 + 1
    BY <1>2, FS_Interval
  <2>2. Cardinality(1..n) = n
    BY <1>2, <2>1
  <2> QED BY <1>4, <1>5, <2>2
<1>7. foreign > 0 /\ foreign < Len(p.ins) /\ Len(p.outs) > foreign
  <2>1. PICK l, k, h, m : l = Len(f.inputs) /\ k = Len(f.changes) /\ h = Len(head) /\ m = Len(makers)
    OBVIOUS
  <2>2. l \in Nat /\ l # 0 /\ k \in Nat
    BY <2>1
  <2>3. h \in Nat /\ h >= n /\ m = n
    BY <1>1, <2>1 DEF Taken, IsSeq
  <2>4. Len(p.ins) = m + l /\ Len(p.outs) = h + k + 1
    BY <2>1 DEF Assembled
  <2> QED BY <1>2, <1>6, <2>2, <2>3, <2>4
<1>8. ASSUME NEW i \in 1..n
      PROVE  /\ ~p.ins[i].derived /\ ~p.outs[i].derived /\ p.outs[i].to # Fee
             /\ WitnessVerifies(UnsignedTx(p), i, p.ins[i].witness, p.ins[i].script)
             /\ p.ins[i].witness.flag = "SINGLE|ANYONECANPAY"
  <2>1. PICK o, c, in, out : o = s[i] /\ c = fetched[i] /\ in = p.ins[i] /\ out = p.outs[i]
    OBVIOUS
  <2>2. i \in 1..Len(makers) /\ i \in 1..Len(head)
    <3>1. Len(makers) = n /\ Len(head) \in Nat /\ Len(head) >= n
      BY <1>1 DEF Taken, IsSeq
    <3> QED BY <1>2, <3>1
  <2>3. in = MakerInput(o, c) /\ out = MakerOutput(o)
    BY <1>1, <2>1, <2>2 DEF Taken, Assembled
  <2>4. Deal(o, c)
    BY <1>1, <2>1 DEF Takes
  <2>5. /\ ~in.derived /\ in.witness = o.sig /\ o.sig # NoSig /\ in.script = c.owner
        /\ out.to # Fee /\ ~out.derived /\ o.sig.flag = "SINGLE|ANYONECANPAY"
        /\ o.sig = [flag |-> o.sig.flag, by |-> c.owner, over |-> [ins |-> <<TxIn(in)>>, outs |-> <<TxOut(out)>>]]
    <3>1. Says(o, c, in, out)
      BY ONLY <2>3, <2>4, OfferSays
    <3> QED BY <3>1 DEF Says
  <2>6. i \in DOMAIN p.ins /\ i \in DOMAIN p.outs
    BY <1>1, <1>3 DEF Trades
  <2>7. PICK x, y, tx : x = TxIn(in) /\ y = TxOut(out) /\ tx = UnsignedTx(p)
    OBVIOUS
  <2>8. tx.ins[i] = x /\ i \in DOMAIN tx.outs /\ tx.outs[i] = y
    BY <2>1, <2>6, <2>7 DEF UnsignedTx
  <2>9. SighashData(tx, i, "SINGLE|ANYONECANPAY") = [ins |-> <<x>>, outs |-> <<y>>]
    BY <2>8 DEF SighashData
  <2>10. o.sig = Signature(tx, i, o.sig.flag, c.owner)
    BY <2>5, <2>7, <2>9 DEF Signature
  <2>11. WitnessVerifies(tx, i, o.sig, c.owner)
    BY <2>5, <2>10 DEF WitnessVerifies
  <2> QED BY <2>1, <2>5, <2>7, <2>11
<1>9. PICK kind : kind = "SwapTake"
  OBVIOUS
<1>10. kind \notin {"Transfer", "OfferSplit", "Cancel", "Issuance", "SwapOffer"}
  BY <1>9
<1>11. ~(\E i \in DOMAIN p.ins : p.ins[i].issuance # NoIssuance)
  OBVIOUS
<1>12. KindAccepted(p, kind)
  BY <1>5, <1>6, <1>7, <1>8, <1>10, <1>11 DEF KindAccepted
<1> QED BY <1>9, <1>12

(* The makers' inputs of a take are accepted, told apart, and none is a coin *)
(* of the wallet that may be spent with them.                                *)
LEMMA SwapBrings ==
    ASSUME NEW s, NEW fetched, NEW sell, NEW buy, Takes(s, fetched, sell, buy),
           ~(Cardinality({s[i].id : i \in DOMAIN s}) < Len(s)),
           NEW makers, Valued(makers), Len(makers) = Len(s),
           \A i \in 1..Len(s) : makers[i] = MakerInput(s[i], fetched[i]),
           NEW C, \A c \in C : c.id \notin {s[i].id : i \in DOMAIN s}, NEW f, f.inputs \in Seq(C),
           NEW p, \A i \in 1..Len(makers) : p.ins[i] = makers[i]
    PROVE  Brings(p, makers, f, "SwapTake")
<1>1. DOMAIN s = 1..Len(s)
  BY IsSeqOf DEF Takes
<1>2. ASSUME NEW i \in 1..Len(s)
      PROVE  makers[i].id = s[i].id /\ ~makers[i].conf /\ InputAccepted(p, i, "SwapTake")
  <2>1. PICK o, c, in, out : o = s[i] /\ c = fetched[i] /\ in = makers[i] /\ out = MakerOutput(o)
    OBVIOUS
  <2>2. Deal(o, c)
    BY <2>1 DEF Takes
  <2>3. in = MakerInput(o, c) /\ p.ins[i] = in /\ out = MakerOutput(o)
    BY <2>1
  <2>4. /\ in.id = o.id /\ in.value \in 1..MaxMoney /\ ~in.conf /\ ~in.derived /\ in.sighash = "none"
        /\ in.witness = o.sig /\ o.sig # NoSig /\ in.issuance = NoIssuance
    <3>1. Says(o, c, in, out)
      BY ONLY <2>2, <2>3, OfferSays
    <3> QED BY <3>1 DEF Says
  <2>5. InputAccepted(p, i, "SwapTake")
    BY <2>3, <2>4 DEF InputAccepted
  <2> QED BY <2>1, <2>4, <2>5
<1>3. Separate(makers)
  <2>1. Separate(s)
    BY CountedSeparate DEF Takes
  <2> QED BY <1>2, <2>1 DEF Separate
<1>4. \A i \in 1..Len(makers), j \in 1..Len(f.inputs) : makers[i].id # f.inputs[j].id
  <2> SUFFICES ASSUME NEW i \in 1..Len(makers), NEW j \in 1..Len(f.inputs)
               PROVE  makers[i].id # f.inputs[j].id
    OBVIOUS
  <2>1. f.inputs[j] \in C
    OBVIOUS
  <2>2. makers[i].id = s[i].id /\ i \in DOMAIN s
    BY <1>1, <1>2
  <2> QED BY <2>1, <2>2
<1> QED BY <1>2, <1>3, <1>4 DEF Brings

(* The makers' side of a take, ...                                           *)
Sides(s, fetched, wants, gives, makers, paid) ==
    /\ wants = [i \in DOMAIN s |-> s[i].want] /\ gives = [i \in DOMAIN s |-> s[i].give]
    /\ makers = [i \in DOMAIN s |-> MakerInput(s[i], fetched[i])]
    /\ paid = [i \in DOMAIN s |-> MakerOutput(s[i])]

(* ... and what is known of it.                                              *)
Parts(s, fetched, sell, buy, needs, receives, makers, paid) ==
    /\ AddsUp(needs, sell, paid) /\ AddsUp(receives, buy, makers)
    /\ Len(paid) = Len(s) /\ Len(makers) = Len(s)
    /\ \A i \in 1..Len(s) :
         /\ makers[i] = MakerInput(s[i], fetched[i]) /\ paid[i] = MakerOutput(s[i])
         /\ paid[i].to # Fee /\ ~Blinded(paid[i]) /\ paid[i].value > 0

(* What it brings and wants in all.                                          *)
LEMMA TakeParts ==
    ASSUME NEW s, NEW fetched, NEW sell, NEW buy, Takes(s, fetched, sell, buy),
           NEW wants, NEW gives, NEW makers, NEW paid, Sides(s, fetched, wants, gives, makers, paid)
    PROVE  Parts(s, fetched, sell, buy, LegSums(wants), LegSums(gives), makers, paid)
<1>1. PICK n : n = Len(s)
  OBVIOUS
<1>2. n \in Nat /\ n > 0 /\ DOMAIN s = 1..n
  BY <1>1, IsSeqOf DEF Takes, IsSeq
<1>3. /\ IsSeq(wants) /\ Len(wants) = n /\ IsSeq(gives) /\ Len(gives) = n
      /\ IsSeq(makers) /\ Len(makers) = n /\ IsSeq(paid) /\ Len(paid) = n
  <2>1. /\ wants = [i \in 1..n |-> wants[i]] /\ gives = [i \in 1..n |-> gives[i]]
        /\ makers = [i \in 1..n |-> makers[i]] /\ paid = [i \in 1..n |-> paid[i]]
    BY <1>2 DEF Sides
  <2> QED BY <1>2, <2>1, Listed
<1>4. ASSUME NEW i \in 1..n
      PROVE  /\ makers[i] = MakerInput(s[i], fetched[i]) /\ paid[i] = MakerOutput(s[i])
             /\ paid[i].to # Fee /\ ~Blinded(paid[i]) /\ paid[i].value > 0
             /\ wants[i].asset = sell /\ wants[i].amount \in Nat /\ wants[i].amount > 0
             /\ paid[i].asset = sell /\ paid[i].value = wants[i].amount
             /\ gives[i].asset = buy /\ gives[i].amount \in Nat /\ gives[i].amount > 0
             /\ makers[i].asset = buy /\ makers[i].value = gives[i].amount
  <2>1. PICK o, c, in, out : o = s[i] /\ c = fetched[i] /\ in = MakerInput(o, c) /\ out = MakerOutput(o)
    OBVIOUS
  <2>2. Deal(o, c) /\ o.give.asset = buy /\ o.want.asset = sell
    BY <1>1, <2>1 DEF Takes
  <2>3. Says(o, c, in, out)
    BY <2>1, <2>2, OfferSays
  <2>4. /\ in.asset = buy /\ in.value = o.give.amount /\ in.value \in 1..MaxMoney
        /\ out.asset = sell /\ out.value = o.want.amount /\ out.value \in Nat /\ out.value > 0
        /\ out.to # Fee /\ ~Blinded(out)
    BY <2>2, <2>3 DEF Says
  <2>5. in.value \in Nat /\ in.value > 0
    BY <2>4, BoundsAssumption
  <2>6. wants[i] = o.want /\ gives[i] = o.give /\ makers[i] = in /\ paid[i] = out
    BY <1>2, <2>1 DEF Sides
  <2> QED BY <2>1, <2>2, <2>4, <2>5, <2>6
<1>5. AddsUp(LegSums(wants), sell, paid)
  BY <1>2, <1>3, <1>4, LegsAddUp
<1>6. AddsUp(LegSums(gives), buy, makers)
  BY <1>2, <1>3, <1>4, LegsAddUp
<1> QED BY <1>1, <1>3, <1>4, <1>5, <1>6 DEF Parts

(* What a take pays and receives.                                            *)
TakeHead(head, paid, makers, needs, buy) ==
    /\ Asked(head, Shape(Len(paid), FALSE, Len(paid) + 1, 0))
    /\ Len(head) = Len(paid) + 1 /\ \A i \in 1..Len(paid) : head[i] = paid[i]
    /\ \E v : head[Len(paid) + 1] = WalletOutput(buy, v, FALSE)
    /\ \A i \in 1..Len(head) : ~Blinded(head[i])
    /\ \A a : NeedOf(needs, a) \in Int /\ Total(head, a) = Total(makers, a) + NeedOf(needs, a)

(* The makers are paid, and the wallet gets what they give.                  *)
LEMMA TakeAsks ==
    ASSUME NEW needs, NEW sell, NEW paid, AddsUp(needs, sell, paid), needs[sell] <= MaxMoney,
           NEW receives, NEW buy, NEW makers, AddsUp(receives, buy, makers), receives[buy] <= MaxMoney,
           Len(makers) = Len(paid),
           \A i \in 1..Len(paid) : paid[i].to # Fee /\ ~Blinded(paid[i]) /\ paid[i].value > 0,
           NEW head, head = paid \o <<WalletOutput(buy, receives[buy], FALSE)>>
    PROVE  TakeHead(head, paid, makers, needs, buy)
<1>1. PICK n, v, u, o : n = Len(paid) /\ v = receives[buy] /\ u = needs[sell] /\ o = WalletOutput(buy, v, FALSE)
  OBVIOUS
<1>2. /\ n \in Nat /\ v \in Nat /\ v > 0 /\ v <= MaxMoney /\ IsSeq(paid) /\ Valued(paid) /\ Valued(makers)
      /\ u \in Nat /\ u <= MaxMoney /\ DOMAIN needs = {sell}
  BY <1>1 DEF AddsUp, Valued, IsSeq
<1>3. o.asset = buy /\ o.value = v /\ o.to # Fee /\ ~Blinded(o)
  BY <1>1 DEF WalletOutput, PsetOutput, Wallet, Fee, Blinded
<1>4. Valued(<<o>>) /\ \A a : Total(<<o>>, a) = IF buy = a THEN v ELSE 0
  BY <1>2, <1>3, TotalOne
<1>5. IsSeq(<<o>>) /\ Len(<<o>>) = 1 /\ <<o>>[1] = o
  BY One
<1>6. PICK last : last = <<o>>
  OBVIOUS
<1>7. head = paid \o last
  BY <1>1, <1>6
<1>7a. /\ IsSeq(last) /\ Len(last) = 1 /\ last[1] = o
       /\ Valued(last) /\ \A a : Total(last, a) = IF buy = a THEN v ELSE 0
  BY <1>4, <1>5, <1>6
<1>8. /\ IsSeq(head) /\ Len(head) = n + 1 /\ \A i \in 1..n : head[i] = paid[i]
      /\ head[n + 1] = o
  <2>1. /\ IsSeq(head) /\ Len(head) = Len(paid) + Len(last)
        /\ \A i \in 1..Len(paid) : head[i] = paid[i]
        /\ \A i \in 1..Len(last) : head[Len(paid) + i] = last[i]
    <3>1. /\ IsSeq(paid \o last) /\ Len(paid \o last) = Len(paid) + Len(last)
          /\ \A i \in 1..Len(paid) : (paid \o last)[i] = paid[i]
          /\ \A i \in 1..Len(last) : (paid \o last)[Len(paid) + i] = last[i]
      <4>1. IsSeq(paid)
        BY <1>2
      <4>2. IsSeq(last)
        BY <1>7a
      <4> QED BY ONLY <4>1, <4>2, Joined
    <3> QED BY <1>7, <3>1
  <2>2. 1 \in 1..Len(last)
    BY <1>7a
  <2> QED BY <1>1, <1>7a, <2>1, <2>2
<1>9. ASSUME NEW i \in 1..(n + 1) PROVE head[i].value \in 1..MaxMoney /\ head[i].to # Fee /\ ~Blinded(head[i])
  <2>1. CASE i \in 1..n
    <3>1. head[i] = paid[i] /\ paid[i].to # Fee /\ ~Blinded(paid[i]) /\ paid[i].value > 0
      BY <1>1, <1>8, <2>1
    <3>2. paid[i].value <= u /\ paid[i].value \in Int
      BY <1>1, <1>2, <2>1 DEF AddsUp, Valued
    <3>3. paid[i].value \in 1..MaxMoney
      BY SMTT(30), <1>2, <3>1, <3>2, BoundsAssumption
    <3> QED BY <3>1, <3>3
  <2>2. CASE i = n + 1
    <3>1. v \in 1..MaxMoney
      BY <1>2, BoundsAssumption
    <3> QED BY <1>3, <1>8, <2>2, <3>1
  <2>3. i \in 1..n \/ i = n + 1
    BY <1>2
  <2> QED BY <2>1, <2>2, <2>3
<1>10. Asked(head, Shape(n, FALSE, n + 1, 0))
  <2>1. PICK shape : shape = Shape(n, FALSE, n + 1, 0)
    OBVIOUS
  <2>2. shape.fixed = n + 1 /\ shape.blinded = 0
    BY <2>1 DEF Shape
  <2>3. 0 <= n + 1
    BY <1>2
  <2>4. Asked(head, shape)
    BY ONLY <1>8, <1>9, <2>2, <2>3 DEF Asked
  <2> QED BY <2>1, <2>4
<1>11. ASSUME NEW a PROVE NeedOf(needs, a) \in Int /\ Total(head, a) = Total(makers, a) + NeedOf(needs, a)
  <2>1. Total(head, a) = Total(paid, a) + Total(last, a)
    <3>1. Total(paid \o last, a) = Total(paid, a) + Total(last, a)
      BY <1>2, <1>7a, TotalJoined
    <3> QED BY <1>7, <3>1
  <2>2. NeedOf(needs, a) = IF a = sell THEN u ELSE 0
    BY <1>1, <1>2 DEF NeedOf
  <2>3. Total(paid, a) = IF a = sell THEN u ELSE 0
    BY <1>1 DEF AddsUp
  <2>4. Total(makers, a) = IF a = buy THEN v ELSE 0
    BY <1>1 DEF AddsUp
  <2>5. Total(last, a) = IF a = buy THEN v ELSE 0
    BY <1>4, <1>6
  <2> QED BY <1>2, <2>1, <2>2, <2>3, <2>4, <2>5
<1>12. \E v0 : head[n + 1] = WalletOutput(buy, v0, FALSE)
  BY <1>1, <1>8
<1>13. \A i \in 1..Len(head) : ~Blinded(head[i])
  BY <1>8, <1>9
<1> QED BY <1>1, <1>8, <1>10, <1>11, <1>12, <1>13 DEF TakeHead

(* Nothing is blinded where no input is confidential and no output asked for *)
(* is blinded.                                                               *)
LEMMA NoneBlinded ==
    ASSUME NEW p, NEW f, NEW makers, NEW head, Assembled(p, f, makers, head),
           Len(head) \in Nat, Len(f.changes) \in Nat, ~AnyConfidential(f.inputs),
           \A i \in 1..Len(head) : ~Blinded(head[i])
    PROVE  \A i \in DOMAIN p.outs : ~Blinded(p.outs[i])
<1>1. PICK h, k : h = Len(head) /\ k = Len(f.changes)
  OBVIOUS
<1>2. h \in Nat /\ k \in Nat
  BY <1>1
<1>3. /\ \A i \in 1..h : p.outs[i] = head[i]
      /\ \A i \in 1..k : p.outs[h + i] = WalletOutput(f.changes[i].asset, f.changes[i].value,
                                                      AnyConfidential(f.inputs))
      /\ p.outs[h + k + 1] = FeeOutput(f.fee)
  BY <1>1 DEF Assembled
<1>4. DOMAIN p.outs = 1..(h + k + 1)
  <2>1. PICK outs : outs = p.outs
    OBVIOUS
  <2>2. IsSeq(outs) /\ Len(outs) = h + k + 1
    BY <1>1, <2>1 DEF Assembled
  <2>3. DOMAIN outs = 1..Len(outs)
    BY ONLY <2>2, IsSeqOf
  <2> QED BY <2>1, <2>2, <2>3
<1> SUFFICES ASSUME NEW i \in 1..(h + k + 1) PROVE ~Blinded(p.outs[i])
  BY <1>4
<1>5. i \in 1..h \/ (i - h \in 1..k /\ i = h + (i - h)) \/ i = h + k + 1
  BY <1>2
<1>6. CASE i \in 1..h
  BY <1>1, <1>3, <1>6
<1>7. CASE i - h \in 1..k /\ i = h + (i - h)
  <2>1. PICK o, a, v : o = p.outs[i] /\ o = WalletOutput(a, v, AnyConfidential(f.inputs))
    BY <1>3, <1>7
  <2>2. Blinded(o) <=> AnyConfidential(f.inputs)
    BY <2>1 DEF WalletOutput, PsetOutput, Blinded, Wallet
  <2> QED BY <2>1, <2>2
<1>8. CASE i = h + k + 1
  BY <1>3, <1>8 DEF FeeOutput, PsetOutput, Blinded
<1> QED BY <1>5, <1>6, <1>7, <1>8

(* A take that finds its funding passes the review.                          *)
LEMMA SwapPasses ==
    ASSUME NEW C, NEW A, Held(C, A), \A c \in C : c.asset = Policy => Fits(c),
           NEW sell \in A, NEW buy \in A, NEW s, NEW fetched, Takes(s, fetched, sell, buy),
           ~(Cardinality({s[i].id : i \in DOMAIN s}) < Len(s)),
           \A c \in C : c.id \notin {s[i].id : i \in DOMAIN s}, \A c \in C : ~c.conf,
           NEW needs, NEW receives, NEW makers, NEW paid,
           Parts(s, fetched, sell, buy, needs, receives, makers, paid),
           needs[sell] <= MaxMoney, receives[buy] <= MaxMoney,
           NEW head, head = paid \o <<WalletOutput(buy, receives[buy], FALSE)>>, NEW rate,
           NEW f, f = Fund(<<>>, C, needs, Shape(Len(s), FALSE, Len(s) + 1, 0), rate), f.ok
    PROVE  NotBroken(Finish(makers \o WalletInputs(f.inputs), head \o ChangesAndFee(f), "SwapTake", 0))
<1>1. PICK shape, n : n = Len(s) /\ shape = Shape(n, FALSE, n + 1, 0)
  OBVIOUS
<1>2. n \in Nat /\ n > 0 /\ IsSeq(s)
  BY <1>1 DEF Takes, IsSeq
<1>3. IsShape(shape) /\ shape.foreign = n /\ shape.fixed = n + 1 /\ shape.blinded = 0
  <2>1. n + 1 \in Nat
    BY <1>2
  <2> QED BY <1>1, <1>2, <2>1 DEF IsShape, Shape
<1>4. AddsUp(needs, sell, paid) /\ AddsUp(receives, buy, makers) /\ Len(paid) = n /\ Len(makers) = n
  BY <1>1 DEF Parts
<1>5. \A i \in 1..n : /\ makers[i] = MakerInput(s[i], fetched[i]) /\ paid[i] = MakerOutput(s[i])
                       /\ paid[i].to # Fee /\ ~Blinded(paid[i]) /\ paid[i].value > 0
  BY <1>1 DEF Parts
<1>6. TakeHead(head, paid, makers, needs, buy)
  <2>1. Len(makers) = Len(paid)
    BY <1>4
  <2>2. \A i \in 1..Len(paid) : paid[i].to # Fee /\ ~Blinded(paid[i]) /\ paid[i].value > 0
    BY <1>4, <1>5
  <2>3. AddsUp(needs, sell, paid) /\ AddsUp(receives, buy, makers)
    BY <1>4
  <2> QED BY <2>1, <2>2, <2>3, TakeAsks
<1>7. /\ Asked(head, shape) /\ IsSeq(head) /\ Len(head) = n + 1
      /\ \A i \in 1..n : head[i] = paid[i]
      /\ \E v : head[n + 1] = WalletOutput(buy, v, FALSE)
      /\ \A i \in 1..Len(head) : ~Blinded(head[i])
      /\ \A a : NeedOf(needs, a) \in Int /\ Total(head, a) = Total(makers, a) + NeedOf(needs, a)
  BY <1>1, <1>4, <1>6 DEF TakeHead, Asked
<1>8. Valued(makers) /\ IsSeq(makers)
  BY <1>4 DEF AddsUp, Valued
<1>9. Funded(f, C, A, shape, rate) /\ Balanced(f, needs, shape) /\ rate \in 1..MaxFeeRate
  <2>1. PICK none : none = <<>>
    OBVIOUS
  <2>2. none \in Seq(C) /\ Len(none) <= 1 /\ \A i \in 1..Len(none) : none[i].asset = sell
    BY <2>1
  <2>3. DOMAIN needs \subseteq {sell} /\ \A a \in DOMAIN needs : needs[a] \in Nat
    BY <1>4 DEF AddsUp
  <2>4. f = Fund(none, C, needs, shape, rate) /\ C \in SUBSET C
    BY <1>1, <2>1
  <2>5. IsShape(shape) /\ f.ok /\ Held(C, A)
    BY <1>3
  <2>6. DOMAIN needs \subseteq {sell}
    BY <2>3
  <2>7. \A a \in DOMAIN needs : needs[a] \in Nat
    BY <2>3
  <2>8. none \in Seq(C)
    BY <2>2
  <2>9. Len(none) <= 1
    BY <2>2
  <2>10. \A i \in 1..Len(none) : none[i].asset = sell
    BY <2>2
  <2>11. f = Fund(none, C, needs, shape, rate)
    BY <2>4
  <2> QED BY <2>4, <2>5, <2>6, <2>7, <2>8, <2>9, <2>10, <2>11, FundAlone
<1>10. f.inputs \in Seq(C) /\ f.inputs # <<>> /\ f.changes \in Seq(Change(A))
  BY <1>9 DEF Funded
<1>11. PICK own : own = WalletInputs(f.inputs)
  OBVIOUS
<1>12. Own(own, f)
  BY <1>10, <1>11, InputsOwn
<1>13. PICK p : p = FundedPset(makers, own, head, f)
  OBVIOUS
<1>14. Assembled(p, f, makers, head)
  BY <1>7, <1>8, <1>10, <1>12, <1>13, Assembles DEF FundedPset
<1>15. /\ p.genesis = Genesis /\ IsSeq(p.ins) /\ DOMAIN p.ins = 1..(n + Len(f.inputs))
       /\ Len(f.inputs) \in Nat
       /\ \A i \in 1..n : p.ins[i] = makers[i]
       /\ \A i \in 1..Len(f.inputs) : p.ins[n + i] = own[i]
  <2>1. IsSeq(own) /\ Len(own) = Len(f.inputs)
    BY <1>12 DEF Own
  <2>2. /\ IsSeq(makers \o own) /\ Len(makers \o own) = Len(makers) + Len(own)
        /\ \A i \in 1..Len(makers) : (makers \o own)[i] = makers[i]
        /\ \A i \in 1..Len(own) : (makers \o own)[Len(makers) + i] = own[i]
    <3>1. PICK x, y : x = makers /\ y = own
      OBVIOUS
    <3>2. IsSeq(x)
      BY <1>8, <3>1
    <3>3. IsSeq(y)
      BY <2>1, <3>1
    <3>4. /\ IsSeq(x \o y) /\ Len(x \o y) = Len(x) + Len(y)
          /\ \A i \in 1..Len(x) : (x \o y)[i] = x[i]
          /\ \A i \in 1..Len(y) : (x \o y)[Len(x) + i] = y[i]
      BY ONLY <3>2, <3>3, Joined
    <3> QED BY <3>1, <3>4
  <2>3. p.genesis = Genesis /\ p.ins = makers \o own
    BY <1>13 DEF FundedPset
  <2>4. DOMAIN p.ins = 1..Len(p.ins)
    BY <2>2, <2>3, IsSeqOf
  <2>5. Len(f.inputs) \in Nat
    <3>1. PICK q : q = f.inputs
      OBVIOUS
    <3>2. q \in Seq(C)
      BY <1>10, <3>1
    <3>3. Len(q) \in Nat
      BY ONLY <3>2
    <3> QED BY <3>1, <3>3
  <2> QED BY <1>4, <2>1, <2>2, <2>3, <2>4, <2>5
<1>16. \A i \in DOMAIN p.ins : p.ins[i].issuance = NoIssuance
  <2> SUFFICES ASSUME NEW i \in DOMAIN p.ins PROVE p.ins[i].issuance = NoIssuance
    OBVIOUS
  <2>1. i \in 1..n \/ (i - n \in 1..Len(f.inputs) /\ i = n + (i - n))
    <3>1. PICK m : m = Len(f.inputs)
      OBVIOUS
    <3>2. m \in Nat /\ i \in 1..(n + m)
      BY <1>15, <3>1
    <3>3. i \in 1..n \/ (i - n \in 1..m /\ i = n + (i - n))
      BY ONLY <1>2, <3>2
    <3> QED BY <3>1, <3>3
  <2>2. CASE i \in 1..n
    <3>1. PICK m : m = p.ins[i] /\ m = MakerInput(s[i], fetched[i])
      BY <1>5, <1>15, <2>2
    <3> QED BY <3>1 DEF MakerInput
  <2>3. CASE i - n \in 1..Len(f.inputs) /\ i = n + (i - n)
    <3>1. PICK j \in 1..Len(f.inputs) : p.ins[i] = own[j]
      BY <1>15, <2>3
    <3>2. own[j] = WalletInput(f.inputs[j], "ALL")
      <4>1. PICK q : q = f.inputs
        OBVIOUS
      <4>2. q \in Seq(C) /\ own = WalletInputs(q) /\ j \in 1..Len(q)
        BY <1>10, <1>11, <4>1
      <4>3. own[j] = WalletInput(q[j], "ALL")
        BY ONLY <4>2 DEF WalletInputs
      <4> QED BY <4>1, <4>3
    <3> QED BY <3>1, <3>2 DEF WalletInput
  <2> QED BY <2>1, <2>2, <2>3
<1>17. IssuesRight(p, makers, "SwapTake")
  BY <1>16 DEF IssuesRight
<1>18. KindAccepted(p, "SwapTake")
  <2>1. Taken(s, fetched, makers, head, A)
    <3>1. \A i \in 1..n : OfferVerifies(s[i], fetched[i])
      BY <1>1 DEF Takes, Deal
    <3>2. \A i \in 1..Len(head) : i > n => i = n + 1
      BY <1>2, <1>7
    <3>3. \A i \in 1..Len(head) : i > n => \E a \in A : \E v : head[i] = WalletOutput(a, v, FALSE)
      BY <1>7, <3>2
    <3>4. Len(head) >= n
      BY <1>2, <1>7
    <3> QED BY <1>1, <1>4, <1>5, <1>7, <3>1, <3>3, <3>4 DEF Taken
  <2>2. f.inputs \in Seq(C) /\ f.inputs # <<>> /\ f.changes \in Seq(Change(A)) /\ IsSeq(head)
    BY <1>7, <1>10
  <2>3. f.inputs \in Seq(C)
    BY <2>2
  <2>4. f.inputs # <<>>
    BY <2>2
  <2>5. f.changes \in Seq(Change(A))
    BY <2>2
  <2>6. IsSeq(head)
    BY <2>2
  <2>7. Takes(s, fetched, sell, buy)
    OBVIOUS
  <2> QED BY ONLY <1>14, <1>16, <2>1, <2>3, <2>4, <2>5, <2>6, <2>7, SwapAccepted
<1>19. Brings(p, makers, f, "SwapTake")
  <2>1. \A i \in 1..Len(s) : makers[i] = MakerInput(s[i], fetched[i])
    BY <1>1, <1>5
  <2>2. \A i \in 1..Len(makers) : p.ins[i] = makers[i]
    BY <1>4, <1>15
  <2>3. Len(makers) = Len(s)
    BY <1>1, <1>4
  <2> QED BY ZenonT(30), <1>8, <1>10, <2>1, <2>2, <2>3, SwapBrings
<1>20. Meets(p, makers, head, needs)
  <2> SUFFICES ASSUME NEW a
               PROVE  /\ NeedOf(needs, a) \in Int /\ SumFunction(IssuedBy(p, a)) \in Int
                      /\ (Total(makers, a) + NeedOf(needs, a)) + SumFunction(IssuedBy(p, a)) = Total(head, a)
    BY DEF Meets
  <2>1. SumFunction(IssuedBy(p, a)) = 0
    <3>1. SumFunctionOnSet(IssuedBy(p, a), DOMAIN p.ins) = 0
      BY <1>15, <1>16, NothingIssued
    <3>2. DOMAIN IssuedBy(p, a) = DOMAIN p.ins
      BY DEF IssuedBy
    <3> QED BY <3>1, <3>2 DEF SumFunction
  <2>2. Total(makers, a) \in Int
    BY <1>8, TotalIs
  <2>3. NeedOf(needs, a) \in Int /\ Total(head, a) = Total(makers, a) + NeedOf(needs, a)
    BY <1>7
  <2> QED BY <2>1, <2>2, <2>3
<1>21. NotBroken(ReviewPset(p, "SwapTake"))
  <2>1. shape.foreign = Len(makers)
    BY <1>3, <1>4
  <2>2. \A c \in C : c.value \in 1..MaxMoney /\ c.owner = Wallet
    BY DEF Held
  <2>3. "SwapTake" # "SwapOffer"
    OBVIOUS
  <2> QED BY ZenonT(30), <1>3, <1>7, <1>9, <1>12, <1>13, <1>17, <1>18, <1>19, <1>20, <2>1, <2>2, <2>3,
     FundedPasses
<1>22. \A i \in DOMAIN p.outs : ~Blinded(p.outs[i])
  <2>1. ~AnyConfidential(f.inputs)
    <3>1. PICK q : q = f.inputs
      OBVIOUS
    <3>2. q \in Seq(C)
      BY <1>10, <3>1
    <3>3. \A i \in DOMAIN q : q[i] \in C
      BY ONLY <3>2
    <3>4. \A i \in DOMAIN f.inputs : ~f.inputs[i].conf
      BY <3>1, <3>3
    <3> QED BY <3>4 DEF AnyConfidential
  <2>2. Len(head) \in Nat /\ Len(f.changes) \in Nat
    <3>1. PICK q : q = f.changes
      OBVIOUS
    <3>2. q \in Seq(Change(A))
      BY <1>10, <3>1
    <3>3. Len(q) \in Nat
      BY ONLY <3>2
    <3>4. PICK h : h = Len(head)
      OBVIOUS
    <3>5. h = n + 1
      BY <1>7, <3>4
    <3>6. h \in Nat
      BY ONLY <1>2, <3>5
    <3> QED BY <3>1, <3>3, <3>4, <3>6
  <2> QED BY <1>7, <1>14, <2>1, <2>2, NoneBlinded
<1>23. PICK ins, outs : ins = makers \o own /\ outs = head \o ChangesAndFee(f)
  OBVIOUS
<1>24. p = [genesis |-> Genesis, ins |-> ins, outs |-> outs]
  BY <1>13, <1>23 DEF FundedPset
<1>25. ~(\E i \in DOMAIN outs : Blinded(outs[i]))
  <2>1. p.outs = outs
    BY <1>24
  <2> QED BY <1>22, <2>1
<1>26. (\E i \in DOMAIN outs : Blinded(outs[i])) => 0 = Len(ins)
  BY <1>25
<1>27. NotBroken(Finish(ins, outs, "SwapTake", 0))
  BY ONLY <1>21, <1>24, <1>26, FinishPasses
<1> QED BY <1>11, <1>23, <1>27

(* The swap fails for the offers, the amounts or the money, never because    *)
(* its own PSET is refused.                                                  *)
LEMMA TakePasses ==
    ASSUME NEW coins0, NEW A, Held(coins0, A), \A c \in coins0 : c.asset = Policy => Fits(c),
           NEW sell \in A, NEW buy \in A, NEW s, NEW fetched,
           IsSeq(s) /\ Len(s) > 0, \A i \in 1..Len(s) : s[i].give.asset = buy /\ s[i].want.asset = sell,
           \A i \in 1..Len(s) : OfferVerifies(s[i], fetched[i]) => Deal(s[i], fetched[i]), NEW rate
    PROVE  NotBroken(TakeSwapOffers(s, fetched, coins0, rate))
<1> DEFINE n == Len(s)
           ids == {s[i].id : i \in DOMAIN s}
           mine == {c \in coins0 : c.id \notin ids}
           C == {c \in mine : ~c.conf}
           wants == [i \in DOMAIN s |-> s[i].want]
           gives == [i \in DOMAIN s |-> s[i].give]
           needs == LegSums(wants)
           receives == LegSums(gives)
           assets == Sorted(DOMAIN receives)
           shape == Shape(n, FALSE, n + Len(assets), 0)
           f == Fund(<<>>, C, needs, shape, rate)
           makers == [i \in DOMAIN s |-> MakerInput(s[i], fetched[i])]
           paid == [i \in DOMAIN s |-> MakerOutput(s[i])]
           received == [i \in DOMAIN assets |-> WalletOutput(assets[i], receives[assets[i]], FALSE)]
           ins == makers \o WalletInputs(f.inputs)
           outs == paid \o received \o ChangesAndFee(f)
           res == TakeSwapOffers(s, fetched, coins0, rate)
           bad == s = <<>> \/ n > MaxRequestItems \/ ~UtxosAccepted(coins0)
           wrong == \E i \in DOMAIN s : ~OfferVerifies(s[i], fetched[i])
           twice == Cardinality(ids) < n
           big == \E v \in Range(needs) \cup Range(receives) : v > MaxMoney
           hidden == \E c \in mine : c.conf
           fin == Finish(ins, outs, "SwapTake", 0)
<1>1. \A e \in {"InvalidRequest", "Offer", "AmountOverflow", "Confidential"} : NotBroken(Failure(e))
  BY DEF NotBroken, Failure
<1>2. NotBroken(f)
  <2>1. \A i \in DOMAIN <<>> : <<>>[i] \notin C
    OBVIOUS
  <2> HIDE DEF needs, shape, C
  <2> QED BY <2>1, FundNotBroken
<1>3. n \in Nat /\ n > 0 /\ DOMAIN s = 1..n
  BY IsSeqOf DEF IsSeq
<1>4. ASSUME ~wrong, ~twice, ~big, f.ok PROVE NotBroken(fin)
  <2>1. Takes(s, fetched, sell, buy)
    BY <1>3, <1>4 DEF Takes
  <2>2. Parts(s, fetched, sell, buy, needs, receives, makers, paid)
    <3>1. PICK w, g, m, q : w = wants /\ g = gives /\ m = makers /\ q = paid
      OBVIOUS
    <3>2. /\ w = [i \in DOMAIN s |-> s[i].want] /\ g = [i \in DOMAIN s |-> s[i].give]
          /\ m = [i \in DOMAIN s |-> MakerInput(s[i], fetched[i])]
          /\ q = [i \in DOMAIN s |-> MakerOutput(s[i])]
      BY <3>1
    <3>3. needs = LegSums(w) /\ receives = LegSums(g)
      BY <3>1
    <3> HIDE DEF wants, gives, makers, paid, needs, receives
    <3>4. Sides(s, fetched, w, g, m, q)
      BY <3>2 DEF Sides
    <3>5. Parts(s, fetched, sell, buy, LegSums(w), LegSums(g), m, q)
      BY <2>1, <3>4, TakeParts
    <3> QED BY <3>1, <3>3, <3>5
  <2>3. DOMAIN needs = {sell} /\ DOMAIN receives = {buy} /\ needs[sell] \in Nat /\ receives[buy] \in Nat
    <3> HIDE DEF needs, receives, makers, paid
    <3> QED BY <2>2 DEF AddsUp, Parts
  <2>4. needs[sell] <= MaxMoney /\ receives[buy] <= MaxMoney
    <3>1. MaxMoney \in Nat
      BY BoundsAssumption
    <3> HIDE DEF needs, receives
    <3>2. ~(needs[sell] > MaxMoney) /\ ~(receives[buy] > MaxMoney)
      BY <1>4, <2>3 DEF Range
    <3> QED BY <2>3, <3>1, <3>2
  <2>5. A \subseteq Int /\ Usable(coins0, A) /\ \A c \in coins0 : c.value \in 1..MaxMoney /\ c.owner = Wallet
    BY DEF Held, Usable
  <2>6. assets = <<buy>>
    <3> HIDE DEF receives
    <3> QED BY <2>3, <2>5, SortedFew
  <2>7. C \subseteq coins0
    OBVIOUS
  <2>8. Held(C, A) /\ \A c \in C : c.asset = Policy => Fits(c)
    <3> HIDE DEF C
    <3>1. IsFiniteSet(C)
      BY <2>5, <2>7, FS_Subset DEF Usable, Proper
    <3>2. Proper(C)
      BY <2>5, <2>7, <3>1 DEF Usable, Proper
    <3> QED BY <2>5, <2>7, <3>2 DEF Held, Usable
  <2>9. received = <<WalletOutput(buy, receives[buy], FALSE)>>
    <3>1. PICK as : as = assets
      OBVIOUS
    <3>2. as = <<buy>> /\ received = [i \in DOMAIN as |-> WalletOutput(as[i], receives[as[i]], FALSE)]
      BY <2>6, <3>1
    <3> HIDE DEF assets, receives, received
    <3>3. DOMAIN as = {1} /\ as[1] = buy
      BY <3>2
    <3>4. PICK o : o = WalletOutput(buy, receives[buy], FALSE)
      OBVIOUS
    <3>5. received = [i \in {1} |-> o]
      BY <3>2, <3>3, <3>4
    <3>6. [i \in {1} |-> o] = <<o>>
      OBVIOUS
    <3> QED BY <3>4, <3>5, <3>6
  <2>10. PICK g, m, q, h, nd, rc, d : /\ g = f /\ m = makers /\ q = paid /\ h = paid \o received
                                     /\ nd = needs /\ rc = receives /\ d = ids
    OBVIOUS
  <2>11. shape = Shape(n, FALSE, n + 1, 0)
    <3> HIDE DEF assets
    <3> QED BY <2>6
  <2>12. PICK k : k = n
    OBVIOUS
  <2>13. PICK sh : sh = Shape(k, FALSE, k + 1, 0)
    OBVIOUS
  <2>14. \A c \in C : c.id \notin {s[i].id : i \in DOMAIN s} /\ ~c.conf
    OBVIOUS
  <2>15. ~(Cardinality({s[i].id : i \in DOMAIN s}) < Len(s))
    BY <1>4
  <2> HIDE DEF C, needs, shape
  <2>16. g = Fund(<<>>, C, nd, sh, rate) /\ g.ok
    <3> HIDE DEF f
    <3>1. f = Fund(<<>>, C, needs, shape, rate)
      BY DEF f
    <3> QED BY <1>4, <2>10, <2>11, <2>12, <2>13, <3>1
  <2> HIDE DEF f, makers, paid, received, receives, assets, ids
  <2>17. NotBroken(Finish(m \o WalletInputs(g.inputs), h \o ChangesAndFee(g), "SwapTake", 0))
    <3>1. Parts(s, fetched, sell, buy, nd, rc, m, q)
      BY <2>2, <2>10
    <3>2. nd[sell] <= MaxMoney /\ rc[buy] <= MaxMoney
      BY <2>4, <2>10
    <3>3. h = q \o <<WalletOutput(buy, rc[buy], FALSE)>>
      BY <2>9, <2>10
    <3>4. g = Fund(<<>>, C, nd, Shape(Len(s), FALSE, Len(s) + 1, 0), rate) /\ g.ok
      BY <2>12, <2>13, <2>16
    <3>5. Takes(s, fetched, sell, buy) /\ Held(C, A)
      BY <2>1, <2>8
    <3>6. \A c \in C : c.asset = Policy => Fits(c)
      BY <2>8
    <3>7. \A c \in C : c.id \notin {s[i].id : i \in DOMAIN s}
      BY <2>14
    <3>8. \A c \in C : ~c.conf
      BY <2>14
    <3>9. nd[sell] <= MaxMoney
      BY <3>2
    <3>10. rc[buy] <= MaxMoney
      BY <3>2
    <3>11. g = Fund(<<>>, C, nd, Shape(Len(s), FALSE, Len(s) + 1, 0), rate)
      BY <3>4
    <3>12. Held(C, A)
      BY <3>5
    <3>13. g.ok
      BY <3>4
    <3>14. sell \in A /\ buy \in A
      OBVIOUS
    <3> QED BY ONLY <2>1, <2>15, <3>1, <3>3, <3>6, <3>7, <3>8, <3>9, <3>10, <3>11, <3>12, <3>13, <3>14, SwapPasses
  <2> QED BY <2>10, <2>17
<1> HIDE DEF bad, wrong, twice, big, hidden, fin, f
<1>5. res = IF bad THEN Failure("InvalidRequest")
            ELSE IF wrong \/ twice THEN Failure("Offer")
            ELSE IF big THEN Failure("AmountOverflow")
            ELSE IF ~f.ok
            THEN IF f.error = "InsufficientFunds" /\ hidden THEN Failure("Confidential") ELSE f
            ELSE fin
  BY DEF TakeSwapOffers, bad, wrong, twice, big, hidden, fin, f
<1> HIDE DEF res
<1>6. NotBroken(res)
  BY <1>1, <1>2, <1>4, <1>5
<1> QED BY <1>6 DEF res

=============================================================================
