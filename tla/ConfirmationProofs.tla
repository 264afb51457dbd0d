-------------------------- MODULE ConfirmationProofs --------------------------
(***************************************************************************)
(* Proofs about the two promises by which a transaction is relied on       *)
(* before it is mined: Instant, for any operators, lockboxes, transactions,*)
(* bonds and policy parameters, and PreconferSigner, for any number of     *)
(* processes, requests, transactions and relays.                           *)
(***************************************************************************)
EXTENDS Instant, PreconferSigner, DataTheorems, SequenceTheorems

(***************************************************************************)
(* Instant.                                                                *)
(***************************************************************************)

(* An honest operator has promised each of its lockboxes to one transaction. *)
HonestOnce ==
    \A p, q \in promises : p.box = q.box /\ Box[p.box].operator \in honest => p.tx = q.tx

(* A spent lockbox went with a promise, or after its expiry.                 *)
SpendsJustified ==
    \A x \in Lockboxes :
        /\ spend[x].at <= height + 1
        /\ spend[x].coop => spend[x].tx # None /\ Promised(x, spend[x].tx)
        /\ spend[x].tx # None /\ ~spend[x].coop => Box[x].expiry < spend[x].at

(* What a wallet relies on is promised, published and was within the margin. *)
AcceptedSound ==
    \A a \in accepted :
        /\ a.tx \in published /\ a.tip <= height
        /\ \A x \in Spends[a.tx].ins :
             Promised(x, a.tx) /\ a.tip + PromiseMargin < Box[x].expiry

(* The bonds it counted are deep enough and outlast its lockboxes.           *)
CountedBonds ==
    \A a \in accepted : \A b \in a.bonds :
        /\ bond[b].st # "gone"
        /\ bond[b].st = "unspent" => bond[b].at < height
        /\ \A x \in Spends[a.tx].ins :
             BondScript[b].operator = Box[x].operator =>
                 BondScript[b].refund >= Box[x].expiry + ChallengeWindow

(* A refunded bond had reached its height.                                   *)
RefundsLate ==
    \A b \in Bonds : bond[b].st = "refunded" => BondScript[b].refund <= height

(* As long as a bond of a visible thief is there, the challenge window is     *)
(* open.                                                                     *)
WindowOpen ==
    \A a \in accepted : \A x \in Lockboxes : \A b \in a.bonds :
        RobbedVisibly(a, x) /\ BondScript[b].operator = Box[x].operator =>
            /\ bond[b].st # "refunded"
            /\ bond[b].st = "unspent" => height < Box[x].expiry + ChallengeWindow

InstantInv ==
    /\ TypeOK /\ HonestOnce /\ SpendsJustified /\ AcceptedSound
    /\ CountedBonds /\ RefundsLate /\ WindowOpen /\ HonestNeverSlashed

(* Only finitely many transactions have been published.                      *)
PublishedFinite == IsFiniteSet(published)

(* A transaction takes all its lockboxes or none.                            *)
Atomic ==
    \A t \in Txs : \A x, y \in Spends[t].ins : spend[x].tx = t => spend[y].tx = t

(* A slashed bond burned what it was counted for, whatever fee was paid.     *)
SlashedBurn ==
    \A b \in Bonds :
        bond[b].st = "slashed" => bond[b].burned = EffectiveCover(BondScript[b].amount)

(* Accepted transactions with a lockbox of operator o, none of them mined.   *)
Pending(o, txs) ==
    \A t \in txs : o \in OperatorsOf(t) /\ ~Confirmed(t) /\ \E a \in accepted : a.tx = t

CountedOf(o, a) == {b \in a.bonds : BondScript[b].operator = o}

(* What some bonds lose, each of them once.                                  *)
BondCover(bonds) ==
    SumFunctionOnSet([b \in Bonds |-> EffectiveCover(BondScript[b].amount)], bonds)

(* Among any pending transactions there is one, the last to be accepted,     *)
(* whose bonds were found enough for all of them.                            *)
Exposure ==
    \A o \in Operators : ListedOnce(o) /\ Informed(o) =>
        \A txs \in (SUBSET Txs) \ {{}} : Pending(o, txs) =>
            \E a \in accepted : a.tx \in txs /\ Value(txs) <= BondCover(CountedOf(o, a))

CoverInv == PublishedFinite /\ Atomic /\ SlashedBurn /\ Exposure

-----------------------------------------------------------------------------
(* The initial state satisfies every conjunct.                               *)
LEMMA InstantInit == Init => InstantInv
<1> SUFFICES ASSUME Init PROVE InstantInv
  OBVIOUS
<1>1. TypeOK
  BY InstantAssumption DEF Init, TypeOK, Unspent, InstantAssumption
<1>2. SpendsJustified
  BY InstantAssumption DEF Init, SpendsJustified, Unspent, InstantAssumption
<1>3. HonestOnce /\ AcceptedSound /\ CountedBonds /\ WindowOpen
  BY DEF Init, HonestOnce, AcceptedSound, CountedBonds, WindowOpen
<1>4. RefundsLate /\ HonestNeverSlashed
  BY DEF Init, RefundsLate, HonestNeverSlashed
<1> QED BY <1>1, <1>2, <1>3, <1>4 DEF InstantInv

(* What the covenant burns is an amount.                                     *)
LEMMA BurnNat ==
    ASSUME NEW amount \in Nat, NEW fee \in Nat
    PROVE  PenaltyTx(amount, fee).burn \in Nat
BY DEF PenaltyTx, Reward

(* A bond that counts belongs to the operator, is funded deeply enough and   *)
(* can be refunded only after the challenge window of its lockboxes.         *)
LEMMA EligibleFacts ==
    ASSUME TypeOK, NEW o \in Operators, NEW t \in Txs, NEW i \in EligibleBonds(o, t),
           NEW b, b = Claim(o, i).bond
    PROVE  /\ b \in Bonds /\ bond[b].st = "unspent" /\ bond[b].at < height
           /\ BondScript[b].operator = o /\ i \in 1..Len(Announced[o])
           /\ \A x \in BoxesOf(t, o) : BondScript[b].refund >= Box[x].expiry + ChallengeWindow
<1>1. /\ i \in DOMAIN Announced[o] /\ bond[b].st = "unspent"
      /\ Confirmations(b) >= BondMinConfirmations
      /\ BondScript[b].operator = o /\ BondScript[b].refund = Claim(o, i).refund
      /\ \A x \in BoxesOf(t, o) : Claim(o, i).refund >= Box[x].expiry + ChallengeWindow
  BY DEF EligibleBonds, KnownBonds
<1>2. Announced[o] \in Seq([bond : Bonds, refund : Nat])
  BY InstantAssumption DEF InstantAssumption
<1>3. i \in 1..Len(Announced[o])
  BY <1>1, <1>2, SeqIs
<1>4. b \in Bonds
  <2>1. PICK listed : listed = Announced[o]
    OBVIOUS
  <2>2. listed[i] \in [bond : Bonds, refund : Nat]
    BY <1>2, <1>3, <2>1, ElementOfSeq
  <2> QED BY <2>1, <2>2 DEF Claim
<1>5. bond[b].at \in Nat /\ height \in Nat /\ BondMinConfirmations \in Nat /\ BondMinConfirmations > 1
  BY <1>4, InstantAssumption DEF TypeOK, InstantAssumption
<1>6. bond[b].at < height
  BY <1>1, <1>5 DEF Confirmations
<1> QED BY <1>1, <1>3, <1>4, <1>6

(* What the check of a promise says about each lockbox.                      *)
LEMMA CheckedMargin ==
    ASSUME NEW o \in Operators, NEW t \in Txs, NEW seen, CheckPromise(o, t, seen),
           NEW x \in BoxesOf(t, o)
    PROVE  height + PromiseMargin < Box[x].expiry
BY DEF CheckPromise, BeforeMargin
-----------------------------------------------------------------------------
(* Operators and wallets. *)

(* One promise more, for lockboxes it has not been made for.                 *)
LEMMA PromiseHonestlyKeeps ==
    ASSUME InstantInv, NEW o \in Operators, NEW t \in Txs, PromiseHonestly(o, t)
    PROVE  InstantInv'
<1> USE DEF InstantInv
<1>1. BoxesOf(t, o) \subseteq Lockboxes
  BY InstantAssumption DEF BoxesOf, InstantAssumption
<1>2. TypeOK'
  BY <1>1 DEF PromiseHonestly, TypeOK
<1>3. HonestOnce'
  BY DEF PromiseHonestly, HonestOnce, BoxesOf
<1>4. SpendsJustified' /\ AcceptedSound'
  BY DEF PromiseHonestly, SpendsJustified, AcceptedSound, Promised
<1>5. CountedBonds' /\ RefundsLate' /\ WindowOpen' /\ HonestNeverSlashed'
  BY DEF PromiseHonestly, CountedBonds, RefundsLate, WindowOpen, HonestNeverSlashed, RobbedVisibly, RobbedAt, Extractable
<1> QED BY <1>2, <1>3, <1>4, <1>5

(* Nothing is asked of the promises of other operators.                      *)
LEMMA PromiseAnythingKeeps ==
    ASSUME InstantInv, NEW x \in Lockboxes, NEW t \in Txs, PromiseAnything(x, t)
    PROVE  InstantInv'
<1> USE DEF InstantInv
<1>1. TypeOK'
  BY DEF PromiseAnything, TypeOK
<1>2. HonestOnce'
  BY DEF PromiseAnything, HonestOnce
<1>3. SpendsJustified' /\ AcceptedSound'
  BY DEF PromiseAnything, SpendsJustified, AcceptedSound, Promised
<1>4. CountedBonds' /\ RefundsLate' /\ WindowOpen' /\ HonestNeverSlashed'
  BY DEF PromiseAnything, CountedBonds, RefundsLate, WindowOpen, HonestNeverSlashed, RobbedVisibly, RobbedAt, Extractable
<1> QED BY <1>1, <1>2, <1>3, <1>4

(* Published transactions stay published.                                    *)
LEMMA PublishKeeps ==
    ASSUME InstantInv, NEW t \in Txs, Publish(t)
    PROVE  InstantInv'
<1> USE DEF InstantInv
<1>1. TypeOK' /\ HonestOnce'
  BY DEF Publish, TypeOK, HonestOnce
<1>2. SpendsJustified' /\ AcceptedSound'
  BY DEF Publish, SpendsJustified, AcceptedSound, Promised
<1>3. CountedBonds' /\ RefundsLate' /\ WindowOpen' /\ HonestNeverSlashed'
  BY DEF Publish, CountedBonds, RefundsLate, WindowOpen, HonestNeverSlashed, RobbedVisibly, RobbedAt, Extractable
<1> QED BY <1>1, <1>2, <1>3

(* The new entry satisfies what is asked of accepted transactions, also when *)
(* another transaction has already taken the lockbox.                        *)
LEMMA AcceptKeeps ==
    ASSUME InstantInv, NEW t \in Txs, NEW seen \in SUBSET published, Accept(t, seen)
    PROVE  InstantInv'
<1> USE DEF InstantInv
<1> DEFINE counted == UNION {{Claim(o, i).bond : i \in EligibleBonds(o, t)} : o \in OperatorsOf(t)}
           new == [tx |-> t, tip |-> height, informed |-> seen = published, bonds |-> counted]
<1>1. accepted' = accepted \cup {new} /\ UNCHANGED <<honest, height, promises, published, spend, bond>>
  BY DEF Accept
<1>2. \A x \in Spends[t].ins : x \in Lockboxes /\ Box[x].operator \in Operators
                               /\ Box[x].expiry \in Nat /\ x \in BoxesOf(t, Box[x].operator)
  BY InstantAssumption DEF InstantAssumption, BoxesOf
<1>3. \A b \in counted :
        /\ b \in Bonds /\ bond[b].st = "unspent" /\ bond[b].at < height
        /\ \A x \in Spends[t].ins : BondScript[b].operator = Box[x].operator =>
             BondScript[b].refund >= Box[x].expiry + ChallengeWindow
  <2> SUFFICES ASSUME NEW b \in counted
               PROVE  /\ b \in Bonds /\ bond[b].st = "unspent" /\ bond[b].at < height
                      /\ \A x \in Spends[t].ins : BondScript[b].operator = Box[x].operator =>
                           BondScript[b].refund >= Box[x].expiry + ChallengeWindow
    OBVIOUS
  <2>1. PICK o \in OperatorsOf(t) : b \in {Claim(o, i).bond : i \in EligibleBonds(o, t)}
    OBVIOUS
  <2>2. PICK i \in EligibleBonds(o, t) : b = Claim(o, i).bond
    BY <2>1
  <2>3. o \in Operators
    BY <1>2 DEF OperatorsOf
  <2> QED BY <1>2, <2>2, <2>3, EligibleFacts
<1>4. \A x \in Spends[t].ins : height + PromiseMargin < Box[x].expiry
  <2> SUFFICES ASSUME NEW x \in Spends[t].ins PROVE height + PromiseMargin < Box[x].expiry
    OBVIOUS
  <2>1. CheckPromise(Box[x].operator, t, seen)
    BY DEF Accept, OperatorsOf
  <2> QED BY <1>2, <2>1, CheckedMargin
<1>5. new.tx = t /\ new.tip = height /\ new.bonds = counted
  OBVIOUS
<1>6. height \in Nat /\ PromiseMargin \in Nat /\ ChallengeWindow \in Nat
  BY InstantAssumption DEF InstantAssumption, TypeOK
<1> HIDE DEF counted, new
<1>7. TypeOK'
  <2>1. new \in [tx : Txs, tip : Nat, informed : BOOLEAN, bonds : SUBSET Bonds]
    BY <1>3, <1>6 DEF new
  <2> QED BY <1>1, <2>1 DEF TypeOK
<1>8. HonestOnce' /\ SpendsJustified' /\ RefundsLate' /\ HonestNeverSlashed'
  BY <1>1 DEF HonestOnce, SpendsJustified, Promised, RefundsLate, HonestNeverSlashed
<1>9. AcceptedSound'
  BY <1>1, <1>4, <1>5, <1>6 DEF AcceptedSound, Accept, Cooperative, Promised
<1>10. CountedBonds'
  BY <1>1, <1>3, <1>5 DEF CountedBonds
<1>11. WindowOpen'
  <2>1. \A x \in Spends[t].ins : height < Box[x].expiry + ChallengeWindow
    BY <1>2, <1>4, <1>6
  <2> QED BY <1>1, <1>3, <1>5, <2>1 DEF WindowOpen, RobbedVisibly, RobbedAt, Extractable
<1> QED BY <1>7, <1>8, <1>9, <1>10, <1>11

-----------------------------------------------------------------------------
(* The chain. *)

(* A spend has a promise or comes after the expiry; bonds are as before.     *)
LEMMA MineKeeps ==
    ASSUME InstantInv, NEW t \in Txs, Mine(t)
    PROVE  InstantInv'
<1> USE DEF InstantInv
<1>1. PICK coop \in [Spends[t].ins -> BOOLEAN] :
        /\ \A x \in Spends[t].ins : IF coop[x] THEN Cooperative(x, t) ELSE TimeoutExit(x, t)
        /\ spend' = [x \in Lockboxes |->
                       IF x \in Spends[t].ins
                       THEN [tx |-> t, at |-> height + 1, coop |-> coop[x]]
                       ELSE spend[x]]
  BY DEF Mine
<1>2. UNCHANGED <<honest, height, promises, published, accepted, bond>>
      /\ Spends[t].lock < height + 1 /\ \A x \in Spends[t].ins : spend[x] = Unspent
  BY DEF Mine
<1>3. height \in Nat /\ Spends[t].lock \in Nat /\ Spends[t].ins \subseteq Lockboxes
      /\ ChallengeWindow \in Nat /\ \A x \in Lockboxes : Box[x].expiry \in Nat
  BY InstantAssumption DEF InstantAssumption, TypeOK
<1>4. TypeOK'
  BY <1>1, <1>2, <1>3 DEF TypeOK
<1>5. HonestOnce' /\ CountedBonds' /\ RefundsLate' /\ HonestNeverSlashed' /\ AcceptedSound'
  BY <1>2 DEF HonestOnce, CountedBonds, RefundsLate, HonestNeverSlashed, AcceptedSound, Promised
<1>6. SpendsJustified'
  <2> SUFFICES ASSUME NEW x \in Lockboxes
               PROVE  /\ spend'[x].at <= height + 1
                      /\ spend'[x].coop => spend'[x].tx # None /\ Promised(x, spend'[x].tx)
                      /\ spend'[x].tx # None /\ ~spend'[x].coop => Box[x].expiry < spend'[x].at
    BY <1>2 DEF SpendsJustified, Promised
  <2>1. CASE x \in Spends[t].ins
    <3>1. spend'[x].tx = t /\ spend'[x].at = height + 1 /\ spend'[x].coop = coop[x]
      BY <1>1, <2>1
    <3>2. coop[x] => Promised(x, t)
      BY <1>1, <2>1 DEF Cooperative
    <3>3. ~coop[x] => Box[x].expiry < height + 1
      <4>1. ~coop[x] => TimeoutExit(x, t)
        BY <1>1, <2>1
      <4>2. TimeoutExit(x, t) => Box[x].expiry < height + 1
        BY <1>2, <1>3 DEF TimeoutExit
      <4> QED BY <4>1, <4>2
    <3>4. t # None /\ height + 1 <= height + 1
      BY <1>3, InstantAssumption DEF InstantAssumption
    <3>5. CASE coop[x] = TRUE
      BY <3>1, <3>2, <3>4, <3>5
    <3>6. CASE coop[x] = FALSE
      BY <3>1, <3>3, <3>4, <3>6
    <3>7. coop[x] \in BOOLEAN
      BY <2>1
    <3> QED BY <3>5, <3>6, <3>7
  <2>2. CASE x \notin Spends[t].ins
    BY <1>1, <2>2 DEF SpendsJustified
  <2> QED BY <2>1, <2>2
<1>7. WindowOpen'
  <2> SUFFICES ASSUME NEW a \in accepted, NEW x \in Lockboxes, NEW b \in a.bonds,
                      RobbedVisibly(a, x)', BondScript[b].operator = Box[x].operator
               PROVE  /\ bond[b].st # "refunded"
                      /\ bond[b].st = "unspent" => height < Box[x].expiry + ChallengeWindow
    BY <1>2 DEF WindowOpen
  <2>1. CASE x \in Spends[t].ins
    <3>1. height + 1 <= Box[x].expiry
      BY <1>1, <2>1 DEF RobbedVisibly, RobbedAt
    <3>2. x \in Spends[a.tx].ins
      BY DEF RobbedVisibly, RobbedAt
    <3>3. BondScript[b].refund >= Box[x].expiry + ChallengeWindow
      BY <3>2 DEF CountedBonds
    <3>4. b \in Bonds /\ BondScript[b].refund \in Nat
      BY InstantAssumption DEF InstantAssumption, TypeOK
    <3>5. bond[b].st # "refunded"
      BY <1>3, <3>1, <3>3, <3>4 DEF RefundsLate
    <3> QED BY <1>3, <3>1, <3>5
  <2>2. CASE x \notin Spends[t].ins
    BY <1>1, <2>2 DEF WindowOpen, RobbedVisibly, RobbedAt, Extractable
  <2> QED BY <2>1, <2>2
<1> QED BY <1>4, <1>5, <1>6, <1>7

(* A counted bond is too deep for a reorganisation.                          *)
LEMMA ReorgKeeps ==
    ASSUME InstantInv, NEW b \in Bonds, Reorg(b)
    PROVE  InstantInv'
<1> USE DEF InstantInv
<1> DEFINE gone == [st |-> "gone", at |-> 0, burned |-> 0]
<1>1. /\ UNCHANGED <<honest, height, promises, published, accepted, spend>>
      /\ bond[b].st = "unspent" /\ Confirmations(b) < 2 /\ bond' = [bond EXCEPT ![b] = gone]
  BY DEF Reorg
<1>2. height \in Nat /\ bond[b].at \in Nat
  BY DEF TypeOK
<1>3. ~(bond[b].at < height)
  BY <1>1, <1>2 DEF Confirmations
<1>4. bond'[b].st = "gone" /\ \A c \in Bonds : c # b => bond'[c] = bond[c]
  BY <1>1 DEF TypeOK
<1>5. TypeOK'
  BY <1>1 DEF TypeOK
<1>6. HonestOnce' /\ SpendsJustified' /\ AcceptedSound'
  BY <1>1 DEF HonestOnce, SpendsJustified, AcceptedSound, Promised
<1>7. \A a \in accepted : b \notin a.bonds /\ a.bonds \subseteq Bonds
  BY <1>1, <1>3 DEF CountedBonds, TypeOK
<1>8. CountedBonds' /\ WindowOpen'
  BY <1>1, <1>4, <1>7 DEF CountedBonds, WindowOpen, RobbedVisibly, RobbedAt, Extractable
<1>9. RefundsLate' /\ HonestNeverSlashed'
  BY <1>1, <1>4 DEF RefundsLate, HonestNeverSlashed
<1> QED BY <1>5, <1>6, <1>8, <1>9

(* Evidence exists only against operators that broke the rule.               *)
LEMMA PenaltyKeeps ==
    ASSUME InstantInv, NEW b \in Bonds, NEW fee \in Nat, Penalty(b, fee)
    PROVE  InstantInv'
<1> USE DEF InstantInv
<1> DEFINE burned == PenaltyTx(BondScript[b].amount, fee).burn
           slashed == [st |-> "slashed", at |-> 0, burned |-> burned]
<1>1. /\ UNCHANGED <<honest, height, promises, published, accepted, spend>>
      /\ bond[b].st = "unspent" /\ bond' = [bond EXCEPT ![b] = slashed]
      /\ \E p, q \in promises : Evidence(BondScript[b].operator, p, q)
  BY DEF Penalty
<1>2. burned \in Nat
  BY BurnNat, InstantAssumption DEF InstantAssumption
<1> HIDE DEF burned
<1>3. bond'[b].st = "slashed" /\ \A c \in Bonds : c # b => bond'[c] = bond[c]
  BY <1>1 DEF TypeOK
<1>4. TypeOK'
  BY <1>1, <1>2 DEF TypeOK
<1>5. HonestOnce' /\ SpendsJustified' /\ AcceptedSound'
  BY <1>1 DEF HonestOnce, SpendsJustified, AcceptedSound, Promised
<1>6. \A a \in accepted : a.bonds \subseteq Bonds
  BY DEF TypeOK
<1>7. CountedBonds' /\ WindowOpen' /\ RefundsLate'
  BY <1>1, <1>3, <1>6 DEF CountedBonds, WindowOpen, RobbedVisibly, RobbedAt, Extractable, RefundsLate
<1>8. BondScript[b].operator \notin honest
  BY <1>1 DEF Evidence, HonestOnce
<1>9. HonestNeverSlashed'
  BY <1>1, <1>3, <1>8 DEF HonestNeverSlashed
<1> QED BY <1>4, <1>5, <1>7, <1>9

(* A refund comes after the challenge window of every robbed lockbox.        *)
LEMMA RefundKeeps ==
    ASSUME InstantInv, NEW b \in Bonds, Refund(b)
    PROVE  InstantInv'
<1> USE DEF InstantInv
<1> DEFINE refunded == [st |-> "refunded", at |-> 0, burned |-> 0]
<1>1. /\ UNCHANGED <<honest, height, promises, published, accepted, spend>>
      /\ bond[b].st = "unspent" /\ BondScript[b].refund < height + 1
      /\ bond' = [bond EXCEPT ![b] = refunded]
  BY DEF Refund
<1>2. bond'[b].st = "refunded" /\ \A c \in Bonds : c # b => bond'[c] = bond[c]
  BY <1>1 DEF TypeOK
<1>3. TypeOK'
  BY <1>1 DEF TypeOK
<1>4. HonestOnce' /\ SpendsJustified' /\ AcceptedSound'
  BY <1>1 DEF HonestOnce, SpendsJustified, AcceptedSound, Promised
<1>5. \A a \in accepted : a.bonds \subseteq Bonds
  BY DEF TypeOK
<1>6. CountedBonds' /\ HonestNeverSlashed'
  BY <1>1, <1>2, <1>5 DEF CountedBonds, HonestNeverSlashed
<1>7. height \in Nat /\ BondScript[b].refund \in Nat /\ ChallengeWindow \in Nat
      /\ \A x \in Lockboxes : Box[x].expiry \in Nat
  BY InstantAssumption DEF TypeOK, InstantAssumption
<1>8. RefundsLate'
  BY <1>1, <1>2, <1>7 DEF RefundsLate
<1>9. \A a \in accepted : \A x \in Lockboxes :
        ~(b \in a.bonds /\ RobbedVisibly(a, x) /\ BondScript[b].operator = Box[x].operator)
  BY <1>1, <1>7 DEF WindowOpen, CountedBonds, RobbedVisibly, RobbedAt
<1>10. WindowOpen'
  BY <1>1, <1>2, <1>5, <1>9 DEF WindowOpen, RobbedVisibly, RobbedAt, Extractable
<1> QED BY <1>3, <1>4, <1>6, <1>8, <1>10

(* The challenge window closes only after the penalty.                       *)
LEMMA TickKeeps ==
    ASSUME InstantInv, Tick
    PROVE  InstantInv'
<1> USE DEF InstantInv
<1>1. height' = height + 1 /\ ~PenaltyDue /\ UNCHANGED <<honest, promises, published, accepted, spend, bond>>
      /\ height \in Nat
  BY DEF Tick, TypeOK
<1>2. TypeOK'
  BY <1>1 DEF TypeOK
<1>3. HonestOnce' /\ HonestNeverSlashed'
  BY <1>1 DEF HonestOnce, HonestNeverSlashed
<1>4. SpendsJustified'
  BY <1>1 DEF SpendsJustified, Promised, TypeOK
<1>5. AcceptedSound'
  BY <1>1 DEF AcceptedSound, Promised, TypeOK
<1>6. CountedBonds'
  BY <1>1 DEF CountedBonds, TypeOK
<1>7. RefundsLate'
  BY <1>1, InstantAssumption DEF RefundsLate, InstantAssumption
<1>8. WindowOpen'
  <2> SUFFICES ASSUME NEW a \in accepted, NEW x \in Lockboxes, NEW b \in a.bonds,
                      RobbedVisibly(a, x), BondScript[b].operator = Box[x].operator
               PROVE  /\ bond[b].st # "refunded"
                      /\ bond[b].st = "unspent" => height + 1 < Box[x].expiry + ChallengeWindow
    BY <1>1 DEF WindowOpen, RobbedVisibly, RobbedAt, Extractable
  <2>1. bond[b].st # "refunded"
    BY DEF WindowOpen
  <2>2. ASSUME bond[b].st = "unspent" PROVE height + 1 < Box[x].expiry + ChallengeWindow
    <3>1. b \in Bonds
      BY DEF TypeOK
    <3>2. spend[x].at \in Nat /\ Box[x].expiry \in Nat /\ ChallengeWindow \in Nat
      BY InstantAssumption DEF TypeOK, InstantAssumption
    <3>3. spend[x].at <= Box[x].expiry
      BY DEF RobbedVisibly, RobbedAt
    <3>4. Conflict(x)
      BY DEF Conflict, RobbedVisibly, RobbedAt, AcceptedSound
    <3>5. ~(spend[x].at + ChallengeWindow <= height + 1)
      BY <1>1, <2>2, <3>1, <3>4 DEF PenaltyDue
    <3> QED BY <1>1, <3>2, <3>3, <3>5
  <2> QED BY <2>1, <2>2
<1> QED BY <1>2, <1>3, <1>4, <1>5, <1>6, <1>7, <1>8

-----------------------------------------------------------------------------
(* Every step preserves the invariant.                                       *)
LEMMA InstantNext == InstantInv /\ [Next]_vars => InstantInv'
<1> SUFFICES ASSUME InstantInv, [Next]_vars PROVE InstantInv'
  OBVIOUS
<1>1. ASSUME NEW t \in Txs, NEW o \in Operators, PromiseHonestly(o, t) PROVE InstantInv'
  BY <1>1, PromiseHonestlyKeeps
<1>2. ASSUME NEW t \in Txs, NEW x \in Lockboxes, PromiseAnything(x, t) PROVE InstantInv'
  BY <1>2, PromiseAnythingKeeps
<1>3. ASSUME NEW t \in Txs, Publish(t) \/ Mine(t) \/ \E seen \in SUBSET published : Accept(t, seen)
      PROVE  InstantInv'
  BY <1>3, PublishKeeps, AcceptKeeps, MineKeeps
<1>4. ASSUME NEW b \in Bonds, Reorg(b) \/ Refund(b) PROVE InstantInv'
  BY <1>4, ReorgKeeps, RefundKeeps
<1>5. ASSUME NEW b \in Bonds, NEW fee \in 0..BondScript[b].amount, Penalty(b, fee) PROVE InstantInv'
  <2>1. fee \in Nat
    BY InstantAssumption DEF InstantAssumption
  <2> QED BY <1>5, <2>1, PenaltyKeeps
<1>6. CASE Tick
  BY <1>6, TickKeeps
<1>7. CASE UNCHANGED vars
  BY <1>7 DEF vars, InstantInv, TypeOK, HonestOnce, SpendsJustified, AcceptedSound, CountedBonds,
              RefundsLate, WindowOpen, HonestNeverSlashed, RobbedVisibly, RobbedAt, Extractable,
              Promised
<1> QED BY <1>1, <1>2, <1>3, <1>4, <1>5, <1>6, <1>7 DEF Next

(* The invariant holds in every reachable state.                             *)
LEMMA InstantInvariant == Spec => []InstantInv
BY InstantInit, InstantNext, PTL DEF Spec

(* Every variable stays in its type.                                         *)
THEOREM TypeCorrect == Spec => []TypeOK
BY InstantInvariant, PTL DEF InstantInv

(* An operator that keeps to one promise per lockbox never loses a bond.     *)
THEOREM HonestNeverSlashedHolds == Spec => []HonestNeverSlashed
BY InstantInvariant, PTL DEF InstantInv

(* The invariant makes accepted transactions of honest operators final.      *)
LEMMA InvHonestDone == InstantInv => HonestDone
<1> SUFFICES ASSUME InstantInv, NEW a \in accepted, OperatorsOf(a.tx) \subseteq honest,
                    height <= a.tip + PromiseMargin, NEW x \in Spends[a.tx].ins,
                    spend[x].tx # None
             PROVE  spend[x].tx = a.tx
  BY DEF HonestDone
<1> USE DEF InstantInv
<1>1. x \in Lockboxes /\ Box[x].operator \in honest /\ Box[x].expiry \in Nat /\ PromiseMargin \in Nat
  BY InstantAssumption DEF InstantAssumption, TypeOK, OperatorsOf
<1>2. height \in Nat /\ a.tip \in Nat /\ spend[x].at \in Nat
  BY <1>1 DEF TypeOK
<1>3. Promised(x, a.tx) /\ height < Box[x].expiry
  BY <1>1, <1>2 DEF AcceptedSound
<1>4. spend[x].at <= height + 1
  BY <1>1 DEF SpendsJustified
<1>5. spend[x].coop
  BY <1>1, <1>2, <1>3, <1>4 DEF SpendsJustified
<1>6. Promised(x, spend[x].tx)
  BY <1>1, <1>5 DEF SpendsJustified
<1> QED BY <1>1, <1>3, <1>6 DEF HonestOnce, Promised

(* For as long as the margin promises, only the accepted transaction spends  *)
(* the lockboxes of honest operators, whatever the owners have signed.       *)
THEOREM HonestDoneHolds == Spec => []HonestDone
BY InstantInvariant, InvHonestDone, PTL

(* The invariant makes visibly broken promises punishable.                   *)
LEMMA InvPunishable == InstantInv => Punishable
<1> SUFFICES ASSUME InstantInv, NEW a \in accepted, NEW x \in Lockboxes, RobbedVisibly(a, x)
             PROVE  /\ \E p, q \in Visible : Evidence(Box[x].operator, p, q)
                    /\ \A b \in a.bonds : BondScript[b].operator = Box[x].operator =>
                         bond[b].st \in {"unspent", "slashed"}
  BY DEF Punishable
<1> USE DEF InstantInv
<1> DEFINE p == [box |-> x, tx |-> spend[x].tx]
           q == [box |-> x, tx |-> a.tx]
<1>3. p \in Visible
  BY DEF Visible, RobbedVisibly
<1>4. q \in Visible
  BY DEF Visible, RobbedVisibly, RobbedAt, AcceptedSound, Promised
<1>5. Evidence(Box[x].operator, p, q)
  BY DEF Evidence, RobbedVisibly, RobbedAt
<1>6. \A b \in a.bonds : b \in Bonds /\ bond[b].st # "gone"
  BY DEF CountedBonds, TypeOK
<1>7. \A b \in a.bonds : BondScript[b].operator = Box[x].operator => bond[b].st # "refunded"
  BY DEF WindowOpen
<1>8. \A b \in Bonds : bond[b].st \in {"unspent", "slashed", "refunded", "gone"}
  BY DEF TypeOK
<1> QED BY <1>3, <1>4, <1>5, <1>6, <1>7, <1>8

(* No promise a wallet relied on is broken by a transaction whose commitment *)
(* can be computed without evidence in sight and every counted bond of the   *)
(* operator still there to be taken.                                         *)
THEOREM PunishableHolds == Spec => []Punishable
BY InstantInvariant, InvPunishable, PTL

-----------------------------------------------------------------------------
(* What the bonds cover. *)

(* Eighths round down: what is not the reporter's share is a natural number. *)
LEMMA EffectiveNat == ASSUME NEW amount \in Nat PROVE EffectiveCover(amount) \in Nat
BY DEF EffectiveCover, Reward

(* The functions that are summed have natural values.                        *)
LEMMA ValuesNat ==
    /\ \A t \in Txs : [s \in Txs |-> Spends[s].value][t] \in Nat
    /\ \A b \in Bonds : [c \in Bonds |-> EffectiveCover(BondScript[c].amount)][b] \in Nat
<1>1. \A t \in Txs : Spends[t].value \in Nat
  BY InstantAssumption DEF InstantAssumption
<1>2. \A b \in Bonds : EffectiveCover(BondScript[b].amount) \in Nat
  BY InstantAssumption, EffectiveNat DEF InstantAssumption
<1> QED BY <1>1, <1>2

(* What bonds cover is a natural number.                                     *)
LEMMA CoverNat == ASSUME NEW bonds \in SUBSET Bonds PROVE BondCover(bonds) \in Nat
<1> DEFINE f == [b \in Bonds |-> EffectiveCover(BondScript[b].amount)]
<1>1. IsFiniteSet(bonds) /\ \A b \in bonds : f[b] \in Nat
  BY ValuesNat, InstantAssumption, FS_Subset DEF InstantAssumption
<1> HIDE DEF f
<1> QED BY <1>1, SumNat DEF BondCover, f

(* The value at risk of no transaction is none.                              *)
LEMMA NothingAtRisk == Value({}) = 0
BY SumEmpty DEF Value

(* The values of some transactions are at most those of more of them.        *)
LEMMA MoreAtRisk ==
    ASSUME NEW txs \in SUBSET Txs, IsFiniteSet(txs), NEW some \in SUBSET txs
    PROVE  Value(some) \in Nat /\ Value(txs) \in Nat /\ Value(some) <= Value(txs)
<1> DEFINE f == [s \in Txs |-> Spends[s].value]
<1>1. \A t \in txs : f[t] \in Nat
  BY ValuesNat
<1>2. IsFiniteSet(some) /\ \A t \in some : f[t] \in Nat
  BY <1>1, FS_Subset
<1> HIDE DEF f
<1>3. SumFunctionOnSet(f, some) <= SumFunctionOnSet(f, txs)
  BY <1>1, SumSubset
<1>4. SumFunctionOnSet(f, some) \in Nat /\ SumFunctionOnSet(f, txs) \in Nat
  BY <1>1, <1>2, SumNat
<1> QED BY <1>3, <1>4 DEF Value, f

(* The value at risk of one transaction and of others.                       *)
LEMMA OneMoreAtRisk ==
    ASSUME NEW txs \in SUBSET Txs, IsFiniteSet(txs), NEW t \in Txs, t \notin txs
    PROVE  Value(txs \cup {t}) = Value(txs) + Spends[t].value
<1> DEFINE f == [s \in Txs |-> Spends[s].value]
<1>1. (\A s \in txs : f[s] \in Int) /\ f[t] \in Int /\ f[t] = Spends[t].value
  BY ValuesNat
<1> HIDE DEF f
<1>2. SumFunctionOnSet(f, txs \cup {t}) = SumFunctionOnSet(f, txs) + f[t]
  BY <1>1, SumAdd
<1> QED BY <1>1, <1>2 DEF Value, f

-----------------------------------------------------------------------------
(* The initial state satisfies the second part of the invariant.             *)
LEMMA CoverInit == Init => CoverInv
<1> SUFFICES ASSUME Init PROVE CoverInv
  OBVIOUS
<1>1. PublishedFinite /\ SlashedBurn
  BY FS_EmptySet DEF Init, PublishedFinite, SlashedBurn
<1>2. Atomic
  BY InstantAssumption DEF Init, Atomic, Unspent, InstantAssumption
<1>3. Exposure
  BY DEF Init, Exposure, Pending
<1> QED BY <1>1, <1>2, <1>3 DEF CoverInv

(* Steps that leave the chain, what is accepted and the bonds alone.         *)
LEMMA AsideKeeps ==
    ASSUME CoverInv, UNCHANGED <<accepted, spend, bond>>, IsFiniteSet(published')
    PROVE  CoverInv'
<1>1. PublishedFinite' /\ Atomic' /\ SlashedBurn'
  BY DEF CoverInv, PublishedFinite, Atomic, SlashedBurn
<1>2. Exposure'
  BY DEF CoverInv, Exposure, Pending, Confirmed, CountedOf, Informed
<1> QED BY <1>1, <1>2 DEF CoverInv

(* The bonds that were counted for the new entry are those found eligible:   *)
(* if none of them is listed twice, their cover is what they lose.           *)
LEMMA CountedAtAccept ==
    ASSUME TypeOK, NEW t \in Txs, NEW o \in OperatorsOf(t), NEW a, ListedOnce(o),
           a.bonds = UNION {{Claim(p, i).bond : i \in EligibleBonds(p, t)} : p \in OperatorsOf(t)}
    PROVE  Cover(o, EligibleBonds(o, t)) = BondCover(CountedOf(o, a)) /\ CountedOf(o, a) \in SUBSET Bonds
<1> DEFINE S == EligibleBonds(o, t)
           T == CountedOf(o, a)
           n == Len(Announced[o])
           claimed == [i \in DOMAIN Announced[o] |-> EffectiveCover(BondScript[Claim(o, i).bond].amount)]
           burned == [b \in Bonds |-> EffectiveCover(BondScript[b].amount)]
           h == [i \in S |-> Claim(o, i).bond]
<1>1. OperatorsOf(t) \subseteq Operators
  BY InstantAssumption DEF InstantAssumption, OperatorsOf
<1>2. \A p \in OperatorsOf(t) : \A i \in EligibleBonds(p, t) :
        Claim(p, i).bond \in Bonds /\ BondScript[Claim(p, i).bond].operator = p
  <2> SUFFICES ASSUME NEW p \in OperatorsOf(t), NEW i \in EligibleBonds(p, t)
               PROVE  Claim(p, i).bond \in Bonds /\ BondScript[Claim(p, i).bond].operator = p
    OBVIOUS
  <2>1. PICK b : b = Claim(p, i).bond
    OBVIOUS
  <2> QED BY <1>1, <2>1, EligibleFacts
<1>3. T = {Claim(o, i).bond : i \in S} /\ T \subseteq Bonds
  BY <1>2 DEF CountedOf
<1>4. Announced[o] \in Seq([bond : Bonds, refund : Nat])
  BY <1>1, InstantAssumption DEF InstantAssumption
<1>5. n \in Nat /\ DOMAIN Announced[o] = 1..n
  BY <1>4, SeqIs
<1>6. S \subseteq DOMAIN Announced[o]
  BY DEF EligibleBonds, KnownBonds
<1>7. IsFiniteSet(S)
  <2>1. IsFiniteSet(1..n) /\ S \subseteq 1..n
    BY <1>5, <1>6, Positions
  <2> QED BY ONLY <2>1, FS_Subset
<1>8. \A i, j \in S : h[i] = h[j] => i = j
  <2> SUFFICES ASSUME NEW i \in S, NEW j \in S, Claim(o, i).bond = Claim(o, j).bond PROVE i = j
    OBVIOUS
  <2>1. Claim(o, i).refund = BondScript[Claim(o, i).bond].refund
        /\ Claim(o, j).refund = BondScript[Claim(o, j).bond].refund
    BY DEF EligibleBonds, KnownBonds
  <2>2. Claim(o, i) \in [bond : Bonds, refund : Nat] /\ Claim(o, j) \in [bond : Bonds, refund : Nat]
    <3>1. PICK listed : listed = Announced[o]
      OBVIOUS
    <3>2. i \in 1..Len(listed) /\ j \in 1..Len(listed)
      BY <1>5, <1>6, <3>1
    <3>3. listed[i] \in [bond : Bonds, refund : Nat] /\ listed[j] \in [bond : Bonds, refund : Nat]
      BY <1>4, <3>1, <3>2, ElementOfSeq
    <3> QED BY <3>1, <3>3 DEF Claim
  <2>3. Announced[o][i] = Announced[o][j]
    BY <2>1, <2>2 DEF Claim
  <2> QED BY <1>6, <2>3 DEF ListedOnce, IsInjective
<1>9. h \in [S -> T] /\ \A b \in T : \E i \in S : h[i] = b
  BY <1>3
<1>10. \A i \in S : claimed[i] = burned[h[i]] /\ claimed[i] \in Int
  <2>1. \A b \in Bonds : EffectiveCover(BondScript[b].amount) \in Nat
    BY InstantAssumption, EffectiveNat DEF InstantAssumption
  <2> QED BY <1>3, <1>6, <2>1
<1>11. claimed = [i \in DOMAIN Announced[o] |-> EffectiveCover(BondScript[Claim(o, i).bond].amount)]
       /\ burned = [b \in Bonds |-> EffectiveCover(BondScript[b].amount)]
       /\ S = EligibleBonds(o, t) /\ T = CountedOf(o, a)
  OBVIOUS
<1> HIDE DEF S, T, claimed, burned, h
<1>12. SumFunctionOnSet(claimed, S) = SumFunctionOnSet(burned, T)
  BY <1>7, <1>8, <1>9, <1>10, SumRenamed
<1> QED BY <1>3, <1>11, <1>12 DEF Cover, BondCover

(* Whatever was pending before was in flight when the new one was checked.   *)
LEMMA AcceptCovered ==
    ASSUME InstantInv, CoverInv, NEW t \in Txs, NEW seen \in SUBSET published, Accept(t, seen)
    PROVE  CoverInv'
<1> DEFINE counted == UNION {{Claim(o, i).bond : i \in EligibleBonds(o, t)} : o \in OperatorsOf(t)}
           new == [tx |-> t, tip |-> height, informed |-> seen = published, bonds |-> counted]
<1>1. accepted' = accepted \cup {new} /\ UNCHANGED <<published, spend, bond>>
  BY DEF Accept
<1>2. /\ new.tx = t /\ new.informed = (seen = published)
      /\ new.bonds = UNION {{Claim(o, i).bond : i \in EligibleBonds(o, t)} : o \in OperatorsOf(t)}
  OBVIOUS
<1> HIDE DEF counted, new
<1>3. PublishedFinite' /\ Atomic' /\ SlashedBurn'
  BY <1>1 DEF CoverInv, PublishedFinite, Atomic, SlashedBurn
<1>4. Exposure'
  <2> SUFFICES ASSUME NEW o \in Operators, ListedOnce(o), Informed(o)',
                      NEW txs \in (SUBSET Txs) \ {{}}, Pending(o, txs)'
               PROVE  \E a \in accepted' : a.tx \in txs /\ Value(txs) <= BondCover(CountedOf(o, a))
    BY DEF Exposure, CountedOf
  <2>1. \A s \in txs : o \in OperatorsOf(s) /\ ~Confirmed(s) /\ \E a \in accepted' : a.tx = s
    BY <1>1 DEF Pending, Confirmed
  <2>2. CASE t \notin txs
    <3>1. Pending(o, txs)
      BY <1>1, <1>2, <2>1, <2>2 DEF Pending
    <3>2. Informed(o)
      BY <1>1 DEF Informed
    <3>3. PICK a \in accepted : a.tx \in txs /\ Value(txs) <= BondCover(CountedOf(o, a))
      BY <3>1, <3>2 DEF CoverInv, Exposure
    <3> QED BY <1>1, <3>3
  <2>3. CASE t \in txs
    <3> DEFINE rest == txs \ {t}
               flight == {s \in published \ {t} : o \in OperatorsOf(s) /\ ~Confirmed(s)}
    <3>1. rest \subseteq flight
      BY <1>1, <1>2, <2>1 DEF InstantInv, AcceptedSound
    <3>2. flight \in SUBSET Txs /\ IsFiniteSet(flight) /\ rest \in SUBSET Txs /\ IsFiniteSet(rest)
      <4>1. flight \subseteq published /\ published \subseteq Txs /\ IsFiniteSet(published)
        BY DEF InstantInv, TypeOK, CoverInv, PublishedFinite
      <4> QED BY <3>1, <4>1, FS_Subset
    <3>3. o \in OperatorsOf(t) /\ t \notin rest /\ txs = rest \cup {t}
      BY <2>1, <2>3
    <3>4. seen = published
      BY <1>1, <1>2, <3>3 DEF Informed
    <3>5. Value(flight) + Spends[t].value <= Cover(o, EligibleBonds(o, t))
      <4>1. CheckPromise(o, t, published)
        BY <3>3, <3>4 DEF Accept
      <4> QED BY <4>1 DEF CheckPromise, InFlight
    <3> HIDE DEF rest, flight
    <3>6. Value(rest) <= Value(flight) /\ Value(rest) \in Nat /\ Value(flight) \in Nat
      BY <3>1, <3>2, MoreAtRisk
    <3>7. Value(txs) = Value(rest) + Spends[t].value
      BY <3>2, <3>3, OneMoreAtRisk
    <3>8. Cover(o, EligibleBonds(o, t)) = BondCover(CountedOf(o, new)) /\ CountedOf(o, new) \in SUBSET Bonds
      BY <1>2, <3>3, CountedAtAccept DEF InstantInv
    <3>9. Spends[t].value \in Nat /\ BondCover(CountedOf(o, new)) \in Nat
      BY <3>8, CoverNat, InstantAssumption DEF InstantAssumption
    <3>10. Value(txs) <= BondCover(CountedOf(o, new))
      BY <3>5, <3>6, <3>7, <3>8, <3>9
    <3> QED BY <1>1, <1>2, <2>3, <3>10
  <2> QED BY <2>2, <2>3
<1> QED BY <1>3, <1>4 DEF CoverInv

(* A mined transaction takes all its lockboxes; what is left was unmined.    *)
LEMMA MineCovered ==
    ASSUME InstantInv, CoverInv, NEW t \in Txs, Mine(t)
    PROVE  CoverInv'
<1>1. PICK coop \in [Spends[t].ins -> BOOLEAN] :
        spend' = [x \in Lockboxes |->
                    IF x \in Spends[t].ins
                    THEN [tx |-> t, at |-> height + 1, coop |-> coop[x]]
                    ELSE spend[x]]
  BY DEF Mine
<1>2. UNCHANGED <<published, accepted, bond>> /\ \A x \in Spends[t].ins : spend[x] = Unspent
  BY DEF Mine
<1>3. None \notin Txs /\ \A s \in Txs : Spends[s].ins \subseteq Lockboxes
  BY InstantAssumption DEF InstantAssumption
<1>4. \A x \in Lockboxes : IF x \in Spends[t].ins THEN spend'[x].tx = t /\ spend[x].tx = None
                                                  ELSE spend'[x] = spend[x]
  BY <1>1, <1>2 DEF Unspent
<1>5. Atomic'
  <2> SUFFICES ASSUME NEW s \in Txs, NEW x \in Spends[s].ins, NEW y \in Spends[s].ins,
                      spend'[x].tx = s
               PROVE  spend'[y].tx = s
    BY DEF Atomic
  <2>1. CASE s = t
    BY <1>3, <1>4, <2>1
  <2>2. CASE s # t
    <3>1. spend[x].tx = s
      BY <1>3, <1>4, <2>2
    <3>2. spend[y].tx = s
      BY <3>1 DEF CoverInv, Atomic
    <3> QED BY <1>3, <1>4, <3>2
  <2> QED BY <2>1, <2>2
<1>6. \A s \in Txs : Confirmed(s) => Confirmed(s)'
  BY <1>3, <1>4 DEF Confirmed
<1>7. \A o \in Operators : \A txs \in SUBSET Txs : Pending(o, txs)' => Pending(o, txs)
  BY <1>2, <1>6 DEF Pending
<1>8. Exposure'
  BY <1>2, <1>7 DEF CoverInv, Exposure, CountedOf, Informed
<1>9. PublishedFinite' /\ SlashedBurn'
  BY <1>2 DEF CoverInv, PublishedFinite, SlashedBurn
<1> QED BY <1>5, <1>8, <1>9 DEF CoverInv

(* A bond changes; a slashed one burns all but the reporter's eighth.        *)
LEMMA BondsCovered ==
    ASSUME InstantInv, CoverInv, NEW b \in Bonds,
           Reorg(b) \/ Refund(b) \/ \E fee \in Nat : Penalty(b, fee)
    PROVE  CoverInv'
<1>1. UNCHANGED <<published, accepted, spend>>
  BY DEF Reorg, Refund, Penalty
<1>2. PublishedFinite' /\ Atomic' /\ Exposure'
  BY <1>1 DEF CoverInv, PublishedFinite, Atomic, Exposure, Pending, Confirmed, CountedOf, Informed
<1>3. PICK out : /\ bond' = [bond EXCEPT ![b] = out]
                 /\ out.st = "slashed" => out.burned = EffectiveCover(BondScript[b].amount)
  <2>1. CASE Reorg(b)
    <3> DEFINE out == [st |-> "gone", at |-> 0, burned |-> 0]
    <3>1. bond' = [bond EXCEPT ![b] = out] /\ out.st # "slashed"
      BY <2>1 DEF Reorg
    <3> QED BY <3>1
  <2>2. CASE Refund(b)
    <3> DEFINE out == [st |-> "refunded", at |-> 0, burned |-> 0]
    <3>1. bond' = [bond EXCEPT ![b] = out] /\ out.st # "slashed"
      BY <2>2 DEF Refund
    <3> QED BY <3>1
  <2>3. ASSUME NEW fee \in Nat, Penalty(b, fee)
        PROVE  \E out : /\ bond' = [bond EXCEPT ![b] = out]
                        /\ out.st = "slashed" => out.burned = EffectiveCover(BondScript[b].amount)
    <3> DEFINE out == [st |-> "slashed", at |-> 0,
                       burned |-> PenaltyTx(BondScript[b].amount, fee).burn]
    <3>1. bond' = [bond EXCEPT ![b] = out]
      BY <2>3 DEF Penalty
    <3>2. out.burned = EffectiveCover(BondScript[b].amount)
      BY DEF PenaltyTx, EffectiveCover
    <3> QED BY <3>1, <3>2
  <2> QED BY <2>1, <2>2, <2>3
<1>4. bond'[b] = out /\ \A c \in Bonds : c # b => bond'[c] = bond[c]
  BY <1>3 DEF InstantInv, TypeOK
<1>5. SlashedBurn'
  BY <1>3, <1>4 DEF CoverInv, SlashedBurn
<1> QED BY <1>2, <1>5 DEF CoverInv

(* Every step preserves the second part of the invariant.                    *)
LEMMA CoverNext == InstantInv /\ CoverInv /\ [Next]_vars => CoverInv'
<1> SUFFICES ASSUME InstantInv, CoverInv, [Next]_vars PROVE CoverInv'
  OBVIOUS
<1>1. IsFiniteSet(published)
  BY DEF CoverInv, PublishedFinite
<1>2. ASSUME NEW t \in Txs, NEW o \in Operators, PromiseHonestly(o, t) PROVE CoverInv'
  BY <1>1, <1>2, AsideKeeps DEF PromiseHonestly
<1>3. ASSUME NEW t \in Txs, NEW x \in Lockboxes, PromiseAnything(x, t) PROVE CoverInv'
  BY <1>1, <1>3, AsideKeeps DEF PromiseAnything
<1>4. ASSUME NEW t \in Txs, Publish(t) PROVE CoverInv'
  <2>1. IsFiniteSet(published')
    BY <1>1, <1>4, FS_AddElement DEF Publish
  <2> QED BY <1>4, <2>1, AsideKeeps DEF Publish
<1>5. ASSUME NEW t \in Txs, Mine(t) \/ \E seen \in SUBSET published : Accept(t, seen) PROVE CoverInv'
  BY <1>5, AcceptCovered, MineCovered
<1>6. ASSUME NEW b \in Bonds, Reorg(b) \/ Refund(b) PROVE CoverInv'
  BY <1>6, BondsCovered
<1>7. ASSUME NEW b \in Bonds, NEW fee \in 0..BondScript[b].amount, Penalty(b, fee) PROVE CoverInv'
  <2>1. fee \in Nat
    BY InstantAssumption DEF InstantAssumption
  <2> QED BY <1>7, <2>1, BondsCovered
<1>8. CASE Tick
  BY <1>1, <1>8, AsideKeeps DEF Tick
<1>9. CASE UNCHANGED vars
  BY <1>1, <1>9, AsideKeeps DEF vars
<1> QED BY <1>2, <1>3, <1>4, <1>5, <1>6, <1>7, <1>8, <1>9 DEF Next

(* Both parts hold in every reachable state.                                 *)
LEMMA CoverInvariant == Spec => [](InstantInv /\ CoverInv)
<1>1. Init => InstantInv /\ CoverInv
  BY InstantInit, CoverInit
<1>2. InstantInv /\ CoverInv /\ [Next]_vars => (InstantInv /\ CoverInv)'
  BY InstantNext, CoverNext
<1> QED BY <1>1, <1>2, PTL DEF Spec

(* The bonds counted for the last of the robbed transactions were enough for *)
(* all of them, and none of those bonds has escaped.                         *)
LEMMA InvTheftCovered == InstantInv /\ CoverInv => TheftCovered
<1> SUFFICES ASSUME InstantInv, CoverInv PROVE TheftCovered
  OBVIOUS
<1> SUFFICES ASSUME NEW o \in Operators, ListedOnce(o), Informed(o)
    PROVE  LET robbed == {a.tx : a \in {c \in accepted :
                             \E x \in Lockboxes : Box[x].operator = o /\ RobbedVisibly(c, x)}}
               mine(st) == {b \in Bonds : BondScript[b].operator = o /\ bond[b].st = st}
           IN  Value(robbed) <=
                   SumFunctionOnSet([b \in Bonds |-> bond[b].burned], mine("slashed"))
                   + SumFunctionOnSet([b \in Bonds |-> PenaltyTx(BondScript[b].amount, 0).burn],
                                      mine("unspent"))
  BY DEF TheftCovered
<1> DEFINE robbed == {a.tx : a \in {c \in accepted :
                         \E x \in Lockboxes : Box[x].operator = o /\ RobbedVisibly(c, x)}}
           slashed == {b \in Bonds : BondScript[b].operator = o /\ bond[b].st = "slashed"}
           unspent == {b \in Bonds : BondScript[b].operator = o /\ bond[b].st = "unspent"}
           burned == [b \in Bonds |-> bond[b].burned]
           toBurn == [b \in Bonds |-> PenaltyTx(BondScript[b].amount, 0).burn]
           cover == [b \in Bonds |-> EffectiveCover(BondScript[b].amount)]
<1>1. IsFiniteSet(slashed) /\ IsFiniteSet(unspent) /\ slashed \subseteq Bonds /\ unspent \subseteq Bonds
      /\ slashed \cap unspent = {}
  <2>1. IsFiniteSet(Bonds) /\ slashed \subseteq Bonds /\ unspent \subseteq Bonds
    BY InstantAssumption DEF InstantAssumption
  <2> QED BY <2>1, FS_Subset
<1>2. \A b \in Bonds : cover[b] \in Nat /\ cover[b] \in Int
  BY ValuesNat
<1>3. \A b \in slashed : burned[b] = cover[b]
  BY DEF CoverInv, SlashedBurn
<1>4. \A b \in unspent : toBurn[b] = cover[b]
  <2>1. \A b \in Bonds : BondScript[b].amount \in Nat
    BY InstantAssumption DEF InstantAssumption
  <2> QED BY <2>1 DEF PenaltyTx, EffectiveCover
<1>5. \A t \in robbed : \E a \in accepted, x \in Lockboxes :
        a.tx = t /\ Box[x].operator = o /\ RobbedVisibly(a, x)
  OBVIOUS
<1> SUFFICES Value(robbed) <= SumFunctionOnSet(burned, slashed) + SumFunctionOnSet(toBurn, unspent)
  OBVIOUS
<1> HIDE DEF robbed, slashed, unspent, burned, toBurn, cover
<1>6. SumFunctionOnSet(burned, slashed) + SumFunctionOnSet(toBurn, unspent)
        = SumFunctionOnSet(cover, slashed \cup unspent)
  <2>1. SumFunctionOnSet(burned, slashed) = SumFunctionOnSet(cover, slashed)
    BY <1>1, <1>3, SumSame
  <2>2. SumFunctionOnSet(toBurn, unspent) = SumFunctionOnSet(cover, unspent)
    BY <1>1, <1>4, SumSame
  <2>3. \A b \in slashed \cup unspent : cover[b] \in Int
    BY <1>1, <1>2
  <2> QED BY <1>1, <2>1, <2>2, <2>3, SumUnion
<1>7. IsFiniteSet(slashed \cup unspent) /\ \A b \in slashed \cup unspent : cover[b] \in Nat
  BY <1>1, <1>2, FS_Union
<1>8. SumFunctionOnSet(cover, slashed \cup unspent) \in Nat
  BY <1>7, SumNat
<1>9. CASE robbed = {}
  BY <1>6, <1>8, <1>9, NothingAtRisk
<1>10. CASE robbed # {}
  <2>1. robbed \subseteq Txs
    BY <1>5 DEF InstantInv, TypeOK
  <2>2. Pending(o, robbed)
    <3> SUFFICES ASSUME NEW t \in robbed
                 PROVE  o \in OperatorsOf(t) /\ ~Confirmed(t) /\ \E a \in accepted : a.tx = t
      BY DEF Pending
    <3>1. PICK a \in accepted, x \in Lockboxes : a.tx = t /\ Box[x].operator = o /\ RobbedVisibly(a, x)
      BY <1>5
    <3>2. t \in Txs /\ x \in Spends[t].ins /\ spend[x].tx # t
      BY <2>1, <3>1 DEF RobbedVisibly, RobbedAt
    <3>3. ~Confirmed(t)
      BY <3>2 DEF Confirmed, CoverInv, Atomic
    <3> QED BY <3>1, <3>2, <3>3 DEF OperatorsOf
  <2>3. PICK a \in accepted : a.tx \in robbed /\ Value(robbed) <= BondCover(CountedOf(o, a))
    BY <1>10, <2>1, <2>2 DEF CoverInv, Exposure
  <2>4. PICK x \in Lockboxes : Box[x].operator = o /\ RobbedVisibly(a, x)
    BY <1>5, <2>3 DEF RobbedVisibly, RobbedAt
  <2>5. CountedOf(o, a) \subseteq slashed \cup unspent
    <3>1. a.bonds \subseteq Bonds
      BY DEF InstantInv, TypeOK
    <3>2. \A b \in a.bonds : BondScript[b].operator = o => bond[b].st \in {"unspent", "slashed"}
      BY <2>4, InvPunishable DEF Punishable
    <3> QED BY <3>1, <3>2 DEF CountedOf, slashed, unspent
  <2>6. SumFunctionOnSet(cover, CountedOf(o, a)) <= SumFunctionOnSet(cover, slashed \cup unspent)
    BY <1>7, <2>5, SumSubset
  <2>7. SumFunctionOnSet(cover, CountedOf(o, a)) = BondCover(CountedOf(o, a))
    BY DEF BondCover, cover
  <2>8. BondCover(CountedOf(o, a)) \in Nat
    BY <1>1, <2>5, CoverNat
  <2>9. Value(robbed) \in Nat
    <3>1. robbed \subseteq published
      BY <1>5 DEF InstantInv, AcceptedSound
    <3>2. published \in SUBSET Txs /\ IsFiniteSet(published)
      BY DEF InstantInv, TypeOK, CoverInv, PublishedFinite
    <3> QED BY <3>1, <3>2, MoreAtRisk
  <2> QED BY <1>6, <1>8, <2>3, <2>6, <2>7, <2>8, <2>9
<1> QED BY <1>9, <1>10

(* Whoever breaks promises in sight takes no more from the wallets than the  *)
(* burned part of the bonds that were counted on, even when the operator     *)
(* reports itself first: as long as its announcement repeats no claim and    *)
(* the wallets had seen every receipt.                                       *)
THEOREM TheftCoveredHolds == Spec => []TheftCovered
BY CoverInvariant, InvTheftCovered, PTL

-----------------------------------------------------------------------------
(***************************************************************************)
(* PreconferSigner: the receipts that were released are recoverable, there *)
(* is one of them, and a preconfirmation that was reported holds.          *)
(***************************************************************************)

Running == {"lookup", "validate", "commit", "publish", "broadcast"}

(* The file lock leaves one process at a time.                               *)
OneUp == \A p, q \in Procs : proc[p].up /\ proc[q].up => p = q

(* What a running process remembers is what the journal says; before it has  *)
(* decided nothing was released, and until a write has failed the journal is *)
(* clean.                                                                    *)
InStep ==
    \A p \in Procs : proc[p].up =>
        /\ header
        /\ proc[p].decision # Nothing => lines = <<proc[p].decision>> /\ ~torn
        /\ proc[p].decision = Nothing => released = {}
        /\ proc[p].decision = Nothing /\ ~proc[p].failed => lines = <<>> /\ ~torn

(* A request runs in a running process, and publishes only its decision.     *)
RequestInv ==
    \A r \in Requests :
        /\ req[r].at \in Running =>
             req[r].proc \in Procs /\ req[r].tx \in Spenders /\ proc[req[r].proc].up
        /\ req[r].at \in {"publish", "broadcast"} => proc[req[r].proc].decision = req[r].tx

(* Only a journal with a header holds receipts.                              *)
Headed == header \/ released = {}

(* The relays that have acknowledged a request store its receipt.            *)
RelayInv ==
    \A r \in Requests :
        /\ req[r].at \in {"publish", "broadcast", "ok"} =>
             req[r].tx \in Spenders /\ \A i \in 1..NRelays : i <= req[r].acks => relay[i] = req[r].tx
        /\ req[r].at \in {"lookup", "validate", "commit"} => req[r].acks = 0
        /\ req[r].at = "publish" => req[r].acks < NRelays
        /\ req[r].at \in {"broadcast", "ok"} => req[r].acks = NRelays
        /\ req[r].at = "ok" => req[r].tx \in mempool

SInv == SignerTypeOK /\ OneUp /\ InStep /\ RequestInv /\ ReleasedRecoverable /\ Headed /\ RelayInv
-----------------------------------------------------------------------------
(* Nothing has happened in the initial state.                                *)
LEMMA SInit == SignerInit => SInv
<1> SUFFICES ASSUME SignerInit PROVE SInv
  OBVIOUS
<1>1. /\ header \in BOOLEAN /\ torn \in BOOLEAN
      /\ lines \in Seq(Spenders)
      /\ mempool \subseteq Spenders /\ released \subseteq Spenders
  <2>1. header \in BOOLEAN /\ torn \in BOOLEAN
    BY Zenon DEF SignerInit
  <2>2. <<>> \in Seq(Spenders)
    OBVIOUS
  <2> QED BY <2>1, <2>2 DEF SignerInit
<1>2. proc \in [Procs -> Process]
  BY DEF SignerInit, Process, Down
<1>3. req \in [Requests -> Request]
  BY DEF SignerInit, Request
<1>4. relay \in [1..NRelays -> Spenders \cup {Nothing}]
  BY DEF SignerInit
<1>5. OneUp /\ InStep
  BY DEF SignerInit, Down, OneUp, InStep
<1>6. RequestInv /\ RelayInv /\ ReleasedRecoverable /\ Headed
  BY DEF SignerInit, RequestInv, RelayInv, Running, ReleasedRecoverable, Headed
<1> QED BY <1>1, <1>2, <1>3, <1>4, <1>5, <1>6 DEF SInv, SignerTypeOK

(* What a move of one request does to the record of every request.           *)
LEMMA Moved ==
    ASSUME req \in [Requests -> Request], NEW r \in Requests,
           Goto(r, "error") \/ Goto(r, "ok")
    PROVE  /\ req' \in [Requests -> Request]
           /\ Goto(r, "error") => req'[r].at = "error"
           /\ Goto(r, "ok") => req'[r].at = "ok"
           /\ req'[r].proc = req[r].proc /\ req'[r].tx = req[r].tx /\ req'[r].acks = req[r].acks
           /\ \A q \in Requests : q # r => req'[q] = req[q]
<1>1. PICK at \in {"error", "ok"} :
         req' = [req EXCEPT ![r] = [req[r] EXCEPT !.at = at]]
  BY DEF Goto
<1>2. req[r] \in Request
  OBVIOUS
<1>3. [req[r] EXCEPT !.at = at] \in Request
  BY <1>2 DEF Request
<1>4. req' \in [Requests -> Request]
  BY <1>1, <1>3
<1>5. /\ req'[r].proc = req[r].proc /\ req'[r].tx = req[r].tx /\ req'[r].acks = req[r].acks
      /\ \A q \in Requests : q # r => req'[q] = req[q]
  BY <1>1, <1>2 DEF Request
<1>6. ASSUME NEW a, Goto(r, a) PROVE req'[r].at = a
  BY <1>2, <1>6 DEF Goto, Request
<1> QED BY <1>4, <1>5, <1>6

(* A request that moves on, or ends, without publishing changes only itself. *)
LEMMA QuietMove ==
    ASSUME SInv, NEW r \in Requests, NEW at \in {"validate", "commit", "publish", "error"},
           Goto(r, at), UNCHANGED <<journal, proc, relay, released>>, mempool \subseteq mempool',
           mempool' \subseteq Spenders, req[r].at \in Running,
           at = "validate" => req[r].at = "lookup",
           at = "commit" => req[r].at = "validate",
           at = "publish" => /\ req[r].at \in {"lookup", "commit"}
                             /\ proc[req[r].proc].decision = req[r].tx
    PROVE  SInv'
<1> USE DEF SInv
<1>0. /\ header' = header /\ lines' = lines /\ torn' = torn
      /\ proc' = proc /\ relay' = relay /\ released' = released
  BY DEF journal
<1>1. /\ req' = [req EXCEPT ![r] = [req[r] EXCEPT !.at = at]]
      /\ req[r] \in Request
  BY DEF Goto, SignerTypeOK
<1>2. [req[r] EXCEPT !.at = at] \in Request
  BY <1>1 DEF Request
<1>3. \A q \in Requests : /\ req'[q].proc = req[q].proc /\ req'[q].tx = req[q].tx
                          /\ req'[q].acks = req[q].acks
                          /\ req'[q].at = IF q = r THEN at ELSE req[q].at
  BY <1>1 DEF SignerTypeOK, Request
<1>4. SignerTypeOK'
  <2>1. req' \in [Requests -> Request]
    BY <1>1, <1>2 DEF SignerTypeOK
  <2> QED BY <1>0, <2>1 DEF SignerTypeOK
<1>5. OneUp' /\ ReleasedRecoverable' /\ Headed'
  BY <1>0 DEF OneUp, ReleasedRecoverable, Headed
<1>6. InStep'
  BY <1>0 DEF InStep
<1>7. RequestInv'
  BY <1>0, <1>3 DEF RequestInv, Running
<1>8. RelayInv'
  BY <1>0, <1>3, SignerAssumption DEF RelayInv, Running, RequestInv
<1> QED BY <1>4, <1>5, <1>6, <1>7, <1>8

-----------------------------------------------------------------------------
(* A process starts alone: it recalls the decision of a clean journal.       *)
LEMMA StartKeeps == ASSUME SInv, NEW p \in Procs, Start(p) PROVE SInv'
<1> USE DEF SInv
<1> DEFINE d == IF lines = <<>> THEN Nothing ELSE lines[1]
<1>0. /\ lines' = lines /\ torn' = torn /\ req' = req
      /\ relay' = relay /\ mempool' = mempool /\ released' = released
  BY DEF Start, world
<1>1. /\ proc' = [proc EXCEPT ![p] = [up |-> TRUE, failed |-> FALSE, decision |-> d]]
      /\ header' = TRUE /\ ~torn /\ Len(lines) <= 1
      /\ \A q \in Procs : ~proc[q].up
  BY DEF Start, LockFree
<1>2. d \in Spenders \cup {Nothing} /\ (d # Nothing => lines = <<d>>) /\ (d = Nothing => lines = <<>>)
  <2>1. CASE lines = <<>>
    BY <2>1
  <2>2. CASE lines # <<>>
    <3>1. lines \in Seq(Spenders) /\ Len(lines) = 1
      <4>1. lines \in Seq(Spenders)
        BY DEF SignerTypeOK
      <4>2. Len(lines) \in Nat \ {0}
        BY <2>2, <4>1, EmptySeq, Zenon
      <4>3. Len(lines) <= 1
        BY <1>1
      <4>4. Len(lines) = 1
        <5>1. \A n \in Nat \ {0} : n <= 1 => n = 1
          OBVIOUS
        <5> QED BY <4>2, <4>3, <5>1, Zenon
      <4> QED BY <4>1, <4>4
    <3>2. lines[1] \in Spenders /\ lines = <<lines[1]>>
      BY <3>1
    <3> QED BY <2>2, <3>2, SignerAssumption
  <2> QED BY <2>1, <2>2
<1>3. proc' \in [Procs -> Process]
  BY <1>1, <1>2 DEF SignerTypeOK, Process
<1>4. SignerTypeOK'
  <2>1. header' \in BOOLEAN
    BY <1>1
  <2> QED BY <1>0, <1>3, <2>1 DEF SignerTypeOK
<1>5. /\ proc'[p] = [up |-> TRUE, failed |-> FALSE, decision |-> d]
      /\ \A q \in Procs : q # p => proc'[q] = proc[q]
  BY <1>1 DEF SignerTypeOK
<1>6. OneUp' /\ ReleasedRecoverable' /\ Headed'
  BY <1>0, <1>1, <1>5 DEF OneUp, ReleasedRecoverable, Headed
<1>7. InStep'
  <2>1. d = Nothing => released = {}
    BY <1>2 DEF ReleasedRecoverable
  <2> HIDE DEF d
  <2> QED BY <1>0, <1>1, <1>2, <1>5, <2>1 DEF InStep
<1>8. RequestInv'
  BY <1>0, <1>1 DEF RequestInv, Running
<1>9. RelayInv'
  BY <1>0 DEF RelayInv
<1> QED BY <1>4, <1>6, <1>7, <1>8, <1>9

(* No header, no receipt: a failed first write can lose nothing.             *)
LEMMA HeaderFailsKeeps == ASSUME SInv, NEW p \in Procs, HeaderFails(p) PROVE SInv'
<1> USE DEF SInv
<1>0. /\ lines' = lines /\ req' = req /\ proc' = proc
      /\ relay' = relay /\ mempool' = mempool /\ released' = released
  BY DEF HeaderFails, world
<1>1. /\ ~header
      /\ \A q \in Procs : ~proc[q].up
  BY DEF HeaderFails, LockFree
<1>2. header' \in BOOLEAN /\ torn' \in BOOLEAN
  BY Zenon DEF HeaderFails, SignerTypeOK
<1>3. SignerTypeOK'
  BY <1>0, <1>2 DEF SignerTypeOK
<1>4. OneUp' /\ InStep'
  BY <1>0, <1>1 DEF OneUp, InStep
<1>5. ReleasedRecoverable' /\ Headed'
  BY <1>0, <1>1 DEF ReleasedRecoverable, Headed
<1>6. RequestInv' /\ RelayInv'
  BY <1>0 DEF RequestInv, RelayInv
<1> QED BY <1>3, <1>4, <1>5, <1>6

-----------------------------------------------------------------------------
(* A request enters a running process.                                       *)
LEMMA ArriveKeeps ==
    ASSUME SInv, NEW r \in Requests, NEW p \in Procs, NEW tx \in Spenders, Arrive(r, p, tx)
    PROVE  SInv'
<1> USE DEF SInv
<1>0. /\ header' = header /\ lines' = lines /\ torn' = torn /\ proc' = proc
      /\ relay' = relay /\ mempool' = mempool /\ released' = released /\ proc[p].up
  BY DEF Arrive, journal, world
<1>1. /\ req' \in [Requests -> Request]
      /\ req'[r] = [at |-> "lookup", proc |-> p, tx |-> tx, acks |-> 0]
      /\ \A q \in Requests : q # r => req'[q] = req[q]
  BY DEF Arrive, SignerTypeOK, Request
<1>2. SignerTypeOK'
  BY <1>0, <1>1 DEF SignerTypeOK
<1>3. OneUp' /\ InStep' /\ ReleasedRecoverable' /\ Headed'
  BY <1>0 DEF OneUp, InStep, ReleasedRecoverable, Headed
<1>4. RequestInv'
  BY <1>0, <1>1 DEF RequestInv, Running
<1>5. RelayInv'
  BY <1>0, <1>1 DEF RelayInv
<1> QED BY <1>2, <1>3, <1>4, <1>5

(* The first decision: the journal was empty and nothing had been released.  *)
LEMMA CommitNewKeeps == ASSUME SInv, NEW r \in Requests, CommitNew(r) PROVE SInv'
<1> USE DEF SInv
<1> DEFINE p == req[r].proc
<1> DEFINE tx == req[r].tx
<1>0. /\ header' = header /\ torn' = torn
      /\ relay' = relay /\ mempool' = mempool /\ released' = released
      /\ lines' = Append(lines, tx)
      /\ proc' = [proc EXCEPT ![p] = [proc[p] EXCEPT !.decision = tx]]
      /\ req' = [req EXCEPT ![r] = [req[r] EXCEPT !.at = "publish"]]
      /\ req[r].at = "commit" /\ proc[p].decision = Nothing /\ ~proc[p].failed
  BY DEF CommitNew, world, Goto, At, Appendable
<1>1. p \in Procs /\ tx \in Spenders /\ proc[p].up /\ req[r].acks = 0
  BY <1>0 DEF RequestInv, RelayInv, Running
<1>2. lines = <<>> /\ ~torn /\ released = {} /\ header
  BY <1>0, <1>1 DEF InStep
<1>3. lines' = <<tx>> /\ lines' \in Seq(Spenders)
  BY <1>0, <1>1, <1>2
<1>4. /\ proc' \in [Procs -> Process]
      /\ proc'[p].up = proc[p].up /\ proc'[p].decision = tx
      /\ \A q \in Procs : q # p => proc'[q] = proc[q]
  BY <1>0, <1>1, ZenonT(60) DEF SignerTypeOK, Process
<1>5. /\ req' \in [Requests -> Request]
      /\ req'[r].at = "publish" /\ req'[r].proc = p /\ req'[r].tx = tx /\ req'[r].acks = 0
      /\ \A q \in Requests : q # r => req'[q] = req[q]
  BY <1>0, <1>1 DEF SignerTypeOK, Request
<1>6. \A q \in Procs : proc[q].up => q = p
  BY <1>1 DEF OneUp
<1> HIDE DEF p, tx
<1>7. SignerTypeOK'
  BY <1>0, <1>3, <1>4, <1>5 DEF SignerTypeOK
<1>8. OneUp' /\ ReleasedRecoverable' /\ Headed'
  BY <1>0, <1>2, <1>4, <1>6 DEF OneUp, ReleasedRecoverable, Headed
<1>9. InStep'
  BY <1>0, <1>1, <1>2, <1>3, <1>4, <1>6, SignerAssumption DEF InStep
<1>10. RequestInv'
  <2> SUFFICES ASSUME NEW q \in Requests
               PROVE  /\ req'[q].at \in Running =>
                           /\ req'[q].proc \in Procs /\ req'[q].tx \in Spenders
                           /\ proc'[req'[q].proc].up
                      /\ req'[q].at \in {"publish", "broadcast"} =>
                           proc'[req'[q].proc].decision = req'[q].tx
    BY DEF RequestInv
  <2>1. CASE q = r
    BY <2>1, <1>1, <1>4, <1>5
  <2>2. CASE q # r
    <3>1. req[q].at \in Running => req[q].proc = p
      BY <1>6 DEF RequestInv
    <3>2. req[q].at \notin {"publish", "broadcast"}
      BY <3>1, <1>0, <1>1, SignerAssumption DEF RequestInv, Running, p
    <3> QED BY <2>2, <3>1, <3>2, <1>1, <1>4, <1>5 DEF RequestInv
  <2> QED BY <2>1, <2>2
<1>11. RelayInv'
  BY <1>0, <1>1, <1>5, SignerAssumption DEF RelayInv
<1> QED BY <1>7, <1>8, <1>9, <1>10, <1>11

(* A failed append may leave anything behind: the process never writes       *)
(* again, and nothing had been released.                                     *)
LEMMA CommitFailsKeeps == ASSUME SInv, NEW r \in Requests, CommitFails(r) PROVE SInv'
<1> USE DEF SInv
<1> DEFINE p == req[r].proc
<1>0. /\ header' = header
      /\ relay' = relay /\ mempool' = mempool /\ released' = released
      /\ \/ torn' \in {torn, TRUE} /\ lines' = lines
         \/ lines' = Append(lines, req[r].tx) /\ torn' = torn
      /\ proc' = [proc EXCEPT ![p] = [proc[p] EXCEPT !.failed = TRUE]]
      /\ req' = [req EXCEPT ![r] = [req[r] EXCEPT !.at = "error"]]
      /\ req[r].at = "commit" /\ proc[p].decision = Nothing /\ ~proc[p].failed
  BY DEF CommitFails, world, Goto, At, Appendable
<1>1. p \in Procs /\ req[r].tx \in Spenders /\ proc[p].up
  BY <1>0 DEF RequestInv, Running
<1>2. released = {} /\ header
  BY <1>0, <1>1 DEF InStep
<1>3. lines' \in Seq(Spenders) /\ torn' \in BOOLEAN
  <2>1. lines' \in Seq(Spenders)
    <3>1. lines' = lines \/ lines' = Append(lines, req[r].tx)
      BY <1>0
    <3>2. lines \in Seq(Spenders)
      BY DEF SignerTypeOK
    <3> QED BY <1>1, <3>1, <3>2
  <2>2. torn' = torn \/ torn' = TRUE
    BY <1>0
  <2> QED BY <2>1, <2>2, Zenon DEF SignerTypeOK
<1>4. /\ proc' \in [Procs -> Process]
      /\ proc'[p].up = proc[p].up /\ proc'[p].decision = Nothing /\ proc'[p].failed
      /\ \A q \in Procs : q # p => proc'[q] = proc[q]
  BY <1>0, <1>1 DEF SignerTypeOK, Process
<1>5. /\ req' \in [Requests -> Request]
      /\ req'[r].at = "error"
      /\ \A q \in Requests : q # r => req'[q] = req[q]
  BY Moved DEF CommitFails, SignerTypeOK
<1>6. \A q \in Procs : proc[q].up => q = p
  BY <1>1 DEF OneUp
<1>7. \A q \in Procs : proc'[q].up = proc[q].up /\ proc'[q].decision = proc[q].decision
  BY <1>0, <1>4
<1> HIDE DEF p
<1>8. SignerTypeOK'
  BY <1>0, <1>3, <1>4, <1>5 DEF SignerTypeOK
<1>9. OneUp' /\ ReleasedRecoverable' /\ Headed'
  BY <1>0, <1>2, <1>7 DEF OneUp, ReleasedRecoverable, Headed
<1>10. InStep'
  BY <1>0, <1>2, <1>4, <1>6, <1>7 DEF InStep
<1>11. RequestInv'
  BY <1>5, <1>7 DEF RequestInv, Running
<1>12. RelayInv'
  BY <1>0, <1>5 DEF RelayInv
<1> QED BY <1>8, <1>9, <1>10, <1>11, <1>12

(* Only the decision of the one running process is ever released.            *)
LEMMA ReleaseKeeps ==
    ASSUME SInv, NEW r \in Requests, req[r].at = "publish",
           UNCHANGED <<journal, proc>>, released' \in {released, released \cup {req[r].tx}}
    PROVE  /\ req[r].tx \in Spenders /\ released' \subseteq Spenders
           /\ OneUp' /\ InStep' /\ ReleasedRecoverable' /\ Headed'
<1> USE DEF SInv
<1>0. header' = header /\ lines' = lines /\ torn' = torn /\ proc' = proc
  BY DEF journal
<1>1. /\ req[r].proc \in Procs /\ req[r].tx \in Spenders /\ proc[req[r].proc].up
      /\ proc[req[r].proc].decision = req[r].tx
  BY DEF RequestInv, Running
<1>2. lines = <<req[r].tx>> /\ ~torn /\ header
  BY <1>1, SignerAssumption DEF InStep
<1>3. OneUp' /\ ReleasedRecoverable' /\ Headed' /\ released' \subseteq Spenders
  BY <1>0, <1>1, <1>2 DEF OneUp, ReleasedRecoverable, Headed, SignerTypeOK
<1>4. \A q \in Procs : proc[q].up => proc[q].decision # Nothing
  BY <1>1, SignerAssumption DEF OneUp
<1>5. InStep'
  BY <1>0, <1>4 DEF InStep
<1> QED BY <1>1, <1>3, <1>5

(* The next relay stores the receipt; no other request loses one, because a  *)
(* relay keeps what it has.                                                  *)
LEMMA PublishReceiptKeeps == ASSUME SInv, NEW r \in Requests, PublishReceipt(r) PROVE SInv'
<1> USE DEF SInv
<1> DEFINE i == req[r].acks + 1
<1>0. /\ header' = header /\ lines' = lines /\ torn' = torn /\ proc' = proc
      /\ mempool' = mempool /\ req[r].at = "publish"
      /\ relay[i] \in {Nothing, req[r].tx}
      /\ relay' = [relay EXCEPT ![i] = req[r].tx]
  BY DEF PublishReceipt, journal, At
<1>1. /\ req[r].tx \in Spenders /\ released' \subseteq Spenders
      /\ OneUp' /\ InStep' /\ ReleasedRecoverable' /\ Headed'
  BY <1>0, ReleaseKeeps DEF PublishReceipt
<1>2. i \in 1..NRelays
  BY <1>0, SignerAssumption DEF RelayInv, SignerTypeOK, Request
<1>3. /\ relay' \in [1..NRelays -> Spenders \cup {Nothing}]
      /\ \A j \in 1..NRelays : relay'[j] = IF j = i THEN req[r].tx ELSE relay[j]
  BY <1>0, <1>1, <1>2 DEF SignerTypeOK
<1>4. /\ req' \in [Requests -> Request]
      /\ req'[r].proc = req[r].proc /\ req'[r].tx = req[r].tx
      /\ \/ req'[r].acks = i /\ req'[r].at = PublishedTo(r)
         \/ req'[r].at = "error"
      /\ \A q \in Requests : q # r => req'[q] = req[q]
  <2>1. CASE Goto(r, "error")
    BY <2>1, Moved DEF SignerTypeOK
  <2>2. CASE req' = [req EXCEPT ![r] = [req[r] EXCEPT !.acks = i, !.at = PublishedTo(r)]]
    <3>1. req[r] \in Request /\ i \in Nat /\ PublishedTo(r) \in {"publish", "broadcast"}
      BY <1>2, SignerAssumption DEF SignerTypeOK, PublishedTo
    <3> HIDE DEF i
    <3>2. [req[r] EXCEPT !.acks = i, !.at = PublishedTo(r)] \in Request
      BY <3>1 DEF Request
    <3>3. req' \in [Requests -> Request]
      BY <2>2, <3>2 DEF SignerTypeOK
    <3>4. \A q \in Requests : q # r => req'[q] = req[q]
      BY <2>2 DEF SignerTypeOK
    <3>5. req'[r] = [req[r] EXCEPT !.acks = i, !.at = PublishedTo(r)]
      BY <2>2 DEF SignerTypeOK
    <3> QED BY <3>1, <3>3, <3>4, <3>5 DEF Request
  <2> QED BY <2>1, <2>2 DEF PublishReceipt
<1>5. \A q \in Requests, j \in 1..NRelays :
         req[q].at \in {"publish", "broadcast", "ok"} /\ j <= req[q].acks => relay'[j] = req[q].tx
  BY <1>0, <1>2, <1>3, SignerAssumption DEF RelayInv
<1>6. SignerTypeOK'
  BY <1>0, <1>1, <1>3, <1>4 DEF SignerTypeOK
<1>7. RequestInv'
  BY <1>0, <1>1, <1>4 DEF RequestInv, Running, PublishedTo
<1>8. \A j \in 1..NRelays : j <= i => relay'[j] = req[r].tx
  BY <1>0, <1>2, <1>3, <1>5 DEF SignerTypeOK, Request
<1>9. RelayInv'
  <2> SUFFICES ASSUME NEW q \in Requests
        PROVE /\ req'[q].at \in {"publish", "broadcast", "ok"} =>
                   /\ req'[q].tx \in Spenders
                   /\ \A j \in 1..NRelays : j <= req'[q].acks => relay'[j] = req'[q].tx
              /\ req'[q].at \in {"lookup", "validate", "commit"} => req'[q].acks = 0
              /\ req'[q].at = "publish" => req'[q].acks < NRelays
              /\ req'[q].at \in {"broadcast", "ok"} => req'[q].acks = NRelays
              /\ req'[q].at = "ok" => req'[q].tx \in mempool'
    BY DEF RelayInv
  <2>1. CASE q # r
    BY <2>1, <1>0, <1>4, <1>5 DEF RelayInv
  <2>2. CASE q = r
    BY <2>2, <1>1, <1>2, <1>4, <1>8, SignerAssumption DEF PublishedTo
  <2> QED BY <2>1, <2>2
<1> QED BY <1>1, <1>6, <1>7, <1>9

(* The receipt may have reached the relay, which keeps it to itself.         *)
LEMMA PublishFailsKeeps == ASSUME SInv, NEW r \in Requests, PublishFails(r) PROVE SInv'
<1> USE DEF SInv
<1>0. /\ header' = header /\ lines' = lines /\ torn' = torn /\ proc' = proc
      /\ mempool' = mempool /\ relay' = relay
  BY DEF PublishFails, journal
<1>1. /\ released' \subseteq Spenders
      /\ OneUp' /\ InStep' /\ ReleasedRecoverable' /\ Headed'
  BY ReleaseKeeps DEF PublishFails, At
<1>2. /\ req' \in [Requests -> Request]
      /\ req'[r].at = "error"
      /\ \A q \in Requests : q # r => req'[q] = req[q]
  BY Moved DEF PublishFails, SignerTypeOK
<1>3. SignerTypeOK'
  BY <1>0, <1>1, <1>2 DEF SignerTypeOK
<1>4. RequestInv'
  BY <1>0, <1>2 DEF RequestInv, Running
<1>5. RelayInv'
  BY <1>0, <1>2 DEF RelayInv
<1> QED BY <1>1, <1>3, <1>4, <1>5

(* Every relay has acknowledged before the transaction is broadcast.         *)
LEMMA BroadcastKeeps == ASSUME SInv, NEW r \in Requests, Broadcast(r) PROVE SInv'
<1> USE DEF SInv
<1>0. /\ header' = header /\ lines' = lines /\ torn' = torn /\ proc' = proc
      /\ relay' = relay /\ released' = released
      /\ mempool' = mempool \cup {req[r].tx} /\ req[r].at = "broadcast"
  BY DEF Broadcast, journal, At
<1>1. /\ req' \in [Requests -> Request]
      /\ req'[r].at = "ok" /\ req'[r].tx = req[r].tx /\ req'[r].acks = req[r].acks
      /\ \A q \in Requests : q # r => req'[q] = req[q]
  BY Moved DEF Broadcast, SignerTypeOK
<1>2. req[r].tx \in Spenders
  BY <1>0 DEF RelayInv
<1>3. SignerTypeOK'
  BY <1>0, <1>1, <1>2 DEF SignerTypeOK
<1>4. OneUp' /\ InStep' /\ ReleasedRecoverable' /\ Headed'
  BY <1>0 DEF OneUp, InStep, ReleasedRecoverable, Headed
<1>5. RequestInv'
  BY <1>0, <1>1 DEF RequestInv, Running
<1>6. RelayInv'
  BY <1>0, <1>1, <1>2 DEF RelayInv
<1> QED BY <1>3, <1>4, <1>5, <1>6

(* A process that dies in the middle of an append had released nothing.      *)
LEMMA CrashKeeps == ASSUME SInv, NEW p \in Procs, Crash(p) PROVE SInv'
<1> USE DEF SInv
<1>0. /\ header' = header /\ relay' = relay /\ mempool' = mempool /\ released' = released
      /\ proc[p].up /\ proc' = [proc EXCEPT ![p] = Down]
  BY DEF Crash, world
<1>1. /\ proc' \in [Procs -> Process] /\ ~proc'[p].up
      /\ \A q \in Procs : q # p => proc'[q] = proc[q] /\ ~proc[q].up
  BY <1>0 DEF SignerTypeOK, Process, Down, OneUp
<1>2. \A q \in Procs : ~proc'[q].up
  BY <1>1
<1>3. /\ req' \in [Requests -> Request]
      /\ \A q \in Requests : \/ req'[q].at = "error"
                             \/ req'[q] = req[q] /\ req[q].at \notin Running
  <2>1. ASSUME NEW q \in Requests
        PROVE  /\ req'[q] \in Request
               /\ \/ req'[q].at = "error"
                  \/ req'[q] = req[q] /\ req[q].at \notin Running
    <3>0. req[q] \in Request
      BY DEF SignerTypeOK
    <3>1. req'[q] = IF req[q].proc = p /\ req[q].at \notin {"ok", "error"}
                      THEN [req[q] EXCEPT !.at = "error"] ELSE req[q]
      BY DEF Crash
    <3>2. [req[q] EXCEPT !.at = "error"] \in Request /\ [req[q] EXCEPT !.at = "error"].at = "error"
      BY <3>0 DEF Request
    <3>3. CASE req[q].proc = p /\ req[q].at \notin {"ok", "error"}
      BY <3>1, <3>2, <3>3
    <3>4. CASE ~(req[q].proc = p /\ req[q].at \notin {"ok", "error"})
      <4>1. req'[q] = req[q]
        BY <3>1, <3>4
      <4>2. req[q].at \notin Running
        BY <3>4, <1>1 DEF RequestInv, Running
      <4> QED BY <3>0, <4>1, <4>2
    <3> QED BY <3>3, <3>4
  <2>2. req' = [q \in Requests |-> req'[q]]
    BY DEF Crash
  <2> QED BY <2>1, <2>2
<1>4. \/ lines' = lines /\ torn' = torn
      \/ /\ released = {}
         /\ lines' \in Seq(Spenders) /\ torn' \in BOOLEAN
  <2>1. CASE UNCHANGED <<lines, torn>>
    BY <2>1
  <2>2. ASSUME NEW q \in Requests,
               At(q, "commit") /\ req[q].proc = p /\ Appendable(p),
               \/ torn' = TRUE /\ UNCHANGED lines
               \/ lines' = Append(lines, req[q].tx) /\ UNCHANGED torn
        PROVE  /\ released = {}
               /\ lines' \in Seq(Spenders) /\ torn' \in BOOLEAN
    <3>1. released = {}
      BY <1>0, <2>2 DEF Appendable, InStep
    <3>2. req[q].tx \in Spenders
      BY <2>2 DEF At, RequestInv, Running
    <3>3. lines' \in Seq(Spenders)
      <4>1. lines' = lines \/ lines' = Append(lines, req[q].tx)
        BY <2>2
      <4>2. lines \in Seq(Spenders)
        BY DEF SignerTypeOK
      <4> QED BY <3>2, <4>1, <4>2
    <3>4. torn' \in BOOLEAN
      BY <2>2, Zenon DEF SignerTypeOK
    <3> QED BY <3>1, <3>3, <3>4
  <2> QED BY <2>1, <2>2 DEF Crash
<1>5. SignerTypeOK'
  BY <1>0, <1>1, <1>3, <1>4 DEF SignerTypeOK
<1>6. OneUp' /\ InStep'
  BY <1>2 DEF OneUp, InStep
<1>7. ReleasedRecoverable' /\ Headed'
  BY <1>0, <1>4 DEF ReleasedRecoverable, Headed
<1>8. RequestInv'
  BY <1>3 DEF RequestInv, Running
<1>9. RelayInv'
  BY <1>0, <1>3 DEF RelayInv, Running
<1> QED BY <1>5, <1>6, <1>7, <1>8, <1>9

-----------------------------------------------------------------------------
(* Every step keeps the invariant.                                           *)
LEMMA SNext == SInv /\ [SignerNext]_signerVars => SInv'
<1> SUFFICES ASSUME SInv, [SignerNext]_signerVars PROVE SInv'
  OBVIOUS
<1>1. CASE UNCHANGED signerVars
  <2>1. /\ header' = header /\ lines' = lines /\ torn' = torn /\ proc' = proc /\ req' = req
        /\ relay' = relay /\ mempool' = mempool /\ released' = released
    BY <1>1 DEF signerVars
  <2> QED BY <2>1 DEF SInv, SignerTypeOK, OneUp, InStep, RequestInv, ReleasedRecoverable, Headed, RelayInv
<1>2. ASSUME NEW p \in Procs, Start(p) \/ HeaderFails(p) \/ Crash(p) PROVE SInv'
  BY <1>2, StartKeeps, HeaderFailsKeeps, CrashKeeps
<1>3. ASSUME NEW r \in Requests, NEW p \in Procs, NEW tx \in Spenders, Arrive(r, p, tx) PROVE SInv'
  BY <1>3, ArriveKeeps
<1>4. ASSUME NEW r \in Requests,
             \/ CommitNew(r) \/ CommitFails(r) \/ PublishReceipt(r)
             \/ PublishFails(r) \/ Broadcast(r)
      PROVE  SInv'
  BY <1>4, CommitNewKeeps, CommitFailsKeeps, PublishReceiptKeeps, PublishFailsKeeps, BroadcastKeeps
<1>5. ASSUME NEW r \in Requests,
             \/ Lookup(r) \/ Validated(r) \/ Refused(r)
             \/ CommitExisting(r) \/ BroadcastFails(r)
      PROVE  SInv'
  <2>1. mempool \subseteq Spenders
    BY DEF SInv, SignerTypeOK
  <2>2. CASE Lookup(r)
    <3> DEFINE decision == proc[req[r].proc].decision
    <3>1. /\ req[r].at = "lookup" /\ mempool' = mempool
          /\ UNCHANGED <<journal, proc, relay, released>>
          /\ Goto(r, CASE decision = Nothing -> "validate"
                       [] decision = req[r].tx -> "publish"
                       [] OTHER -> "error")
      BY <2>2 DEF Lookup, At, world
    <3>2. CASE decision = Nothing
      <4>1. Goto(r, "validate")
        <5>1. req[r].tx # Nothing
          BY <3>1, SignerAssumption DEF SInv, RequestInv, Running
        <5> QED BY <3>1, <3>2, <5>1
      <4> QED BY <2>1, <3>1, <4>1, QuietMove DEF Running
    <3>3. CASE decision # Nothing /\ decision = req[r].tx
      <4>1. Goto(r, "publish")
        BY <3>1, <3>3
      <4> QED BY <2>1, <3>1, <3>3, <4>1, QuietMove DEF Running
    <3>4. CASE decision # Nothing /\ decision # req[r].tx
      <4>1. Goto(r, "error")
        BY <3>1, <3>4
      <4> QED BY <2>1, <3>1, <4>1, QuietMove DEF Running
    <3> QED BY <3>2, <3>3, <3>4
  <2>3. CASE Validated(r)
    BY <2>1, <2>3, QuietMove DEF Validated, At, world, Running
  <2>4. CASE Refused(r)
    BY <2>1, <2>4, QuietMove DEF Refused, At, world, Running
  <2>5. CASE CommitExisting(r)
    <3>1. /\ req[r].at = "commit" /\ mempool' = mempool
          /\ UNCHANGED <<journal, proc, relay, released>>
          /\ \/ Goto(r, "publish") /\ proc[req[r].proc].decision = req[r].tx
             \/ Goto(r, "error")
      BY <2>5 DEF CommitExisting, At, world
    <3> QED BY <2>1, <3>1, QuietMove DEF Running
  <2>6. CASE BroadcastFails(r)
    <3>1. /\ req[r].at = "broadcast" /\ Goto(r, "error")
          /\ UNCHANGED <<journal, proc, relay, released>>
          /\ mempool' \in {mempool, mempool \cup {req[r].tx}}
      BY <2>6 DEF BroadcastFails, At
    <3>2. req[r].tx \in Spenders
      BY <3>1 DEF SInv, RelayInv
    <3>3. mempool \subseteq mempool' /\ mempool' \subseteq Spenders
      BY <2>1, <3>1, <3>2
    <3> QED BY <3>1, <3>3, QuietMove DEF Running
  <2> QED BY <1>5, <2>2, <2>3, <2>4, <2>5, <2>6
<1> QED BY <1>1, <1>2, <1>3, <1>4, <1>5 DEF SignerNext

(* SInv is an invariant of the service.                                      *)
LEMMA SInvHolds == SignerSpec => []SInv
BY SInit, SNext, PTL DEF SignerSpec

(* Every variable stays in its type.                                         *)
THEOREM SignerTypeCorrect == SignerSpec => []SignerTypeOK
<1>1. SInv => SignerTypeOK
  BY DEF SInv
<1> QED BY <1>1, SInvHolds, PTL

(* DecisionJournal and preconfirm: whatever left a process is the only       *)
(* decision of a readable journal, for any number of processes and requests. *)
THEOREM ReleasedRecoverableHolds == SignerSpec => []ReleasedRecoverable
<1>1. SInv => ReleasedRecoverable
  BY DEF SInv
<1> QED BY <1>1, SInvHolds, PTL

(* try_lock, existing and commit: the service never has two different        *)
(* receipts for its bond out.                                                *)
THEOREM OneReceiptHolds == SignerSpec => []OneReceipt
<1>1. SInv => OneReceipt
  <2> SUFFICES ASSUME SInv, NEW s \in released, NEW t \in released PROVE s = t
    BY DEF OneReceipt
  <2>1. <<s>> = <<t>>
    BY DEF SInv, ReleasedRecoverable
  <2> QED BY <2>1
<1> QED BY <1>1, SInvHolds, PTL

(* publish and broadcast: when preconfirm answers Preconfirmed, every relay  *)
(* stores the receipt and the node has the transaction, whatever fails or    *)
(* crashes afterwards.                                                       *)
THEOREM PreconfirmedHoldsAlways == SignerSpec => []PreconfirmedHolds
<1>1. SInv => PreconfirmedHolds
  BY SignerAssumption DEF SInv, RelayInv, PreconfirmedHolds
<1> QED BY <1>1, SInvHolds, PTL
=============================================================================
