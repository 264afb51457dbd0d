-------------------------------- MODULE Instant --------------------------------
(***************************************************************************)
(* Instant confirmation (rust/instant): lockbox and pooled bond covenants, *)
(* the rule by which wallets and honest operators rely on a promise        *)
(* (policy.rs), and the watchtower.  Operators that are not honest sign     *)
(* whatever they like, owners have signed whatever OwnerSigned and Orders  *)
(* say, and anybody mines what the covenants let through.                  *)
(*                                                                         *)
(* honest    the operators that keep to the rules                         *)
(* height    the chain's tip; transactions go into block height + 1        *)
(* promises  operator signatures: [box, tx]                                *)
(* published transactions whose promises the relays show                   *)
(* accepted  transactions a wallet relies on, with the tip and the bonds   *)
(*           it counted when it did, and (history) whether the receipts it *)
(*           saw were all there were                                       *)
(* spend     per lockbox, the transaction that spent it                    *)
(* bond      per bond output, its state, the block of its funding, and     *)
(*           what its penalty burned                                       *)
(*                                                                         *)
(* A transaction stands for its commitment (tx_commitment is injective,    *)
(* where it is defined).                                                   *)
(***************************************************************************)
EXTENDS Integers, FiniteSets, Sequences, Functions

CONSTANTS Operators, Lockboxes, Txs, Outputs, Bonds,
          Box,          \* per lockbox: [operator, expiry]
          Spends,       \* per transaction: [ins, plain, lock, paired, value,
                        \* readable]; plain inputs besides lockboxes, height lock,
                        \* the output at each lockbox's index, what it is worth to
                        \* the wallet that relies on it, and whether tx_commitment
                        \* computes it: no blinded amount, issuance, peg-in, annex
          OwnerSigned,  \* <<lockbox, transaction>> signed by the owner (ALL)
          Orders,       \* <<lockbox, output>> signed by the owner (PAIRED)
          BondScript,   \* per bond output: [operator, amount, refund]
          FundedAt,     \* per bond output: the block of its funding
          Announced,    \* per operator: the list of its claims [bond, refund]
          PromiseMargin, ChallengeWindow, BondMinConfirmations, MinBond,
          MaxHeight,    \* bound on the height
          None

ASSUME InstantAssumption ==
    /\ Box \in [Lockboxes -> [operator : Operators, expiry : Nat \ {0}]]
    /\ Spends \in [Txs -> [ins : SUBSET Lockboxes, plain : BOOLEAN, lock : Nat,
                           paired : [Lockboxes -> Outputs], value : Nat, readable : BOOLEAN]]
    /\ BondScript \in [Bonds -> [operator : Operators, amount : Nat, refund : Nat]]
    /\ FundedAt \in [Bonds -> Nat]
    /\ Announced \in [Operators -> Seq([bond : Bonds, refund : Nat])]
    /\ {PromiseMargin, ChallengeWindow, BondMinConfirmations, MinBond, MaxHeight} \subseteq Nat
    /\ BondMinConfirmations > 1
    /\ None \notin Txs /\ IsFiniteSet(Bonds)

VARIABLES honest, height, promises, published, accepted, spend, bond
vars == <<honest, height, promises, published, accepted, spend, bond>>

Unspent == [tx |-> None, at |-> 0, coop |-> FALSE]

Init ==
    /\ honest \in SUBSET Operators
    /\ height = 0
    /\ promises = {} /\ published = {} /\ accepted = {}
    /\ spend = [x \in Lockboxes |-> Unspent]
    /\ bond = [b \in Bonds |-> [st |-> "unspent", at |-> FundedAt[b], burned |-> 0]]

BoxesOf(t, o) == {x \in Spends[t].ins : Box[x].operator = o}
OperatorsOf(t) == {Box[x].operator : x \in Spends[t].ins}
Promised(x, t) == [box |-> x, tx |-> t] \in promises
Confirmed(t) == \E x \in Spends[t].ins : spend[x].tx = t

-----------------------------------------------------------------------------
(* The covenants. *)

\* The owner's signature over the whole transaction, or over its own input and
\* the output at the same index (a maker's order).
OwnerAuth(x, t) == <<x, t>> \in OwnerSigned \/ <<x, Spends[t].paired[x]>> \in Orders

\* lockbox.simf: cooperative, with the operator's promise of this transaction.
Cooperative(x, t) == OwnerAuth(x, t) /\ Promised(x, t)

\* lockbox.simf: exit, by the owner alone with a height lock from EXPIRY on.
TimeoutExit(x, t) == <<x, t>> \in OwnerSigned /\ Spends[t].lock >= Box[x].expiry

Satisfied(x, t) == Cooperative(x, t) \/ TimeoutExit(x, t)

(* Mutant of Evidence: the commitments are not compared. *)
EvidenceSame(o, p, q) == p.box = q.box /\ Box[p.box].operator = o

\* check_evidence, pooled_bond.simf: two promises of this operator for one
\* lockbox and different transactions.
Evidence(o, p, q) ==
    p.box = q.box /\ p.tx # q.tx /\ Box[p.box].operator = o

Reward(amount) == amount \div 8

\* penalty_transaction, the split the covenant enforces.
PenaltyTx(amount, fee) ==
    [reporter |-> Reward(amount) - fee, burn |-> amount - Reward(amount), fee |-> fee]

-----------------------------------------------------------------------------
(* The policy (policy.rs, announce.rs). *)

Claim(o, i) == Announced[o][i]

(* Mutant of KnownBonds: the announced refund height is believed. *)
KnownBondsClaimed(o) ==
    {i \in DOMAIN Announced[o] : BondScript[Claim(o, i).bond].operator = o}

\* expected_bond_script: an announced bond counts if the output it names has the
\* script of this operator and refund height.  Nothing keeps an announcement from
\* naming one output twice: bonds are places in its list.
KnownBonds(o) ==
    {i \in DOMAIN Announced[o] : /\ BondScript[Claim(o, i).bond].operator = o
                                 /\ BondScript[Claim(o, i).bond].refund = Claim(o, i).refund}

Confirmations(b) == IF bond[b].at <= height THEN height - bond[b].at + 1 ELSE 0

(* Mutant of EffectiveCover: the reporter's share is counted too. *)
EffectiveCoverAll(amount) == amount

EffectiveCover(amount) == amount - Reward(amount)

\* eligible_cover: the announced bonds that count for transaction t ...
EligibleBonds(o, t) ==
    {i \in KnownBonds(o) :
        /\ bond[Claim(o, i).bond].st = "unspent"
        /\ Confirmations(Claim(o, i).bond) >= BondMinConfirmations
        /\ BondScript[Claim(o, i).bond].amount >= MinBond
        /\ \A x \in BoxesOf(t, o) : Claim(o, i).refund >= Box[x].expiry + ChallengeWindow}

\* ... and their sum, a bond as often as it is listed.
Cover(o, listed) ==
    SumFunctionOnSet([i \in DOMAIN Announced[o] |->
                        EffectiveCover(BondScript[Claim(o, i).bond].amount)], listed)

Value(txs) == SumFunctionOnSet([t \in Txs |-> Spends[t].value], txs)

\* Unconfirmed promised value besides t, among the receipts somebody sees.
InFlight(o, t, seen) == Value({s \in seen \ {t} : o \in OperatorsOf(s) /\ ~Confirmed(s)})

(* Mutant of BeforeMargin: promises go on until the expiry itself. *)
BeforeMarginNone(x) == height < Box[x].expiry

BeforeMargin(x) == height + PromiseMargin < Box[x].expiry

\* check_promise, for the lockboxes of one operator.
CheckPromise(o, t, seen) ==
    /\ ~Spends[t].plain
    /\ BoxesOf(t, o) # {}
    /\ \A x \in BoxesOf(t, o) : BeforeMargin(x)
    /\ InFlight(o, t, seen) + Spends[t].value <= Cover(o, EligibleBonds(o, t))

-----------------------------------------------------------------------------
(* Operators and wallets. *)

\* An honest operator computes the commitment, checks the promise and never
\* promises a lockbox twice.
PromiseHonestly(o, t) ==
    /\ o \in honest /\ Spends[t].readable /\ CheckPromise(o, t, published)
    /\ \A x \in BoxesOf(t, o) : \A p \in promises : p.box = x => p.tx = t
    /\ promises' = promises \cup {[box |-> x, tx |-> t] : x \in BoxesOf(t, o)}
    /\ UNCHANGED <<honest, height, published, accepted, spend, bond>>

PromiseAnything(x, t) ==
    /\ Box[x].operator \notin honest /\ x \in Spends[t].ins
    /\ promises' = promises \cup {[box |-> x, tx |-> t]}
    /\ UNCHANGED <<honest, height, published, accepted, spend, bond>>

\* A wallet that holds all promises of t and can verify them shows them to the
\* relays.
Publish(t) ==
    /\ Spends[t].readable
    /\ \A x \in Spends[t].ins : Promised(x, t)
    /\ published' = published \cup {t}
    /\ UNCHANGED <<honest, height, promises, accepted, spend, bond>>

\* Then it shows "Done" if the covenants are satisfied and every operator's
\* promises pass the check, with the receipts it sees: its own and some of the
\* others (they may be on their way, or relays withhold them).
Accept(t, seen) ==
    /\ t \in seen /\ \A a \in accepted : a.tx # t
    /\ Spends[t].ins # {}
    /\ \A x \in Spends[t].ins : Cooperative(x, t)
    /\ \A o \in OperatorsOf(t) : CheckPromise(o, t, seen)
    /\ accepted' = accepted \cup
         {[tx |-> t, tip |-> height, informed |-> seen = published,
           bonds |-> UNION {{Claim(o, i).bond : i \in EligibleBonds(o, t)} : o \in OperatorsOf(t)}]}
    /\ UNCHANGED <<honest, height, promises, published, spend, bond>>

-----------------------------------------------------------------------------
(* The chain. *)

\* A transaction goes into the next block: final, unspent inputs, every covenant
\* satisfied; the promise is in the witness of each cooperative spend.
Mine(t) ==
    /\ Spends[t].ins # {} /\ Spends[t].lock < height + 1
    /\ \A x \in Spends[t].ins : spend[x] = Unspent /\ Satisfied(x, t)
    /\ \E coop \in [Spends[t].ins -> BOOLEAN] :
         /\ \A x \in Spends[t].ins : IF coop[x] THEN Cooperative(x, t) ELSE TimeoutExit(x, t)
         /\ spend' = [x \in Lockboxes |->
                        IF x \in Spends[t].ins
                        THEN [tx |-> t, at |-> height + 1, coop |-> coop[x]]
                        ELSE spend[x]]
    /\ UNCHANGED <<honest, height, promises, published, accepted, bond>>

\* The last block is replaced and with it a bond's funding.
Reorg(b) ==
    /\ bond[b].st = "unspent" /\ Confirmations(b) < 2
    /\ bond' = [bond EXCEPT ![b] = [st |-> "gone", at |-> 0, burned |-> 0]]
    /\ UNCHANGED <<honest, height, promises, published, accepted, spend>>

\* Lockbox x was spent with a promise that promise_from_chain finds: it computes
\* the spender's commitment first.
Extractable(x) == spend[x].coop /\ Spends[spend[x].tx].readable

\* What a watchtower sees: receipts of the relays, witnesses of the chain.
Visible ==
    {p \in promises : p.tx \in published}
    \cup {[box |-> x, tx |-> spend[x].tx] : x \in {y \in Lockboxes : Extractable(y)}}

\* pooled_bond.simf: anybody, with any two promises that contradict each other,
\* wherever they come from.
Penalty(b, fee) ==
    LET o == BondScript[b].operator
        amount == BondScript[b].amount
    IN  /\ bond[b].st = "unspent"
        /\ \E p, q \in promises : Evidence(o, p, q)
        /\ fee <= Reward(amount)
        /\ bond' = [bond EXCEPT ![b] = [st |-> "slashed", at |-> 0,
                                        burned |-> PenaltyTx(amount, fee).burn]]
        /\ UNCHANGED <<honest, height, promises, published, accepted, spend>>

\* pooled_bond.simf: the operator alone, with a height lock from REFUND_HEIGHT on.
Refund(b) ==
    /\ bond[b].st = "unspent" /\ BondScript[b].refund < height + 1
    /\ bond' = [bond EXCEPT ![b] = [st |-> "refunded", at |-> 0, burned |-> 0]]
    /\ UNCHANGED <<honest, height, promises, published, accepted, spend>>

\* Lockbox x was spent against a published promise, visibly.
Conflict(x) ==
    \E t \in published : x \in Spends[t].ins /\ spend[x].tx \notin {None, t} /\ Extractable(x)

\* A penalty is mined within ChallengeWindow blocks of the conflicting spend.
PenaltyDue ==
    \E x \in Lockboxes, b \in Bonds :
        /\ Conflict(x) /\ spend[x].at + ChallengeWindow <= height + 1
        /\ BondScript[b].operator = Box[x].operator /\ bond[b].st = "unspent"

Tick ==
    /\ height < MaxHeight /\ ~PenaltyDue
    /\ height' = height + 1
    /\ UNCHANGED <<honest, promises, published, accepted, spend, bond>>

Next ==
    \/ \E t \in Txs :
         \/ \E o \in Operators : PromiseHonestly(o, t)
         \/ \E x \in Lockboxes : PromiseAnything(x, t)
         \/ Publish(t) \/ Mine(t)
         \/ \E seen \in SUBSET published : Accept(t, seen)
    \/ \E b \in Bonds : Reorg(b) \/ Refund(b)
                      \/ \E fee \in 0..BondScript[b].amount : Penalty(b, fee)
    \/ Tick

Spec == Init /\ [][Next]_vars

-----------------------------------------------------------------------------
(* Properties. *)

TypeOK ==
    /\ honest \subseteq Operators /\ height \in Nat
    /\ promises \subseteq [box : Lockboxes, tx : Txs]
    /\ published \subseteq Txs
    /\ accepted \subseteq [tx : Txs, tip : Nat, informed : BOOLEAN, bonds : SUBSET Bonds]
    /\ spend \in [Lockboxes -> [tx : Txs \cup {None}, at : Nat, coop : BOOLEAN]]
    /\ bond \in [Bonds -> [st : {"unspent", "slashed", "refunded", "gone"},
                           at : Nat, burned : Nat]]

\* Accepted transaction a lost an input to another one while it was protected.
RobbedAt(a, x) ==
    /\ x \in Spends[a.tx].ins /\ spend[x].tx \notin {None, a.tx}
    /\ spend[x].at <= Box[x].expiry

\* ... in a spend that shows its promise.
RobbedVisibly(a, x) == RobbedAt(a, x) /\ Extractable(x)

\* A promise a wallet relied on cannot be broken for free in sight: if a
\* transaction whose commitment the library computes takes a lockbox from another
\* one until its expiry, two promises that contradict each other are there to be
\* shown, and no bond that was counted has escaped (policy.rs, watchtower.rs).
Punishable ==
    \A a \in accepted : \A x \in Lockboxes : RobbedVisibly(a, x) =>
        /\ \E p, q \in Visible : Evidence(Box[x].operator, p, q)
        /\ \A b \in a.bonds : BondScript[b].operator = Box[x].operator =>
             bond[b].st \in {"unspent", "slashed"}

\* The announcement of o makes no claim twice.
ListedOnce(o) == IsInjective(Announced[o])

\* Every wallet that relies on o had seen all receipts when it decided to.
Informed(o) == \A a \in accepted : o \in OperatorsOf(a.tx) => a.informed

\* What the victims of an operator relied on, by their own valuation, is never
\* more than what it loses or is about to lose, its own report of the fraud
\* included (eligible_cover): if it announces no bond twice, no wallet missed a
\* receipt, and the conflicting spends are in sight.
TheftCovered ==
    \A o \in Operators : ListedOnce(o) /\ Informed(o) =>
        LET robbed == {a.tx : a \in {c \in accepted :
                          \E x \in Lockboxes : Box[x].operator = o /\ RobbedVisibly(c, x)}}
            mine(st) == {b \in Bonds : BondScript[b].operator = o /\ bond[b].st = st}
        IN  Value(robbed) <=
                SumFunctionOnSet([b \in Bonds |-> bond[b].burned], mine("slashed"))
                + SumFunctionOnSet([b \in Bonds |-> PenaltyTx(BondScript[b].amount, 0).burn],
                                   mine("unspent"))

\* "Done" with honest operators is final: for PromiseMargin blocks, and the one
\* being built, nothing but the accepted transaction spends its lockboxes, the
\* owners' exits included (PROMISE_MARGIN, policy.rs:7).
HonestDone ==
    \A a \in accepted : OperatorsOf(a.tx) \subseteq honest /\ height <= a.tip + PromiseMargin =>
        \A x \in Spends[a.tx].ins : spend[x].tx \in {None, a.tx}

\* No bond of an operator that keeps to one promise per lockbox is ever slashed,
\* whatever promises and spends are combined against it (check_evidence).
HonestNeverSlashed ==
    \A b \in Bonds : bond[b].st = "slashed" => BondScript[b].operator \notin honest

=============================================================================
