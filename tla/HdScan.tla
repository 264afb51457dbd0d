-------------------------------- MODULE HdScan --------------------------------
(***************************************************************************)
(* How epw finds its coins (rust/wallet-cli scan.rs, esplora.rs): the      *)
(* chain is adopted or checked, both branches of addresses are scanned in  *)
(* pages of parallel requests until Gap unused ones in a row, and every    *)
(* listed output is verified against its raw transaction.  The chain moves *)
(* between any two requests, and the explorer may lie.                     *)
(*                                                                         *)
(* coins    every transaction output that was ever paid to the wallet      *)
(* explorer how the explorer lies ("honest": it does not)                  *)
(* config   the chain this wallet is pinned to, as stored                  *)
(* phase    where the scan is                                              *)
(* walk     the branch being scanned: loop variables of scan_branch        *)
(* page     the requests of the page under way, by address index           *)
(* listed   outputs the explorer listed, of both branches                  *)
(* snapshot the result so far                                              *)
(* start, touched, events   (bookkeeping) the coins when the scan began,   *)
(*          those spent or dropped since, and the number of chain events   *)
(*                                                                         *)
(* Each transaction pays the wallet once; a script is its address, and a   *)
(* transaction id stands for the content of its transaction.               *)
(***************************************************************************)
EXTENDS Integers, FiniteSets

CONSTANTS Gap,          \* gap_limit
          MaxIndex,     \* MAX_INDEX
          Starts,       \* [coins, explorer, config, reserved]: the coins on the chain, how
                        \* the explorer answers, the stored configuration, reserved_external
          Payable,      \* addresses that may be paid during the scan
          FreshId,      \* transaction ids from here on are those of other outputs
          MaxEvents,    \* bound on chain events during the scan
          MaxLiarEvents \* the same when the explorer lies

Branches == {"external", "change"}
Coin == [id : Nat \ {0}, branch : Branches, index : Nat, asset : Nat, value : Nat,
         blind : {"none", "wallet", "foreign"}, funded : {"chain", "mempool", "dropped"},
         spent : {"no", "mempool", "chain"}]

ASSUME ScanAssumption ==
    /\ Gap \in 1..1000 /\ {MaxIndex, MaxEvents, MaxLiarEvents} \subseteq Nat
    /\ \A s \in Starts : /\ s.coins \subseteq Coin /\ IsFiniteSet(s.coins) /\ s.reserved \in Nat
                         /\ \A c, d \in s.coins : c.id = d.id => c = d
                         /\ \A c \in s.coins : c.id < FreshId /\ c.funded # "dropped"
    /\ FreshId \in Nat \ {0}
    /\ Payable \subseteq [branch : Branches, index : Nat]

VARIABLES coins, explorer, config, reserved, phase, walk, page, listed, snapshot,
          start, touched, events
chain == <<coins, touched, events>>
fixed == <<explorer, reserved>>
scanVars == <<chain, fixed, config, phase, walk, page, listed, snapshot, start>>

PageSize == IF Gap < 20 THEN Gap ELSE 20
NoWalk == [branch |-> "external", index |-> 0, trailing |-> 0, next |-> 0,
           found |-> {}, failed |-> FALSE]
Empty == [utxos |-> {}, skipped |-> {}, next |-> [b \in Branches |-> 0]]

ScanInit ==
    /\ \E s \in Starts : /\ coins = s.coins /\ explorer = s.explorer
                          /\ config = s.config /\ reserved = s.reserved
    /\ phase = "open" /\ walk = NoWalk /\ page = <<>> /\ listed = {} /\ snapshot = Empty
    /\ start = {} /\ touched = {} /\ events = 0

-----------------------------------------------------------------------------
(* What the explorer answers (Esplora, and the chain behind it). *)

Live == {c \in coins : c.funded # "dropped"}
At(branch, index) == [branch |-> branch, index |-> index]
AddressOf(c) == At(c.branch, c.index)

\* A transaction as anyone can read it, and an output that pays somebody else.
Tx(c) == [id |-> c.id, script |-> AddressOf(c), asset |-> c.asset,
          value |-> c.value, blind |-> c.blind]
Stranger == [id |-> FreshId, branch |-> "external", index |-> 1, asset |-> 0, value |-> 7,
             blind |-> "none", funded |-> "chain", spent |-> "no"]
StrangerTx == [Tx(Stranger) EXCEPT !.script = At("stranger", 0)]

Genesis == IF explorer = "otherChain" THEN {"ours", "other"}
           ELSE IF explorer = "otherServers" THEN {"other"} ELSE {"ours"}
DexHealth == IF explorer \in {"otherDex", "otherServers"} THEN "other" ELSE "ours"

\* The outputs the explorer pretends there are.
Distorted(c) ==
    CASE explorer \in {"wrongValue", "wrongRaw"} -> {[c EXCEPT !.value = @ + 1]}
      [] explorer = "stale" -> {[c EXCEPT !.spent = "no"]}
      [] explorer = "twice" -> {c, [c EXCEPT !.index = @ + 1]}
      [] explorer = "hides" -> {}
      [] OTHER -> {c}
Shown == (UNION {Distorted(c) : c \in Live})
         \cup (IF explorer = "foreign" THEN {Stranger} ELSE {})

Stats(a) ==
    LET at == {c \in Shown : AddressOf(c) = a}
        count(in) == LET funded == Cardinality({c \in at : c.funded = in})
                         spent == Cardinality({c \in at : c.spent = in})
                     IN  [funded |-> funded, spent |-> spent, txs |-> funded + spent]
    IN  [chain |-> IF explorer = "allUsed" THEN [count("chain") EXCEPT !.txs = @ + 1]
                   ELSE IF explorer = "overspent" THEN [count("chain") EXCEPT !.spent = @ + 1]
                   ELSE count("chain"),
         mempool |-> count("mempool")]

\* Asset and value are listed for explicit outputs only.
Claims(c) == IF c.blind = "none" THEN <<c.asset, c.value>> ELSE <<>>
Utxos(a) ==
    {[id |-> c.id, address |-> a, claims |-> Claims(c)] :
        c \in {d \in Shown : AddressOf(d) = a /\ d.spent = "no"}}

RealTxs == {Tx(c) : c \in coins} \cup {StrangerTx}
RawTxs(id) == {t \in IF explorer = "wrongRaw" THEN {Tx(c) : c \in Shown}
                     ELSE {Tx(c) : c \in Live} \cup {StrangerTx} : t.id = id}

\* The hash of the content: another content has another id.
Txid(raw) == IF raw \in RealTxs THEN raw.id ELSE 0

-----------------------------------------------------------------------------
(* The chain moves. *)

Happens(coins1) ==
    /\ phase \in {"scan", "fetch"}
    /\ events < IF explorer = "honest" THEN MaxEvents ELSE MaxLiarEvents
    /\ coins' = coins1 /\ events' = events + 1
    /\ UNCHANGED <<fixed, config, phase, walk, page, listed, snapshot, start>>

Change(c, d) == (coins \ {c}) \cup {d}

Pay(a) ==
    /\ Happens(coins \cup {[id |-> FreshId + 1 + events, branch |-> a.branch, index |-> a.index,
                            asset |-> 0, value |-> 7, blind |-> "none",
                            funded |-> "mempool", spent |-> "no"]})
    /\ UNCHANGED touched

ConfirmPayment(c) == /\ c.funded = "mempool"
                     /\ Happens(Change(c, [c EXCEPT !.funded = "chain"])) /\ UNCHANGED touched

Spend(c) == /\ c.funded # "dropped" /\ c.spent = "no"
            /\ Happens(Change(c, [c EXCEPT !.spent = "mempool"]))
            /\ touched' = touched \cup {c.id}

ConfirmSpend(c) == /\ c.funded = "chain" /\ c.spent = "mempool"
                   /\ Happens(Change(c, [c EXCEPT !.spent = "chain"])) /\ UNCHANGED touched

\* A payment leaves the mempool unconfirmed.
Drop(c) == /\ c.funded = "mempool" /\ c.spent # "chain"
           /\ Happens(Change(c, [c EXCEPT !.funded = "dropped", !.spent = "no"]))
           /\ touched' = touched \cup {c.id}

Chain ==
    \/ \E a \in Payable : Pay(a)
    \/ \E c \in coins : ConfirmPayment(c) \/ Spend(c) \/ ConfirmSpend(c) \/ Drop(c)

-----------------------------------------------------------------------------
(* Opening the wallet (wallet.rs). *)

Fail == /\ phase' = "failed"
        /\ UNCHANGED <<chain, fixed, walk, page, listed, snapshot, start>>

\* A server that does not answer stops the command.
Unreachable == explorer = "down" /\ Fail /\ UNCHANGED config

(* Mutant of Adoptable: the configured genesis is not compared. *)
AdoptableAny(genesis) == config.policy # "none" \/ DexHealth = genesis

\* discover_regtest: what is configured must agree with the explorer, and what
\* is missing is taken only when explorer and DEX agree.
Adoptable(genesis) ==
    /\ config.genesis \in {"none", genesis}
    /\ config.policy = "none" => DexHealth = genesis

\* Wallet::open: complete and save the configuration, then scan with the pin.
Open ==
    /\ phase = "open"
    /\ IF config.genesis # "none" /\ config.policy # "none"
       THEN /\ phase' = "pin"
            /\ UNCHANGED <<chain, fixed, config, walk, page, listed, snapshot, start>>
       ELSE \/ Unreachable
            \/ \E genesis \in Genesis :
                 IF Adoptable(genesis)
                 THEN /\ config' = [genesis |-> genesis, policy |-> "set"]
                      /\ phase' = "pin"
                      /\ UNCHANGED <<chain, fixed, walk, page, listed, snapshot, start>>
                 ELSE Fail /\ UNCHANGED config

\* The first requests of scan: genesis and tip height.
CheckPin ==
    /\ phase = "pin"
    /\ \/ Unreachable
       \/ \E genesis \in Genesis :
            IF genesis = config.genesis
            THEN /\ phase' = "scan" /\ start' = coins
                 /\ UNCHANGED <<chain, fixed, config, walk, page, listed, snapshot>>
            ELSE Fail /\ UNCHANGED config

-----------------------------------------------------------------------------
(* scan_branch and scan_address. *)

MinIndex(branch) == IF branch = "external" THEN reserved ELSE 0

(* Mutant of Continues: reserved addresses beyond the gap are not scanned. *)
ContinuesToGap(w) == w.trailing < Gap

Continues(w) == w.trailing < Gap \/ w.index < MinIndex(w.branch)

StartPage ==
    /\ phase = "scan" /\ page = <<>> /\ Continues(walk)
    /\ IF walk.index > MaxIndex THEN Fail
       ELSE /\ page' = [i \in walk.index..(walk.index + PageSize - 1) |-> [at |-> "stats"]]
            /\ UNCHANGED <<chain, fixed, phase, walk, listed, snapshot, start>>
    /\ UNCHANGED config

(* Mutant of Used: payments in the mempool do not count. *)
UsedOnChain(info) == info.chain.txs > 0 \/ info.chain.funded > 0

Used(info) == \/ info.chain.txs > 0 \/ info.mempool.txs > 0
              \/ info.chain.funded > 0 \/ info.mempool.funded > 0

Expected(info) == info.chain.funded + info.mempool.funded
                    - (info.chain.spent + info.mempool.spent)

Result(info, utxos) ==
    IF Cardinality(utxos) = Expected(info)
    THEN [at |-> "done", used |-> Used(info), utxos |-> utxos]
    ELSE [at |-> "error"]

Answer(i, r) ==
    /\ page' = [page EXCEPT ![i] = r]
    /\ UNCHANGED <<chain, fixed, config, phase, walk, listed, snapshot, start>>

AskStats(i) ==
    /\ page[i].at = "stats"
    /\ LET info == Stats(At(walk.branch, i)) IN
       Answer(i, IF Expected(info) < 0 THEN [at |-> "error"]
                 ELSE IF Used(info) THEN [at |-> "list", info |-> info]
                 ELSE Result(info, {}))

AskUtxos(i) ==
    /\ page[i].at = "list"
    /\ Answer(i, Result(page[i].info, Utxos(At(walk.branch, i))))

\* Any request may fail or time out.
TimesOut(i) ==
    /\ explorer = "down" /\ page[i].at \in {"stats", "list"}
    /\ Answer(i, [at |-> "error"])

Answered == page # <<>> /\ \A i \in DOMAIN page : page[i].at \in {"done", "error"}

(* Mutant of Take: a failed address is asked again. *)
TakeRetrying(w, r) ==
    IF r.at = "error" THEN w
    ELSE [w EXCEPT !.index = @ + 1, !.found = @ \cup r.utxos,
                   !.trailing = IF r.used THEN 0 ELSE @ + 1,
                   !.next = IF r.used THEN w.index + 1 ELSE @]

\* One round of the loop over a page's results.
Take(w, r) ==
    IF r.at = "error" THEN [w EXCEPT !.failed = TRUE]
    ELSE [w EXCEPT !.index = @ + 1, !.found = @ \cup r.utxos,
                   !.trailing = IF r.used THEN 0 ELSE @ + 1,
                   !.next = IF r.used THEN w.index + 1 ELSE @]

\* The threads of a page are joined and its results taken in their order, until
\* one is an error or ends the branch: what follows is dropped, errors too.
Join ==
    LET w == Take(walk, page[walk.index])
        ends == walk.index + 1 \notin DOMAIN page \/ ~Continues(w) \/ w.index = walk.index
    IN  /\ phase = "scan" /\ Answered /\ walk.index \in DOMAIN page
        /\ walk' = w
        /\ page' = IF ends THEN <<>> ELSE page
        /\ phase' = IF w.failed THEN "failed" ELSE phase
        /\ UNCHANGED <<chain, fixed, config, listed, snapshot, start>>

\* The change branch follows the external one, and after it the listed outputs.
BranchEnds ==
    LET all == listed \cup walk.found
        twice == \E p, q \in all : p # q /\ p.id = q.id
    IN  /\ phase = "scan" /\ page = <<>> /\ ~Continues(walk)
        /\ walk' = [NoWalk EXCEPT !.branch = "change"]
        /\ listed' = all
        /\ snapshot' = [snapshot EXCEPT !.next[walk.branch] = walk.next]
        /\ phase' = IF walk.branch = "external" THEN "scan"
                    ELSE IF twice THEN "failed" ELSE "fetch"
        /\ UNCHANGED <<chain, fixed, config, page, start>>

-----------------------------------------------------------------------------
(* Verifying what was listed. *)

(* Mutant of RawVerifies: the raw transaction is not hashed. *)
RawVerifiesAnyId(ref, raw) == raw.script = ref.address /\ raw.blind # "foreign"

\* verify_raw_transaction: this transaction, our script, an amount we can read.
RawVerifies(ref, raw) ==
    /\ Txid(raw) = ref.id
    /\ raw.script = ref.address
    /\ raw.blind # "foreign"

\* The outputs are fetched in the order of their transaction ids.
FirstListed == CHOOSE r \in listed : \A q \in listed : r.id <= q.id

Fetch ==
    LET ref == FirstListed
        add(field, e) == [snapshot EXCEPT ![field] = @ \cup {e}]
        utxo(raw) == [id |-> ref.id, address |-> ref.address, asset |-> raw.asset,
                      value |-> raw.value, blind |-> raw.blind]
    IN  /\ phase = "fetch" /\ listed # {}
        /\ \/ (RawTxs(ref.id) = {} \/ explorer = "down") /\ Fail
           \/ \E raw \in RawTxs(ref.id) :
                  IF RawVerifies(ref, raw) /\ ref.claims \notin {<<>>, <<raw.asset, raw.value>>}
                  THEN Fail
                  ELSE /\ listed' = listed \ {ref}
                       /\ snapshot' = IF RawVerifies(ref, raw)
                                      THEN add("utxos", utxo(raw))
                                      ELSE add("skipped", ref.id)
                       /\ UNCHANGED <<chain, fixed, phase, walk, page, start>>
        /\ UNCHANGED config

Return ==
    /\ phase = "fetch" /\ listed = {}
    /\ phase' = "done"
    /\ UNCHANGED <<chain, fixed, config, walk, page, listed, snapshot, start>>

ReceiveIndex ==
    IF snapshot.next.external > reserved THEN snapshot.next.external ELSE reserved

Scanner ==
    \/ Open \/ CheckPin \/ StartPage \/ Join \/ BranchEnds \/ Fetch \/ Return
    \/ \E i \in DOMAIN page : AskStats(i) \/ AskUtxos(i) \/ TimesOut(i)

ScanNext == Scanner \/ Chain

\* Every request ends, with an answer or after the HTTP client's 30 seconds.
ScanSpec == ScanInit /\ [][ScanNext]_scanVars /\ WF_scanVars(Scanner)

-----------------------------------------------------------------------------
(* Properties. *)

\* Whatever the explorer answers, each coin of a snapshot is an output that was
\* really paid to the wallet address it is filed under, with its true asset and
\* value, and one the wallet can read (verify_raw_transaction, scan.rs).
SnapshotHonest ==
    \A u \in snapshot.utxos : \E c \in coins :
        /\ c.id = u.id /\ AddressOf(c) = u.address
        /\ <<c.asset, c.value>> = <<u.asset, u.value>> /\ c.blind # "foreign"

\* Addresses in use from the beginning to the end of the scan.
SteadyUse(branch) ==
    {c.index : c \in {d \in Live : d.branch = branch /\ d.id \in {e.id : e \in start}}}

\* The scan must get to an index that is reserved, or not behind Gap unused ones.
Covered(branch, index) ==
    \A n \in (IF MinIndex(branch) > Gap THEN MinIndex(branch) ELSE Gap)..index :
        \E i \in (n - Gap)..(n - 1) : i \in SteadyUse(branch)

\* With an honest explorer, and although coins come and go while it runs, a scan
\* that ends well has every coin that was there all along, up to the gap and the
\* reserved addresses, as spendable or as skipped; the next receive address is
\* behind every address in use and every reserved one (scan.rs, receive_index).
ScanComplete ==
    phase = "done" /\ explorer \in {"honest", "down"} =>
      /\ \A c \in start :
           c.spent = "no" /\ c.id \notin touched /\ Covered(c.branch, c.index) =>
             IF c.blind = "foreign" THEN c.id \in snapshot.skipped
             ELSE \E u \in snapshot.utxos : u.id = c.id
      /\ \A b \in Branches : \A i \in SteadyUse(b) :
           Covered(b, i) => i < snapshot.next[b] /\ (b = "external" => i < ReceiveIndex)
      /\ reserved <= ReceiveIndex

\* An honest explorer is on the wallet's chain, and the wallet's addresses are
\* within the range that can be scanned (the hypotheses of NoFalseAlarm).
SameChain == \A s \in Starts : s.explorer = "honest" => s.config.genesis \in {"none", "ours"}
InRange ==
    \A s \in Starts : s.explorer = "honest" =>
        /\ s.reserved <= MaxIndex + 1 /\ Gap <= MaxIndex + 1
        /\ \A c \in s.coins : c.index + Gap <= MaxIndex

\* Servers that agree and a chain that stands still never make a scan fail.
NoFalseAlarm == phase = "failed" => explorer # "honest" \/ events > 0

\* A chain once stored is never exchanged for another, whatever the servers say.
PinStays == [][config.genesis # "none" => config'.genesis = config.genesis]_config

\* Every scan ends, even when every address looks used (MAX_INDEX).
ScanEnds == <>(phase \in {"done", "failed"})

=============================================================================
