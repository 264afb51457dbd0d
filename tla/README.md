# Elements Plus wallet: a TLA+ verification project

The repository holds a browser-extension wallet (TypeScript, with a Rust core
compiled to WASM), a command-line wallet `epw` with an MCP server, and an
experimental preconfirmation service and library.  This directory models the
parts of it that decide *what is built, signed, believed and promised*, checks
them with TLC on small instances, and proves the most important results with
TLAPS for every value of the constants.

Paths below are relative to the repository (`src/` stands for its root, so the
extension's own sources are under `src/src/`).  `PROJECT.json` maps every
definition to the lines it models.

## 1. Inventory

| Part | State | Operations | Hard behaviour | What makes it correct |
|---|---|---|---|---|
| Background controller `src/src/background/controller.ts` | unlocked session, pending approvals, idle timer, last activity, promise queue | one handler per message (`vault.create`, `wallet.unlock`, `wallet.lock`, `settings.update`, `tx.prepare`, `tx.approve`, `tx.reject`, ...), direct calls of the router (`isUnlocked`, `snapshot`, `reject`) | handlers await storage and network; direct calls run in between; the timer's work waits in the queue; the browser stops the worker | an approval is used once, by the session it was made for, before it expires; the wallet locks itself |
| Provider router `provider-router.ts` | pending map: request, window, timer, approval id | provider calls, `describe`, `resolve`, `windowClosed` | decision, timer, closed window, failed preparation and the controller's answer race for one entry | signatures need the user's decision; answers are final, true and always given |
| Site permissions and settings `settings.ts` | connected origins, settings in extension storage | `has`, `grant`, `revoke`, `update` | unlocked read-modify-write; a restore removes the sites in a separate write | a restored wallet has no connected sites; a disconnected site stays disconnected |
| Service worker `service-worker.ts` | ports, approval windows | routes messages and port traffic | its own death | calls are answered by disconnection |
| Content bridge and in-page provider `src/src/content` | outstanding promises, the port | request, reconnect, events | answers outstanding when the port closes | every promise settles once |
| Token registry cache `token-registry.ts`, HD scan `explorer-hd-scan.ts`, review checks `operations.ts`, vault `vault.ts` | caches, scan windows; the encrypted vault | look up, verify, clear; scan; check; encrypt | a clear during a verification; gap limits and pages | no unverified metadata is shown; no coin is missed; a review is what was asked |
| `epw` scan `rust/wallet-cli/src/{scan,esplora}.rs` | the pinned chain in `config.json`; one snapshot per command | `open`, `scan`, `scan_branch`, `scan_address` | pages of parallel requests while the chain moves; an explorer that fails or lies | nothing false is believed, nothing within the gap is missed, the chain is never exchanged |
| `epw` signing gate, policy and audit log `rust/wallet-cli/src/{gate,policy,audit}.rs` | JSONL log (also the spend history), `pending/`, `policy.toml` | `authorize_and_sign`, `evaluate`, `append`, `spend_history` | several processes, no lock; death in the middle of a line, or before its newline | limits are hard caps, signatures are logged before they leave, confirm mode has a human |
| `epw` state and offers `rust/wallet-cli/src/{state,wallet,config}.rs` | `state.json`: reserved index, offers | address, send, issue, swap, offer make/list/cancel, sign | the file is read at open and saved whole, several times per command | a reserved payment index is not given out again; an offered coin is not spent by another plan |
| `epw` MCP server, CLI, DEX client, keystore | - | JSON-RPC, argument parsing, HTTP, encryption | - | - |
| Wallet core `rust/wallet-core` | none: pure functions over PSETs | prepare (transfer, issuance, split, offer, take, cancel), review, sign, verify an offer | fee, dust and blinding depend on each other; a PSET may be altered between its review and its signature; makers' signatures cover one pair only | the review says exactly what signing costs; the fee is fair; change of confidential coins stays confidential; a signed transaction is valid |
| Preconfer signer `services/preconfer-signer` | journal file, in-memory decision, relays, node | `preconfirm` | concurrent requests, failing writes, crashes, two processes, partial publication | never two different receipts for a bond |
| Instant library `rust/instant` | none; the chain holds lockboxes and bonds, the relays promises | promise check, announcements, evidence, penalty, refund, owner's exit | a dishonest operator; bonds reorganised or refunded; wallets that see different receipts; transactions the library cannot read | a relied-on promise is final or its visible breach is paid for; honest bonds are safe |
| Relay library, LWK adapter | - | - | - | - |

The parts interact as follows.  A page talks to the in-page provider, which
talks over a port to the router; the router asks the user in an approval window
and calls the controller, which serialises `prepare` and `approve` in its
promise queue and signs with the WASM session.  `epw` processes share one home
directory: `state.json`, `audit.jsonl`, `pending/`; each command scans an explorer, has
the wallet core prepare a bundle, and passes it through the gate, which has the
core review it again and sign it.  The signer is reached over WebSocket and
talks to relays and a node.

The complete list of what is hard to test, each at its line, is under `hazards`
in `PROJECT.json`, with the properties that cover it or the reason none does.

## 2. Modules

| Module | Models | Uses |
|---|---|---|
| `OneTimeApproval` | abstract: what the controller promises about signatures | |
| `WalletController` | the controller and the part of a session it needs | instantiates `OneTimeApproval` |
| `ProviderRouter` | the router, the permissions and, in outline, the controller | |
| `SpendGate` | `authorize_and_sign`, `evaluate`, the audit log | |
| `OfferState` | `state.json` through every command that touches it | |
| `WalletCore` | `build.rs`, `review.rs`, `sign.rs`, `offer.rs` as operators: no variables | |
| `WalletLedger` | one wallet's requests, bundles, approvals and offers on a ledger | extends `WalletCore` |
| `HdScan` | opening `epw` and scanning the explorer | |
| `Instant` | covenants, promise policy, watchtower, chain | |
| `PreconferSigner` | the signer's journal and its requests | |
| `MC*` | instances for TLC | the module of the same name |
| `WalletControllerProofs`, `RouterProofs`, `OfferProofs` | theorems about `WalletController`, `ProviderRouter`, `OfferState` | extend the module they are about |
| `EpwProofs` | theorems about `SpendGate` and `HdScan`, two stages of one `epw` command | extends both; this is why the names of `HdScan` begin with `Scan` (or end in `Payment`) where `SpendGate` has the same |
| `WalletCoreProofs` | lemmas about the operators of `WalletCore`: what selection, the builders and the review compute | extends `WalletCore` |
| `WalletLedgerProofs` | theorems about `WalletLedger` | extends `WalletLedger` and `WalletCoreProofs` |
| `ConfirmationProofs` | theorems about `Instant` and `PreconferSigner`, the two promises made before a block is | extends both; this is why the names of `PreconferSigner` begin with `Signer` where `Instant` has the same |
| `DataTheorems` | induction over finite sets, sums, orders, sequences | extended by `EpwProofs`, `ConfirmationProofs`, `WalletCoreProofs` |

A definition under a comment "Mutant of X" is a plausible bug of the code behind
`X`.  They are not part of the specification; each shows that
some property notices the bug (`mutants` in `PROJECT.json`).

### WalletController

`ctl` is the controller object (`#session`, `#pending`,
`#lastActivity`, the auto-lock time and the timer) plus `live`, the WASM
sessions that have not been destroyed.  `job` is the handler at the head of
`#serial`'s promise chain and the await it is at, `queue` the requests behind
it.  One action is one stretch of a handler between two awaits: `StartApprove`
takes the approval out of the map, checks it, touches, signs and starts the
broadcast; `BroadcastDone` continues.  Every handler begins with `Sweep`
(`#expireIfIdle`, then expired approvals), except the router's `approve`, which
only expires the session, and the timer's job.  `IsUnlocked`, `Snapshot` and
`Reject` are the router's direct calls and happen between any two stretches.
`WorkerStopped` is the browser stopping the service worker.

Approval tokens and review hashes are one bit ("the caller presented the right
ones"), a plan is opaque, and operations are told apart only by how they are
carried out: one broadcast, a broadcast with bookkeeping, an offer signed at
once, an offer after a split.  A settings request changes the auto-lock time, or
the registry, or the explorer, as the settings pages send them; never the time
together with an endpoint.

### ProviderRouter

`entry[r]` is the life of one provider call: `check` (waiting for the
permission), `asked` (an element of `#pending`), `revoke`, `sync`, `done` with
its outcome.  `calls` is the controller's promise queue as far as the router
uses it; `usable` are the approvals the controller would accept.  `ops` are
reads and writes of the site list in flight, begun by a provider call or by the
user in the wallet (`RevokeSite`); each may be refused by the storage.  A
`prepare` is two steps: with `Planned` the controller would accept the approval,
with `Prepared` the router knows it and gives up the one of an earlier
`describe`.  `wallet` counts the restored wallets and bounds them (`MaxRestores`).
`Showing` states what the approval page adds: it
offers no decision while it waits for `describe`.

### SpendGate

Each process is one call of `authorize_and_sign` at a time: review, policy,
human confirmation, then one `SignStep` per step (sign in memory, append the
`signed` entry) and `Release`.  `audit` holds the `signed` entries, the only
ones that count as spend.  `tail` is how the text of the log ends.  An append is
one write of an entry and its newline; one that fails, or is cut off by the death of
the process, leaves nothing, a part of the line (`torn`), the line without its newline
(`open`) or all of it (`ended`).  An open line still reads as an entry, since the log is
read by lines; the next append is glued to it, succeeds, and makes the log unreadable
(`WholeAppend`).  That holds of every entry: `signed`, `refused`, `pending`,
`rejected_by_user`.  A policy is a resolved `policy.toml`; `Allowed` is `evaluate`.

### OfferState

`file` is `state.json`; each process has its copy `mem`, read in `Open`, and
writes it back whole.  Amounts are abstracted: a plan takes any non-empty set of
spendable coins.  Indices are numbers: `next` is what the chain shows, and
`ReceiveIndex` the code's maximum of it and the reserved index.

### PreconferSigner

`lines`, `header`, `torn` are the journal file, `proc[p]` the in-memory
`DecisionJournal` (decision, failed flag), `req[r]` one connection's request.
Look-up and commit are atomic because they hold the mutex; validation,
publication to each relay and the broadcast are not.

### WalletCore and WalletLedger

`WalletCore` has one operator per function: a coin is a record of its asset,
value, whether it is confidential, and its owner; a PSET is two sequences of
records and its genesis; a request ends in a prepared transaction with its
review and hash, or in a named error.  `Fund` is the selection loop (largest
coin first, fee and change recomputed with every coin added); `Analyze` is the
whole of `analyze`, in its order, one conjunct per refusal.  What is abstracted:

* Scripts are their owners, all 22 bytes long, so that the size of a transaction
  depends only on the numbers of inputs, outputs and blinded outputs.
* A proof is true of the values it speaks of, and a signature is the data the
  sighash flag covers, with its owner; both verify by comparison.
* The hash of a review is the PSET and the review themselves.
* Maps of amounts per asset (`needs`, `receives`, the deltas of a review) are
  functions on the assets they mention, and lists made from them are in the order
  of the assets (`Sorted`).  The external outputs of a review are a function on
  their positions in the transaction.
* Candidate coins are a set: a list with the same coin twice is not a state of
  the caller.  PSET fields that the review refuses outright
  (`validate_globals`, `validate_input_fields`, `validate_output_fields`) have no
  counterpart.
* An issued asset and its token are numbered by the outpoint they are made from.

`WalletLedger` puts the core to work.  `bundle` is the request in progress,
in whose place `Alter` may put another between the review and the approval or
after it: any member of `Edits` that is `Storable`, that is, any review, hash and PSET
whose inputs name outputs of the ledger, by an id, and hold no signature of the wallet
that it has not made.  What a PSET says of its inputs (asset, value, confidentiality,
owner, derivation, issuance) may be anything.  `AlterTwice` and `AlterUntil` bound how often and how
late this happens; the proofs are for every `Edits` and both bounds.  A segwit-v0
signature covers the outpoint and the value, or commitment, of the coin it spends
(`SpentCoin`), never the asset of an explicit one, and the review takes that asset from
the PSET's own `witness_utxo`.  `misled` records that the wallet has signed a PSET that
gave one of its inputs a false asset (`Misnames`); `NoLoss` claims nothing from then on.
`Approve` is the gate's recomputation of the review; `Sign`, `Mine`,
`Fill` and `Swap` (with `verified_quote`) follow.  `owed` adds up what the
approved reviews and the taken offers of mined transactions have said; `NoLoss`
compares it with the coins.  The wallet's own offer, when the wallet takes it
itself, is a maker's input to the core and is accounted for as an offer.  A
coin's id is the number of its transaction times `Slots` plus its position, and
`Slots` is `MaxPsetItems`, so that ids are unique because the review limits the
outputs.  `LedgerAssumption` says of the wallets and makers that coins have
different ids, that makers own theirs and that they cannot sign for the wallet.
`ImpactRange` stands for the 2^64 values of a price impact, which `verified_quote`
casts from 128 bits; the run has a smaller one that no quote reaches.

### HdScan

One `epw` command from `Wallet::open` to the snapshot.  `walk` holds the loop
variables of `scan_branch`, `page` the requests of the threads under way; each
thread asks for the statistics and then, if the address is used, for the list,
and `Pay`, `ConfirmPayment`, `Spend`, `ConfirmSpend`, `Drop` move the chain between any
two of them.  `Join` takes one result of an answered page: results are taken in
order until one is an error or ends the branch.  `explorer` fixes how the
explorer behaves: honest, failing, of another chain, or lying about values,
spends, raw transactions, addresses, or whole outputs.  A transaction pays the
wallet once and its id is its content.

### Instant

The chain is `height`, `spend` per lockbox and `bond` per bond output.  An
announcement is a list of claims, in which an output may occur several times, and the
cover is a sum over its positions (`Cover`).  A transaction is `readable` if
`tx_commitment` computes its commitment: no confidential amount or asset, no issuance
or peg-in, no annex.  Honest operators and wallets refuse the others, but the covenant
does not, and a watchtower extracts no promise from such a spend (`Extractable`).
`honest` operators promise through `PromiseHonestly` (the check of the policy,
one promise per lockbox), the others sign anything.  A wallet publishes what it
holds and then applies `CheckPromise` to the receipts it sees, which are some of those
the relays were given (`Accept(t, seen)`); a transaction's value is what it is worth to
that wallet.  That it publishes
before it relies on a promise, and that an honest operator promises a lockbox
once, are rules of the protocol's specification, not of this library, and are
modelled as such.  A penalty can be mined by anyone who has two promises that contradict each
other; once they are in sight (`Conflict`), `Tick` waits for it up to `ChallengeWindow`
blocks, which is the assumption of the window.  A reorganisation replaces the last block and reaches
the funding of bonds only.

## 3. Runs

| Run | Specification | Distinct states | Checks |
|---|---|---|---|
| `core` | `WalletLedger!Spec` | 83 700 | `TypeOK`, `BuildsReview`, `ReviewExact`, `FeeFair`, `ChangeStaysConfidential`, `SelectionComplete`, `SwapBounded`, `SignedIsValid`, `NoLoss` |
| `scan` | `HdScan!ScanSpec` | 31 100 | `SnapshotHonest`, `ScanComplete`, `NoFalseAlarm`, action property `PinStays`, liveness `ScanEnds` |
| `instant` | `Instant!Spec` | 241 000 | `Punishable`, `TheftCovered`, `HonestDone`, `HonestNeverSlashed` |
| `controller_approvals` | `WalletController!Spec` | 450 000 | `PendingOwned`, `OneShot`, `PendingBounded`, refinement `KeepsPromise` |
| `controller_lock` | `FairSpec` | 492 000 | `AutoLockArmed`, liveness `OverdueLocks` |
| `router` | `ProviderRouter!FairSpec` | 442 000 | `TypeOK`, `SignedWithConsent`, `OkMeansSigned`, `NoForgottenApproval`, action property `AnswerFinal`, liveness `EveryCallAnswered` |
| `router_rejected` | `Spec` | violation | `RejectedUnsigned` |
| `gate_one` | `SpendGate!Spec`, one process | 743 000 | `RollingLimit`, `AuditedBeforeRelease`, `HumanInConfirmMode`, action property `FailsClosed` |
| `gate_two` | two processes | violation | `RollingLimit` |
| `offers_one` | `OfferState!Spec`, one process at a time | 307 000 | `TypeOK`, `AddressNotReused`, action property `OfferedCoinKept` |
| `offers_two` | two processes | violation | `AddressNotReused` |
| `signer` | `PreconferSigner!SignerSpec` | 11 600 (up to symmetry) | `ReleasedRecoverable`, `OneReceipt`, `PreconfirmedHolds` |

What the passing runs show:

* **core.**  Every request that selection accepts passes the independent review,
  whatever remainder it leaves; the review names the payee, the amounts and the
  fee exactly; the fee pays for the transaction as it came out; change of
  confidential coins is confidential; explicit coins that could pay are found;
  a swap stays within what was asked.  What is signed is valid on the ledger,
  and whatever took the place of the bundle on the way, the wallet never has less than
  its approved reviews and offers add up to, unless it signed a PSET that gives one of
  its coins a false asset.  (The run reaches such a signature; without the condition
  `NoLoss` is violated seven steps from the start.)
* **scan.**  A snapshot holds only real outputs of the wallet; with an honest
  explorer, a scan that succeeds has every coin that was there from beginning to
  end, and it fails only if the chain moved; it always ends.
* **instant.**  If a promise a wallet relied on is broken by a transaction whose
  commitment the library computes, contradicting promises are in sight and every
  counted bond is there or slashed.  The burned amounts cover what such victims relied
  on, by their own valuation, if the operator's list repeats no claim and every wallet
  that relied on it had seen all receipts.  Honest promises are final and honest bonds
  safe.  Nothing is said of what the protocol's own `SPEC.md` §14 names as residual:
  concurrent checks, relay eclipse (both `Informed` excludes) and undervalued tokens
  (the value is the victim's).
* **controller_approvals.**  Whatever interleaves (a lock by a direct call while
  a plan is awaited, a restore during a broadcast, expiry, a second approve, a
  worker that dies), an approval signs at most once per stage and only for the
  session it was prepared with, and the second stage of a split offer is signed
  only by that same session.
* **controller_lock.**  An unlocked wallet always has a timer for the *current*
  deadline, or the timer's work is in the queue, through changes of the setting
  in both directions; and an overdue wallet is eventually locked or used.
* **router.**  A request is signed for at most once and only after the user
  approved it; `ok` means signed; an answer is never replaced; a repeated
  `describe` leaves no usable approval behind; every call is answered, even when
  the window is closed before its id is known.
* **gate_one.**  With one process at a time the rolling limit holds over every
  window, not just the one ending now; after a torn line no bundle is begun, and
  only the call whose own append tore it finishes.
* **offers_one.**  With one process at a time a reserved index is never given
  out again and an offered coin is never picked by another plan.
* **signer.**  The lock, the failed flag and the order journal, publish,
  broadcast are enough: no crash or failing write makes the service contradict
  or forget a receipt.

### Bounds

* Core: three or four coins per wallet, chosen so that the amounts requested
  leave a remainder under, at and over the dust limit, and that a confidential
  coin is the largest, the only, or one of several; three makers' coins and six
  offers, two of them bad; two mined transactions, so that the second spends what the
  first created; one altered bundle, before anything was signed (`AlterTwice` and
  `AlterUntil`), with twelve kinds of edits (`MCEdits`): payee, derivation, an amount paid
  by the fee, value, asset, confidentiality or coin claimed for an input, the assets of
  two inputs exchanged (one wallet has two coins of as many units as a maker's), a
  repeated input, another chain, another fee or kind in the review.
  `MaxMoney` is what the largest coin is worth, so that sums of coins exceed it, and
  `MaxFeeRate` the rate of the requests, so that `FeesAssumption` holds of the instance.
  `MaxPsetItems` and `MaxRequestItems` are not reached.  `SelectionComplete` is stated
  for explicit coins and a fee with change: with confidential coins the greedy
  choice may fail where another would not, and nothing promises otherwise.
* Scan: a gap of two, indices to six, coins before, at and behind the gap and on
  both branches, two events of the chain (one with a lying explorer): one
  between statistics and list is what the count comparison is for, a second one
  can undo it.
* Instant: one operator, two lockboxes of different expiry, two bonds (one deep,
  one just funded) with refunds before and after the window, a list with two claims
  about one of them (one false), four transactions
  that compete for the lockboxes, one of them not readable; heights to five, past every
  expiry.  No list of the instance repeats a claim.
  Transactions over lockboxes of several operators are in the model and the
  proofs, not in the instance.
* Controller: two sessions (one replaced by another), two approvals with
  `MaxPending = 1` (the limit is reached, and the approval after it), one
  request waiting behind the running one, two or three ticks with deadlines of
  one and two, so that approvals expire before, at and after the auto-lock, and
  a setting both shrinks and grows.  The two passing runs divide the messages:
  one has everything that touches approvals, the other everything that touches
  the session and the timer.  `MaxQueue` limits `Submit` only; the timer's work is
  always queued.
* Router: two calls in four combinations of methods chosen so that each method
  and each conflict occurs (a transaction against a disconnect of its site, a
  connect against a disconnect elsewhere, two calls of one origin against
  `MaxPerOrigin = 1`), two approvals (a describe and the one that replaces it),
  two queued controller calls, one restore, one stop of the worker, and one
  storage operation at a time against everything else.  What
  overlapping operations write decides only which sites are connected, which the
  properties of `router` do not read.
* Gate: a transfer, a two-step offer bundle and a DEX take; limits one of them
  exhausts; a window of two ticks in a time of three, so that entries leave the
  window; three calls.  `gate_one` covers both policy modes, under one set of limits.
* Offers: two coins (one to start with, one that a split or a payment creates)
  and four commands, enough for an offer, a crash, and two commands after it.
* Signer: four requests over two transactions, two processes, two relays.

Deadlock is checked except where the system may really stop: in the gate, the
core and the instant run (calls, mined transactions and heights are bounded),
in the scan (one command, which ends), and in the signer (a torn journal stops
the service until an operator looks at it).

### Fairness

* Controller: `WF(Start)`, the promise queue starts the next handler;
  `WF(Continue)`, an awaited call settles, because every fetch has a timeout and
  extension storage answers; `WF(TimerFires)`, a due timer fires.  No fairness
  on requests, on the clock or on direct calls.
* Router: `WF(StorageStep(r))`, storage answers the reads and writes of each
  call; `WF(Progress(r))`, the permission
  check and the snapshot settle and the request's own timer fires.  Nothing is
  assumed about windows, the user or the controller.

* Scan: `WF(Scanner)`, each request ends with an answer or an error, because the
  HTTP client has a timeout of 30 seconds (`esplora.rs`), and the rest is
  computation.  Nothing is assumed of the chain.

### Disagreements with the repository's own words

Each is a `violation` run and an entry of `findings`.

1. `router_rejected`: closing the window, or the timeout, while `approve` is in
   flight answers "user rejected" for a transaction that is signed and broadcast.
2. `gate_two`: two processes each fit `per_24h` and together exceed it.
3. `offers_two`: a process with an older copy of `state.json` gives out a
   reserved index, or overwrites the reservation.

Six more things were seen while modelling and have no run:

* `vault.create` opens the session before the password and the storage can fail;
  a failure leaves a session nobody destroys (`controller.ts:264`).
* The vault is replaced and the sites are removed in two writes; a stop in
  between, or an overlapping grant, leaves the restored wallet with connected
  sites (`controller.ts:276`).
* Two sites disconnected in quick succession, or one disconnected while another
  connects: the later write brings the first back (`settings.ts:150`).
* "An unreadable log fails closed" (`audit.rs:1-3`) holds of the next call, not of the
  one that makes the log unreadable: when the line before lacks its newline, an entry
  appended to it tears the log, the append succeeds, and the call goes on to release its
  bundle (`audit.rs:64-66`, `gate.rs:312`).  `FailsClosed` says exactly this much.
* The review says what a PSET costs "recomputed from the PSET alone" (`review.rs:1`), and
  takes the asset of an explicit input from the PSET's own `witness_utxo`
  (`review.rs:290-307`).  Neither the review nor a segwit-v0 signature compares it with
  the coin, so an altered PSET may name two inputs of equal value the wrong way round.
  `prepare_*` builds PSETs from verified coins, in which this does not occur.
* "Any second promise is evidence" (`rust/instant/SPEC.md:28`), but the library computes
  no commitment of a transaction with confidential amounts, issuances, peg-ins or
  annexes (`hash.rs:96-107,144`), and `lockbox.simf` does not keep an owner and an
  operator from, say, a confidential output: the watchtower gets no evidence from such
  a spend.  And an announcement may name
  one bond up to sixteen times (`announce.rs:41`), each of which `eligible_cover` counts
  (`policy.rs:34-47`).

## 4. Proofs

All are for arbitrary sets and bounds, from the named assumptions of the modules
only (`ConstantsAssumption`, `InputsAssumption`, `RouterAssumption`,
`GateAssumption`, `OfferAssumption`, `SignerAssumption`, `ScanAssumption`,
`InstantAssumption`, `BoundsAssumption`, `FeesAssumption`, `LedgerAssumption`), which the runs evaluate, and, for six
theorems, from a hypothesis that the theorem names (`Alone`, `SameChain`, `InRange`,
`Modest`).  The assumptions say of the constants what their types are in the code,
that the coins and bonds there are at the start are finite in number, that different
coins have different ids, that nobody else signs for the wallet, and that the fee of
the largest transaction at the highest rate is below `MAX_MONEY` (in the code 1000
satoshi per vbyte and a few hundred inputs and outputs, against 21 million coins).  Type correctness is a theorem of each of these
specifications (of `HdScan` as part of `ScanInv`).

**WalletControllerProofs.**  `TypeCorrect`.  `TypeOK` is not inductive: that
`job.req.id` is an approval id needs to know that a handler waiting at
`broadcast` carries an `approve` request.  `JobShape` says which request waits
at which step; `TInv` is the conjunction.  `...Facts` lemmas state once what
each private method does to the record `ctl`.

`PendingOwnedHolds`, `OneShotHolds`, `PendingBoundedHolds`,
`KeepsPromiseHolds`.  `ApprovalInv` adds to the properties what the running
handler holds: the session of a handler that awaits a plan, a broadcast or a
split is the current one or has been destroyed, and nothing is unlocked while a
new vault is stored and adopted (`HandlerSession`); an approval being carried
out belongs to that session and has signed its transaction and not yet its offer
(`HandlerApproval`).
Most actions are handled by one lemma because they only narrow the pending set.
`PendingBounded` needs `Room`: while a plan is awaited there is room for one
more, since the size can only shrink until it arrives; this is where the queue
matters.  `KeepsPromise` maps `current` to the session, `open` to the pending
set, `owner` and `deadline` to the fields of the approval; each action is one
abstract step or leaves the abstract state alone.

`AutoLockArmedHolds` is inductive together with `TInv`.  The
property says both that the controller's delay is the stored one and that the
timer runs for it; the first is what makes the second survive a change of the
registry or the explorer, which sets the delay again without restarting the
timer.

**RouterProofs.**  `TypeCorrect`, `SignedWithConsentHolds`, `OkMeansSignedHolds`,
`NoForgottenApprovalHolds`, `AnswerFinalHolds`, for any requests, sites, approval
ids and bounds.  The properties speak of entries, of the promise queue and of the
controller's approvals at once; `Consent` adds what these say of each other.  A
call in the queue knows its request and its approval, and an approve that has not
run has signed nothing yet (`CallsSound`); a request has one approve in the queue
(`OneApprove`); an approved request that is still pending has given up its
approval and waits for its approve, and what is prepared for it again comes later
(`Awaiting`), which is why a second describe cannot leave a second signature; and
an approval belongs to one request (`Owned`).  `Revoking` says that
`ep_disconnect` waits for its one revocation.  Most steps are cases of one lemma,
`QueueStep`: entries move forward (`Moves`), calls leave the front of the queue,
approvals are only lost.

**EpwProofs, the gate.**  `AuditedBeforeReleaseHolds` and `HumanInConfirmModeHolds`
for any number of processes.  `GateInv` adds that the steps a running call has
signed are in the log (`SignedRecorded`; the log only grows) and that a signing
call in confirm mode has a human (`SignedByHuman`).

`RollingLimitHolds` and `FailsClosedHolds` are theorems of one process at a time
(`Alone`); `gate_two` shows that the limit needs this, and a second process that
read the log before a line was torn signs after it.  A limit on windows that end
in the past, checked only for the window that ends now, needs three facts:
entries are never later than the clock (`LogSound`), no more steps are signed
than the bundle has (`StepsLeft`), and what was spent in the present window plus
what the running call has *still to sign* is within the limit (`Budget`).  The
last one is what `evaluate` establishes for the whole bundle before its first
signature, each `SignStep` moves a step from one side to the other, and the clock
only takes entries out of the window.  It is stated for assets that the rest of
the bundle spends: `evaluate` compares no limit for an asset a bundle does not
spend, so that what was there before stays `RollingLimit`'s own business.
`FailsClosed` needs `Torn`: with a torn line every call has yet to read the log, or is
the one that has just logged the last entry (`JustLogged`), since a torn line ends the
call that tore it except when its whole entry was appended to an open line.

**OfferProofs.**  `TypeCorrect`, for any number of processes: `BundlesNamed` adds
that a parked offer is about a coin that exists or is planned.
`AddressNotReusedHolds` and `OfferedCoinKeptHolds` are for a process that has
`state.json` to itself (`Alone`; `offers_two` is the counterexample with two).
`PromiseInv`: the file, and the copy of whoever has it open, are ahead of every
reserved index (`Ahead`); a coin whose offer was reported as made is open in both
until it is spent (`KeptOpen`), because what is about to be reported is in the
copy about to be saved (`InCopy`); and a split, which makes the coin that it
offers, runs once, so that no second bundle can bring back a coin that is gone
(`Planned`).

**EpwProofs, the scan.**  `SnapshotHonestHolds`, `PinStaysHolds`.  `ScanInv` says that
whatever is listed, in whatever stage of the walk, is listed under an address of
the wallet and with an id that is not the null one (`Reference`).  A raw
transaction that hashes to such an id is one of the chain's
(`VerifiedIsReal`), it pays the wallet, and a coin, once there, remains what it
is (`ChainKeeps`).  The pin needs no invariant.

`ScanCompleteHolds` follows the coins that the property speaks of (there at the
start, unspent and not touched since) through the walk.  `CompleteInv`: each of
them is still on the chain as it was (`CoinsOnce`, `Fresh`, `Origin`), an
answered address with such a coin lists it and counts as used (`PageTrue`: the
count the explorer gave has to agree with what it listed, and one payment in
between makes the request fail, not lie), the walk has found every one of them
below its index and has not run ahead of a used address by more than its gap
(`WalkTrue`), and a finished branch has all of them listed or filed
(`BranchTrue`).  Ids have to be unique, since two coins of one id are one entry
of a snapshot.

`NoFalseAlarmHolds` has two hypotheses, on the constants: the explorer's chain is
the one that is pinned (`SameChain`; otherwise refusing is what the pin is for),
and every coin and the reserved index are a gap below the last index a scan may
reach (`InRange`; `scan_branch` gives up beyond it).  `MCHdScan` assumes both, so
that the run evaluates them.  `QuietInv` says that, as long as nothing has moved,
whatever is listed is on the chain (`Fetchable`), every page agrees with it
(`PageQuiet`), and the loop is never farther than the gap from an address in use
(`WalkQuiet`), which is why it ends before the last index.

**ConfirmationProofs.**  About `Instant`: `HonestNeverSlashedHolds`, `HonestDoneHolds`,
`PunishableHolds`, for any operators, lockboxes, transactions, bonds and policy
parameters.  `InstantInv`: an honest operator has one promise per lockbox
(`HonestOnce`); a spent lockbox went with a promise or after its expiry
(`SpendsJustified`); what a wallet relies on was within the margin
(`AcceptedSound`); the bonds it counted are too deep to be reorganised and
outlast its lockboxes by the window (`CountedBonds`, `RefundsLate`); and as long
as a thief's bond is there, the window is open (`WindowOpen`), because `Tick` does not
pass the deadline of a penalty.

`PunishableHolds` is about spends from which evidence can be extracted
(`RobbedVisibly`), since the others put nothing in sight.

`TheftCoveredHolds` compares what the victims relied on with what is burned, for an
operator whose list repeats no claim (`ListedOnce`: positions of the list and bonds
then correspond, and a sum over the ones is a sum over the others) and whose wallets had
seen every receipt (`Informed`).  Both conditions are needed: a repeated claim is
counted as often as it occurs, and a wallet that misses a receipt relies on cover that
another counts too.  Victims are counted once per transaction, but they accepted at
different times, with different bonds to count on.  `Exposure` is the
statement that survives this: of any set of accepted transactions of an operator
none of which is mined, there is one, the last to be accepted, whose counted
bonds cover the value of them all, because the wallets before it had published
theirs.  It is an invariant because it speaks of all such sets at once.  A
robbed transaction can no longer be mined (`Atomic`: a transaction takes all its
lockboxes or none), so the robbed ones are such a set; the bonds counted for
the last one are there or slashed (`Punishable`), and a slashed one burned what
it counted for, whatever fee was paid (`SlashedBurn`).

About the signer: `ReleasedRecoverableHolds`, `OneReceiptHolds`,
`PreconfirmedHoldsAlways`.  `SInv`: at most one process is up (the file lock);
the decision a running process remembers is the only line of a clean journal, and
one that has none has released nothing and, unless a write has failed, finds the
journal empty (`InStep`); a request that publishes carries the decision, and the
relays it has passed store it (`RequestInv`, `RelayInv`); a receipt is out only
if there is a header.

**WalletCoreProofs and WalletLedgerProofs.**  `TypeCorrect`, `NoLossHolds`,
`ReviewExactHolds`, `FeeFairHolds`, `ChangeStaysConfidentialHolds`, `SignedIsValidHolds`,
`SwapBoundedHolds`, `SelectionCompleteHolds`, `BuildsReviewHolds`, for any wallets, makers' coins, offers
on the market, quotes, amounts, fee rates and bounds.

From `ReviewExactHolds` on they speak of a bundle or a transaction, and most of their proof
is about operators.  From the loops of `fund` come lists of candidates and a fee
between the one of the transaction and the one of a transaction with one more
change, plus what is too small to give back (`SettledGives`, `PayFeeGives`,
`FundGives`: `Funded`); from the builders, the PSET as a list of named parts
(`Assembled`, and one `...Gives` lemma per prepare function); from `analyze`, that
what it let through conserves every asset and has one fee output (`Analyzed`).
`BalanceIs` turns conservation into what the review shows: whatever was selected
and given back as change, the balance of an asset changes by what is issued less
what goes to others.  The `...Review` lemmas compute this for each kind of request,
`FairGives` counts inputs, outputs and blinded outputs of the PSET as they came
out, and `StartBlinds` finds the change among them.

`Inv` is what makes them invariants.  Of the ledger (`LedgerTrue`): no two coins
share an id and ids do not run ahead of the mined transactions (`CoinsTrue`,
`SpentTrue`); the wallet's offers are signatures over one coin and the output
across from it (`OffersTrue`); and whatever was signed had just been analyzed, with
the review that was approved (`SignedTrue`).  Of the bundle (`FlowTrue`): whatever
took its place, its inputs name coins of the ledger (`BundleTrue`, from `StorableStored`);
what is unaltered also tells the truth about them (`Exact`).  And as long as the wallet
was not misled, everything it signed gives its coins their true assets (`NamedTrue`).

`NoLossHolds` is accounting over whatever was signed.  A transaction is mined only if the
ledger accepts it, so that its inputs' owners and values are the coins' (`MineSound`,
`InputCoins`): the signatures cover them, though not the assets, which is where
`NamedTrue` is needed.  What a mined transaction
takes from the wallet are the inputs it signed for this transaction and the coins
of its own offers (`GoneIs`: nobody else has signatures of the wallet); what it
brings are at least the outputs that the review counted and the outputs across
from those offers (`GainedAre`).  The two kinds are disjoint, in the inputs and in
the outputs: a maker's output has no derivation, so that a review never counts what
an offer has already promised (`MakersFirst`).  The review's deltas are the
difference of the first kind (`FromReviewIs`), the offers' terms that of the second
(`TakenSum`, for which own offers and their inputs correspond one to one,
`MatchedTaken`).  The account therefore never grows faster than the balance.

`SignedIsValidHolds` follows from the same: what was analyzed balances, whatever is
signed verifies, and a single signature commits to the coin and the output that a
taker leaves in place (`OwnOfferCompletes`).

`SwapBoundedHolds` is for every quote, whichever offers it lists and in whichever
order.  The PSET of a swap has the makers' inputs and outputs position by position
and nothing else of anyone but the wallet (`SwapTrades`), so that its balance
changes are the sums of what the offers want and give (`SwapBalance`).  Prices are
compared across, as in the code: among the offers one is cheapest (`BestPrice`,
over all finite sets), what is within the limit of its price is within the limit of
any other's (`WithinLimit`, which undoes the division), and an impact that does not
fit the 64 bits it is cast to is that of an average further from the cheapest offer
than those bits can say (`FarFromBest`), which is the second disjunct of the
property.  No run reaches it: the amounts are small.

`SelectionCompleteHolds` says that greedy selection misses nothing.  The pool lists
every coin once, none after a smaller one (`LargestFirst`), so that no k coins of it
are worth more than its first k (`PrefixIsMost`, from `FirstAreMost` about any numbers
in descending order: what is taken from beyond the first k is at most the k-th, what
it leaves out is at least that).  A payment in the policy asset brings no tokens into
`fund` (`FundPolicy`), and a fee of explicit coins depends on their number only, so
when the loop has refused every beginning of the pool (`PayFeeFails`) no other coins
would have done.  The property needs its hypothesis that the coins are explicit: with
confidential ones the size, and the reserve, depend on which coins they are.

`BuildsReviewHolds` says that the two halves of the core agree: what the builder
accepts, the independent reviewer passes.  Its proof has three layers.

1. *Funding adds up.*  `FundBalances` follows the loops of `fund`: in every asset the
   inputs are worth the outputs, once the issued amounts are added and the fee is
   counted among the outputs of the policy asset.  The coins are any, and so are the
   needs of the policy asset and of one other, which is as many as a request has; with
   an issuance, one coin is forced.
2. *The review of a funded PSET.*  `FundedPasses` goes through `analyze` refusal by
   refusal.  What funding itself settles (conservation, one fee output and where it
   stands, ranges, derivations of change, blinding of change next to confidential
   coins) is proved once; what depends on the request is left as hypotheses, in named
   groups.  A PSET of more items than `analyze` admits is refused with an error of its
   own, which the property allows.
3. *Each request* discharges those: one `...Passes` lemma per prepare function.  For
   a transfer and an issuance the fixed parts are the wallet's and the payee's; for
   an offer, its split and its cancellation, one coin and one output; for a take and
   a swap the makers' parts lie position by position before the wallet's
   (`TakePasses`, `SwapPasses`), their signatures cover just that pair, and the
   wallet's own offers among them are still makers' inputs to the review.

`FeesAssumption` bounds the fee; the change needs `Modest`.  `fund` stops at the first
coin that makes the payment possible with a change above the dust limit, so that the
change is at most that coin plus the dust limit, and it must be an amount itself: at
most `MAX_MONEY`.  `Modest` says that no policy coin the bundle may spend is within the
dust limit of `MAX_MONEY`, that is, holds practically the whole supply.  Without it the
property is false of some constants: from two confidential coins of `MAX_MONEY` each
(a supply there never is), a payment that leaves the first one a change just under the
dust limit takes the second too, and makes a change that the reviewer refuses.  (Amounts of other assets need no such
hypothesis: their change is less than the last coin added.)

**DataTheorems.**  The sums of the models are `SumFunctionOnSet` of the community
modules, a fold.  The library's induction theorems take an operator as a
parameter, which the provers cannot instantiate, but an induction over *sets*
needs none: a set of naturals (or of finite sets) that is not everything has a
complement with a least element (`NatLessThanWellFounded` and `WFMin` of the
library), which is the counterexample to the step.  `ByInduction`, `ByRemoval` and
`ByAddition` are that argument; `Sums` is the function the fold defines, shown to
exist by induction on the size of its domain (`SumsExist`); from it the sum over
one more element (`SumAdd`), one less (`SumRemove`), two disjoint sets
(`SumUnion`), a subset (`SumSubset`), renamed indices (`SumRenamed`), and monotony
(`SumMonotone`).  The same induction gives that sorting lists every element
(`Ranks`, from which `SortedNumbers` and `RankCoins`).

Only model-checked: the liveness properties `OverdueLocks`, `ScanEnds` and
`EveryCallAnswered` (liveness under fairness and `ENABLED` are beyond the prover).

## 5. What the models assume or leave out

* A stretch of JavaScript between two awaits is atomic, and a continuation that
  is a microtask of a settled promise runs before any other event.
* The approval window is the only surface that decides about a request.
* One clock drives the auto-lock timer and the idle check.  With a wall clock
  set back, the timer may fire early and not be armed again; this is listed as a
  hazard without a property.
* Approval ids are random and drawn once; identical ids do not occur.
* `epw` reads the chain once per preparation; change outputs are not followed
  (they go to the internal chain), and payments stay within the scan's gap.
* A save of `state.json` is atomic (temporary file and rename).  Two processes
  writing the same temporary file are listed as a hazard.
* The ledger of `WalletLedger` is one chain without reorganisations; the scan's
  chain and the instant chain have the ones named above.
* Cryptography is symbolic; formats, HTTP, rendering and the parsing of
  arguments and policies are not modelled.

Not modelled, with the reason for each in `components` of `PROJECT.json`: the
content bridge (a relay of messages whose other ends are the browser's), the
extension's second check of a review, the token registry (what is displayed, not
what is signed), the extension's own scan (its counterpart in `epw` is), the
TypeScript face of the core, formatting and encoding, the MCP server's JSON-RPC
layer, the keystore and the vault's cryptography, the vendored relay library and
the LWK adapter.
