----------------------------- MODULE OfferState -----------------------------
(***************************************************************************)
(* The local state of epw (src/rust/wallet-cli/src/state.rs): the external *)
(* indices reserved for offers and the offers themselves, and how the      *)
(* commands of wallet.rs use it.                                           *)
(*                                                                         *)
(* A process reads the file once, when the wallet is opened, works on its  *)
(* copy, and writes the whole copy back at several places.  The MCP server *)
(* keeps its copy for as long as it runs, a command for one operation.     *)
(* Nothing is read again and nothing is locked.                            *)
(*                                                                         *)
(* Whether the gate signs, parks or refuses is left open here (module      *)
(* SpendGate), and so are amounts: which coins a plan takes is any choice  *)
(* among the ones it may take.                                             *)
(***************************************************************************)
EXTENDS Naturals, FiniteSets, FiniteSetsExt

CONSTANTS
    Procs,     \* epw processes
    Coins,     \* outputs of the wallet, created so far or later
    Funds,     \* the coins it starts with
    MaxCommands, \* bound: commands that show an address or run a bundle
    None

ASSUME OfferAssumption ==
    /\ Funds \subseteq Coins /\ None \notin Coins
    /\ MaxCommands \in Nat

VARIABLES
    file,      \* state.json
    proc,      \* process -> its copy and the command it is in
    parked,    \* bundles with a file in pending/
    unspent,   \* the wallet's coins on the chain
    named,     \* coins that exist or are planned
    next,      \* one above the highest external index paid on the chain
    handed,    \* indices shown to payers
    live,      \* signed offers that have left the wallet
    offered,   \* indices reserved for the payment of an offer
    completed, \* coins whose offer was reported as made
    commands

vars == <<file, proc, parked, unspent, named, next, handed, live, offered, completed,
          commands>>
chain == <<unspent, next>>
promises == <<live, offered, completed>>

Local == [reserved : Nat, offers : [Coins -> {"none", "open", "cancelled", "spent"}]]

(* picked: what coin selection chose.  coin: the coin offered, or the offer  *)
(* cancelled.  pay: the index the offer is paid to.  seen: one above the     *)
(* external index its transaction pays.                                      *)
Bundle == [kind : {"spend", "offer", "cancel"}, picked : SUBSET Coins, coin : Coins \cup {None},
           pay : Nat, seen : Nat]

Process == [at : {"closed", "ready", "gate", "resume", "execute", "offer", "save"},
            mem : Local, bundle : Bundle]

(* The values every variable may take.                                       *)
TypeOK ==
    /\ file \in Local
    /\ proc \in [Procs -> Process]
    /\ parked \subseteq Bundle
    /\ unspent \subseteq named /\ named \subseteq Coins
    /\ next \in Nat
    /\ handed \subseteq Nat /\ offered \subseteq Nat
    /\ live \subseteq [coin : Coins, pay : Nat]
    /\ completed \subseteq Coins
    /\ commands \in Nat

Default == [reserved |-> 0, offers |-> [c \in Coins |-> "none"]]
NoBundle == [kind |-> "spend", picked |-> {}, coin |-> None, pay |-> 0, seen |-> 0]

Init ==
    /\ file = Default
    /\ proc = [p \in Procs |-> [at |-> "closed", mem |-> Default, bundle |-> NoBundle]]
    /\ parked = {} /\ handed = {} /\ live = {} /\ offered = {} /\ completed = {}
    /\ unspent = Funds /\ named = Funds
    /\ next = 0 /\ commands = 0

-----------------------------------------------------------------------------
OpenOfferOutpoints(s) == {c \in Coins : s.offers[c] = "open"}

Spendable(p) == unspent \ OpenOfferOutpoints(proc[p].mem)

ReceiveIndex(p) == Max({next, proc[p].mem.reserved})

(* Mutant of Reserve: the index itself, not the one above it.                *)
ReserveShort(s, i) == [s EXCEPT !.reserved = Max({s.reserved, i})]

Reserve(s, i) == [s EXCEPT !.reserved = Max({s.reserved, i + 1})]

Goto(p, at) == proc' = [proc EXCEPT ![p].at = at]

(* The command is over; the process can take another one.                    *)
Return(p) == proc' = [proc EXCEPT ![p].at = "ready", ![p].bundle = NoBundle]

(* A command begins.                                                         *)
Command(p) ==
    /\ proc[p].at = "ready"
    /\ commands < MaxCommands
    /\ commands' = commands + 1

(* Wallet::open reads the file; a process ends or dies at any point.         *)
Open(p) ==
    /\ proc[p].at = "closed"
    /\ proc' = [proc EXCEPT ![p] = [at |-> "ready", mem |-> file, bundle |-> NoBundle]]
    /\ UNCHANGED <<file, parked, chain, named, handed, promises, commands>>

Exit(p) ==
    /\ proc[p].at # "closed"
    /\ proc' = [proc EXCEPT ![p] = [at |-> "closed", mem |-> Default, bundle |-> NoBundle]]
    /\ UNCHANGED <<file, parked, chain, named, handed, promises, commands>>

(* refresh_registry and offer_post: fields that are not modelled change, the *)
(* whole copy is saved.                                                      *)
SaveCopy(p) ==
    /\ proc[p].at = "ready"
    /\ file' = proc[p].mem
    /\ UNCHANGED <<proc, parked, chain, named, handed, promises, commands>>

Address(p) ==
    /\ Command(p)
    /\ handed' = handed \cup {ReceiveIndex(p)}
    /\ UNCHANGED <<file, proc, parked, chain, named, promises>>

-----------------------------------------------------------------------------
(* Preparing a bundle.  The chain is read once for all of it.                *)

Prepare(p, b) == proc' = [proc EXCEPT ![p].at = "gate", ![p].bundle = b]

(* send, and issue and swap, which also receive at the next external index.  *)
PrepareSpend(p, picked, receives) ==
    /\ Command(p)
    /\ picked # {} /\ picked \subseteq Spendable(p)
    /\ Prepare(p, [kind |-> "spend", picked |-> picked, coin |-> None, pay |-> 0,
                   seen |-> IF receives THEN ReceiveIndex(p) + 1 ELSE 0])
    /\ UNCHANGED <<file, parked, chain, named, handed, promises>>

(* offer_make after its plan: the payment index is reserved and saved before *)
(* the gate sees the bundle; a failing save ends the command.                *)
ReserveAndGo(p, b) ==
    LET mem == Reserve(proc[p].mem, b.pay) IN
    \/ /\ file' = mem
       /\ proc' = [proc EXCEPT ![p] = [at |-> "gate", mem |-> mem, bundle |-> b]]
       /\ offered' = offered \cup {b.pay}
    \/ /\ proc' = [proc EXCEPT ![p].mem = mem]
       /\ UNCHANGED <<file, offered>>

(* A coin of the exact amount is offered as it is.                           *)
OfferExact(p, c) ==
    /\ Command(p)
    /\ c \in Spendable(p)
    /\ ReserveAndGo(p, [kind |-> "offer", picked |-> {c}, coin |-> c,
                        pay |-> ReceiveIndex(p), seen |-> 0])
    /\ UNCHANGED <<parked, chain, named, handed, live, completed>>

(* No coin of the exact amount: a split pays the coin to the next index, and *)
(* the offer is paid to the one after it.                                    *)
OfferSplit(p, picked, c) ==
    /\ Command(p)
    /\ picked # {} /\ picked \subseteq Spendable(p)
    /\ c \in Coins \ named
    /\ named' = named \cup {c}
    /\ ReserveAndGo(p, [kind |-> "offer", picked |-> picked, coin |-> c,
                        pay |-> ReceiveIndex(p) + 1, seen |-> ReceiveIndex(p) + 1])
    /\ UNCHANGED <<parked, chain, handed, live, completed>>

(* offer_cancel: any coin of the wallet may be named; other coins pay the    *)
(* fee.                                                                      *)
PrepareCancel(p, c, others) ==
    /\ Command(p)
    /\ c \in unspent
    /\ others \subseteq Spendable(p) \ {c}
    /\ Prepare(p, [kind |-> "cancel", picked |-> others, coin |-> c, pay |-> 0, seen |-> 0])
    /\ UNCHANGED <<file, parked, chain, named, handed, promises>>

(* sign_file: a parked bundle comes back.                                    *)
SignFile(p, b) ==
    /\ Command(p)
    /\ b \in parked
    /\ proc' = [proc EXCEPT ![p].at = "resume", ![p].bundle = b]
    /\ UNCHANGED <<file, parked, chain, named, handed, promises>>

-----------------------------------------------------------------------------
(* run_with: the gate answers, and a signed bundle is executed.              *)

HasTx(b) == b.kind # "offer" \/ b.coin \notin b.picked

GateSigned(p) ==
    /\ proc[p].at \in {"gate", "resume"}
    /\ parked' = parked \ {proc[p].bundle}
    /\ Goto(p, IF HasTx(proc[p].bundle) THEN "execute" ELSE "offer")
    /\ UNCHANGED <<file, chain, named, handed, promises, commands>>

GateParked(p) ==
    /\ proc[p].at = "gate"
    /\ parked' = parked \cup {proc[p].bundle}
    /\ Return(p)
    /\ UNCHANGED <<file, chain, named, handed, promises, commands>>

(* Refused or declined; or, while executing, a broadcast, an append to the   *)
(* audit log, a decoding or a save failed: the command ends without a save.  *)
Failed(p) ==
    /\ proc[p].at \in {"gate", "resume", "execute", "offer", "save"}
    /\ Return(p)
    /\ UNCHANGED <<file, parked, chain, named, handed, promises, commands>>

Spent(b) == b.picked \cup (IF b.kind = "cancel" THEN {b.coin} ELSE {})

(* Mutant of MarkCancelled: a status that offer_list does not know.            *)
MarkWithdrawn(s, b) ==
    IF b.kind = "cancel"
      THEN [s EXCEPT !.offers = [c \in Coins |-> IF c \in Spent(b) THEN "withdrawn" ELSE s.offers[c]]]
      ELSE s

(* A cancel that was broadcast marks the offers it spent.                    *)
MarkCancelled(s, b) ==
    IF b.kind = "cancel"
      THEN [s EXCEPT !.offers = [c \in Coins |-> IF c \in Spent(b) /\ s.offers[c] = "open"
                                                   THEN "cancelled" ELSE s.offers[c]]]
      ELSE s

(* The explorer takes the transaction.  The audit entry after it may fail.   *)
Broadcast(p) ==
    /\ proc[p].at = "execute"
    /\ LET b == proc[p].bundle IN
         /\ Spent(b) \subseteq unspent
         /\ unspent' = (unspent \ Spent(b)) \cup (IF b.kind = "offer" THEN {b.coin} ELSE {})
         /\ next' = Max({next, b.seen})
         /\ \/ proc' = [proc EXCEPT ![p].at = IF b.kind = "offer" THEN "offer" ELSE "save",
                                    ![p].mem = MarkCancelled(proc[p].mem, b)]
            \/ Return(p)
    /\ UNCHANGED <<file, parked, named, handed, promises, commands>>

SignedOffer(b) == [coin |-> b.coin, pay |-> b.pay]

(* The offer is posted to the DEX, or is not, and recorded in the copy.      *)
OfferRecorded(p, posted) ==
    /\ proc[p].at = "offer"
    /\ LET b == proc[p].bundle
           mem == [proc[p].mem EXCEPT !.offers[b.coin] = "open"]
       IN /\ proc' = [proc EXCEPT ![p].at = "save", ![p].mem = Reserve(mem, b.pay)]
          /\ live' = IF posted THEN live \cup {SignedOffer(b)} ELSE live
    /\ UNCHANGED <<file, parked, chain, named, handed, offered, completed, commands>>

(* Mutant of Finish: nothing is saved after the execution.                   *)
FinishUnsaved(p) ==
    /\ proc[p].at = "save"
    /\ Return(p)
    /\ LET b == proc[p].bundle IN
         IF b.kind = "offer"
           THEN live' = live \cup {SignedOffer(b)} /\ completed' = completed \cup {b.coin}
           ELSE UNCHANGED <<live, completed>>
    /\ UNCHANGED <<file, parked, chain, named, handed, offered, commands>>

(* save_state, and the command reports its result.                           *)
Finish(p) ==
    /\ proc[p].at = "save"
    /\ file' = proc[p].mem
    /\ Return(p)
    /\ LET b == proc[p].bundle IN
         IF b.kind = "offer"
           THEN live' = live \cup {SignedOffer(b)} /\ completed' = completed \cup {b.coin}
           ELSE UNCHANGED <<live, completed>>
    /\ UNCHANGED <<parked, chain, named, handed, offered, commands>>

(* offer_list: open records whose coin is gone are closed, and saved.        *)
OfferList(p) ==
    /\ proc[p].at = "ready"
    /\ LET s == proc[p].mem
           gone == OpenOfferOutpoints(s) \ unspent
           mem == [s EXCEPT !.offers = [c \in Coins |-> IF c \in gone THEN "spent" ELSE s.offers[c]]]
       IN /\ proc' = [proc EXCEPT ![p].mem = mem]
          /\ file' \in {file, mem}
    /\ UNCHANGED <<parked, chain, named, handed, promises, commands>>

-----------------------------------------------------------------------------
(* The world: somebody takes an offer, or pays a shown address.              *)

Taken(o) ==
    /\ o \in live /\ o.coin \in unspent
    /\ unspent' = unspent \ {o.coin}
    /\ next' = Max({next, o.pay + 1})
    /\ UNCHANGED <<file, proc, parked, named, handed, promises, commands>>

Paid(i, c) ==
    /\ i \in handed
    /\ c \in Coins \ named
    /\ named' = named \cup {c}
    /\ unspent' = unspent \cup {c}
    /\ next' = Max({next, i + 1})
    /\ UNCHANGED <<file, proc, parked, handed, promises, commands>>

Next ==
    \/ \E p \in Procs :
         \/ Open(p) \/ Exit(p) \/ SaveCopy(p) \/ Address(p) \/ OfferList(p)
         \/ \E picked \in SUBSET Coins :
              \/ \E receives \in BOOLEAN : PrepareSpend(p, picked, receives)
              \/ \E c \in Coins : OfferSplit(p, picked, c) \/ PrepareCancel(p, c, picked)
         \/ \E c \in Coins : OfferExact(p, c)
         \/ \E b \in parked : SignFile(p, b)
         \/ GateSigned(p) \/ GateParked(p) \/ Failed(p) \/ Broadcast(p)
         \/ \E posted \in BOOLEAN : OfferRecorded(p, posted)
         \/ Finish(p)
    \/ \E o \in live : Taken(o)
    \/ \E i \in handed, c \in Coins : Paid(i, c)

Spec == Init /\ [][Next]_vars

-----------------------------------------------------------------------------
(* An index reserved for the payment of an offer is never given out again:   *)
(* whatever is prepared next, after crashes, failed saves, parked offers and *)
(* spent coins, receives above it.                                           *)
AddressNotReused ==
    \A p \in Procs : proc[p].at = "ready" => \A i \in offered : ReceiveIndex(p) > i

(* Once a command has reported an offer as made, coin selection leaves its   *)
(* coin alone: no later plan takes it to pay for something else, and a       *)
(* cancel takes no other offer's coin for its fee.                           *)
OfferedCoinKept ==
    [][\A p \in Procs :
         proc[p].at = "ready" /\ proc'[p].at = "gate" =>
             proc'[p].bundle.picked \cap completed = {}]_vars
=============================================================================
