------------------------- MODULE MCWalletController -------------------------
(* Instances of WalletController for TLC.                                    *)
EXTENDS WalletController, TLC

CONSTANTS s1, s2, a1, a2, dapp

MCSessions == {s1, s2}
MCIds == {a1, a2}
MCOrigins == {"wallet", dapp}
MCChoices == {1, 2}

Approve(good, via) == [kind : {"approve"}, id : MCIds, good : {good}, via : {via}]

(* Everything that touches approvals, from the wallet UI and from a dApp.     *)
ApprovalInputs ==
         {[kind |-> "unlock", good |-> TRUE], [kind |-> "lock"],
          [kind |-> "prepare", origin |-> "wallet", op |-> "transfer"],
          [kind |-> "prepare", origin |-> dapp, op |-> "offer_split"],
          [kind |-> "prepare", origin |-> dapp, op |-> "offer_direct"],
          [kind |-> "create", replace |-> TRUE, good |-> TRUE]}
    \cup Approve(TRUE, "page") \cup Approve(TRUE, "router")

(* Everything that touches the session, the auto-lock timer and its setting. *)
LockInputs ==
         [kind : {"touch", "lock", "query", "status", "snapshot"}]
    \cup [kind : {"create"}, replace : BOOLEAN, good : BOOLEAN]
    \cup [kind : {"unlock", "reveal"}, good : BOOLEAN]
    \cup [kind : {"settings"}, changed : {"timer"}, autoLock : MCChoices]
    \cup [kind : {"settings"}, changed : {"registry", "explorer"}]
    \cup {[kind |-> "prepare", origin |-> dapp, op |-> "issuance"]}
    \cup [kind : {"approve"}, id : {a1}, good : {TRUE}, via : {"router"}]
    \cup [kind : {"reject"}, id : {a1}]

Symmetry == Permutations(MCSessions) \cup Permutations(MCIds)
=============================================================================
