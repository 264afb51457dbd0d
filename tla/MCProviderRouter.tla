-------------------------- MODULE MCProviderRouter --------------------------
(* Instances of ProviderRouter for TLC.                                      *)
EXTENDS ProviderRouter, TLC

CONSTANTS r1, r2, a1, a2, o1, o2

PageCall(o, m) == [origin |-> o, method |-> m]
Two(x, y) == [r \in {r1, r2} |-> IF r = r1 THEN x ELSE y]

(* A site that disconnects during its transaction, or while it or another   *)
(* site connects; and the reading methods.                                   *)
Mixed ==
    {Two(PageCall(o1, "transaction"), PageCall(o1, "disconnect")),
     Two(PageCall(o1, "connect"), PageCall(o2, "disconnect")),
     Two(PageCall(o1, "balances"), PageCall(o1, "disconnect")),
     Two(PageCall(o1, "address"), PageCall(o1, "connect"))}

(* One transaction.                                                          *)
OneTransaction == {[r \in {r1} |-> PageCall(o1, "transaction")]}
=============================================================================
