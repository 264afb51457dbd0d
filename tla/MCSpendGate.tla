----------------------------- MODULE MCSpendGate -----------------------------
(* Instances of SpendGate for TLC: a transfer, a split with its offer, and a *)
(* take routed by the DEX, under a limit that one of them exhausts.          *)
EXTENDS SpendGate, TLC

CONSTANTS p1, p2, send, offer, take, ecx, tok, dex, shop, maker

Out(e, t) == (ecx :> e) @@ (tok :> t)
Step(kind, out, fee, pays) == [kind |-> kind, out |-> out, fee |-> fee, pays |-> pays]

MCContent ==
    (send  :> [dex |-> None, steps |-> <<Step("transfer", Out(1, 0), 1, {shop})>>]) @@
    (offer :> [dex |-> dex, steps |-> <<Step("transfer", Out(0, 0), 1, {}),
                                        Step("swap_offer", Out(0, 2), 0, {})>>]) @@
    (take  :> [dex |-> dex, steps |-> <<Step("swap_take", Out(1, 0), 0, {maker})>>])

Limits(mode) == [mode |-> mode,
                 perTx |-> (ecx :> 2) @@ (tok :> None),
                 per24h |-> (ecx :> 3) @@ (tok :> 2),
                 recipients |-> {shop},
                 dexUrls |-> {dex}]
BothModes == {Limits("auto"), Limits("confirm")}
AutoMode == {Limits("auto")}
=============================================================================
