-------------------------- MODULE OneTimeApproval --------------------------
(***************************************************************************)
(* What the background controller promises about signatures: each is made  *)
(* under an approval that was issued once, to the holder (the unlocked     *)
(* session) that signs, is still open and has not reached its deadline.    *)
(* An approval signs one transaction or one offer; one that signed a       *)
(* transaction may sign one offer more (the offer after its split).        *)
(***************************************************************************)
EXTENDS Naturals, Sequences

CONSTANTS Ids, Holders, NoHolder, Timeout

VARIABLES
    current,   \* the holder that may sign now, or NoHolder
    issued,    \* ids drawn so far
    open,      \* ids that can still be used
    owner,     \* id -> the holder it was issued to
    deadline,  \* id -> when it can no longer be used
    made,      \* log of signatures
    now

vars == <<current, issued, open, owner, deadline, made, now>>

Init ==
    /\ current = NoHolder
    /\ issued = {} /\ open = {}
    /\ owner = [a \in Ids |-> NoHolder]
    /\ deadline = [a \in Ids |-> 0]
    /\ made = <<>>
    /\ now = 0

Signed(a, what) == \E i \in 1..Len(made) : made[i] = <<a, what>>

Issue(a) ==
    /\ current # NoHolder
    /\ a \notin issued
    /\ issued' = issued \cup {a}
    /\ open' \in SUBSET (open \cup {a})
    /\ owner' = [owner EXCEPT ![a] = current]
    /\ deadline' = [deadline EXCEPT ![a] = now + Timeout]
    /\ UNCHANGED <<current, made, now>>

(* Approvals are rejected, replaced or expire.                             *)
Withdraw ==
    /\ open' \in SUBSET open
    /\ UNCHANGED <<current, issued, owner, deadline, made, now>>

(* Locking or unlocking ends every open approval.                          *)
ChangeHolder ==
    /\ current' \in Holders \cup {NoHolder}
    /\ open' = {}
    /\ UNCHANGED <<issued, owner, deadline, made, now>>

Use(a, what) ==
    /\ a \in open
    /\ owner[a] = current
    /\ now < deadline[a]
    /\ open' \in SUBSET (open \ {a})
    /\ made' = Append(made, <<a, what>>)
    /\ UNCHANGED <<current, issued, owner, deadline, now>>

OfferAfterSplit(a) ==
    /\ Signed(a, "tx") /\ ~Signed(a, "offer")
    /\ owner[a] = current
    /\ made' = Append(made, <<a, "offer">>)
    /\ UNCHANGED <<current, issued, open, owner, deadline, now>>

Tick ==
    /\ now' = now + 1
    /\ UNCHANGED <<current, issued, open, owner, deadline, made>>

Next ==
    \/ \E a \in Ids : Issue(a) \/ OfferAfterSplit(a)
    \/ \E a \in Ids, what \in {"tx", "offer"} : Use(a, what)
    \/ Withdraw \/ ChangeHolder \/ Tick

Spec == Init /\ [][Next]_vars
=============================================================================
