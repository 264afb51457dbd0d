------------------------------- MODULE MCHdScan -------------------------------
(* A small instance of HdScan. *)
EXTENDS HdScan

Output(id, branch, index, blind, funded, spent) ==
    [id |-> id, branch |-> branch, index |-> index, asset |-> id % 2, value |-> 10 * id,
     blind |-> blind, funded |-> funded, spent |-> spent]

\* Coins at the edge of the gap and of every kind; an address whose coin is
\* spent, one used only in the mempool, and a coin behind the gap.
AtTheGap == {Output(1, "external", 1, "none", "chain", "no"),
             Output(2, "external", 3, "wallet", "mempool", "no"),
             Output(3, "change", 0, "foreign", "chain", "no")}
Spending == {Output(1, "external", 0, "none", "chain", "chain"),
             Output(2, "external", 2, "none", "mempool", "mempool"),
             Output(3, "external", 3, "none", "chain", "no"),
             Output(4, "change", 1, "none", "mempool", "no")}
BehindTheGap == {Output(1, "external", 2, "none", "chain", "no"),
                 Output(2, "change", 2, "none", "chain", "no")}

Complete == [genesis |-> "ours", policy |-> "set"]
Partial == {[genesis |-> "ours", policy |-> "none"], [genesis |-> "none", policy |-> "none"]}

Start(coins1, explorer1, config1, reserved1) ==
    [coins |-> coins1, explorer |-> explorer1, config |-> config1, reserved |-> reserved1]

MCStarts ==
    {Start(c, "honest", Complete, r) : c \in {AtTheGap, Spending, BehindTheGap}, r \in {0, 3}}
    \cup {Start(AtTheGap, "down", Complete, 0)}
    \cup {Start(c, e, Complete, 0) :
            c \in {AtTheGap, Spending},
            e \in {"wrongValue", "wrongRaw", "stale", "twice", "hides", "foreign", "overspent"}}
    \cup {Start({}, "allUsed", Complete, 0)}
    \cup {Start({}, e, c, 0) :
            e \in {"honest", "down", "otherChain", "otherDex", "otherServers"}, c \in Partial}

MCPayable == {[branch |-> "external", index |-> 1], [branch |-> "change", index |-> 0]}

\* The hypotheses of the theorem NoFalseAlarmHolds hold in this instance.
ASSUME MCAssumption == SameChain /\ InRange
=============================================================================
