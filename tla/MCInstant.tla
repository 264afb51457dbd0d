------------------------------- MODULE MCInstant -------------------------------
(* A small instance of Instant: one operator, honest or not, and two lockboxes. *)
EXTENDS Instant

MCBox == [x |-> [operator |-> "op", expiry |-> 4],
          y |-> [operator |-> "op", expiry |-> 3]]

\* The owner of x has signed pay, and an order, which take uses and so does veil,
\* with a blinded input besides.  Both owners have signed both, which spends the two
\* lockboxes with promises or, its height lock reached, without any.
MCSpends ==
    LET tx(ins, plain, lock, out, value) ==
          [ins |-> ins, plain |-> plain, lock |-> lock, value |-> value, readable |-> ~plain,
           paired |-> [l \in DOMAIN MCBox |-> IF l = "x" THEN out ELSE "change"]]
    IN  [pay   |-> tx({"x"}, FALSE, 0, "payee", 4),
         take  |-> tx({"x"}, FALSE, 0, "order", 3),
         veil  |-> tx({"x"}, TRUE, 0, "order", 0),
         both  |-> tx({"x", "y"}, FALSE, 4, "change", 4)]

MCOwnerSigned == {<<"x", "pay">>, <<"x", "both">>, <<"y", "both">>}
MCOrders == {<<"x", "order">>}

MCBondScript == [b1 |-> [operator |-> "op", amount |-> 8, refund |-> 4],
                 b2 |-> [operator |-> "op", amount |-> 8, refund |-> 5]]

MCFundedAt == [b1 |-> 1, b2 |-> 0]

\* The true claims, and one about a later refund than the script allows.
MCAnnounced == [op |-> <<[bond |-> "b1", refund |-> 4], [bond |-> "b2", refund |-> 5],
                         [bond |-> "b1", refund |-> 9]>>]
=============================================================================
