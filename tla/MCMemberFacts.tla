---------------------------- MODULE MCMemberFacts ----------------------------
(* A small instance of MemberFacts: two customers and two subscriptions     *)
(* that differ in what the folds look at.                                   *)
EXTENDS MemberFacts

CONSTANTS c1, c2, s1, s2

Customers     == {c1, c2}
Subscriptions == {s1, s2}

Customer(email, currency, spend, delinquent) ==
    [email |-> email, currency |-> currency, spend |-> spend, delinquent |-> delinquent]
Item(product, amount, interval, every, quantity) ==
    [product |-> product, amount |-> amount, currency |-> "usd", interval |-> interval,
     every |-> every, quantity |-> quantity]
Sub(status, items, start) ==
    [status |-> status, cancels |-> start = 2, start |-> start, items |-> items]

CustomerRows == {Customer("a", "usd", 2, FALSE), Customer("b", None, 0, TRUE)}

(* Ties of the charge with other intervals, odd cents, quantities and       *)
(* counts of zero, two items, none.                                         *)
Subs == {Sub("active", <<Item("gold", 7, "month", 1, 1)>>, 1),
         Sub("active", <<Item("silver", 7, "week", 2, 0)>>, 3),
         Sub("active", <<Item("gold", 2, "day", 0, 1)>>, 2),
         Sub("trialing", <<Item("silver", 3, "year", 5, 2), Item("gold", 9, "month", 1, 1)>>, 2),
         Sub("past_due", <<>>, 3),
         Sub("paused", <<Item("gold", 7, "month", 1, 1)>>, 1),
         Sub("incomplete_expired", <<Item("gold", 7, "month", 1, 1)>>, 1)}
=============================================================================
