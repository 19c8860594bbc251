------------------------------ MODULE MCCheckout ------------------------------
(* Small instances of Checkout for TLC. *)
EXTENDS Checkout, TLC

CONSTANTS i1, i2, r1, r2, q1, q2, w1

Free == [plan |-> "free", amount |-> 0, currency |-> "NGN"]
ProNgn == [plan |-> "pro", amount |-> 1, currency |-> "NGN"]
ProUsd == [plan |-> "pro", amount |-> 1, currency |-> "USD"]
Biz == [plan |-> "biz", amount |-> 2, currency |-> "NGN"]
BizUsd == [plan |-> "biz", amount |-> 1, currency |-> "USD"]

OnePlan == {Free, ProNgn}                  \* buy, drop to free, buy again
TwoPlans == {Free, ProNgn, Biz}            \* upgrades, downgrades, two invoices
TwoPrices == {Free, ProNgn, ProUsd}        \* one plan quoted in two currencies
TwoCurrencies == {Free, ProNgn, Biz, BizUsd}   \* the dearer plan a smaller number abroad

\* References are interchangeable, invoice ids are, and so are request slots.
Symmetric == Permutations({i1, i2}) \cup Permutations({r1, r2}) \cup Permutations({q1, q2})
=============================================================================
