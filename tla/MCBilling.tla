-------------------------------- MODULE MCBilling --------------------------------
(***************************************************************************)
(* Small instances of Billing for TLC.                                     *)
(***************************************************************************)
EXTENDS Billing, TLC

None == [k \in Chance |-> 0]

\* Only the checkout: requests race, die or find Stripe down; a card is declined.
CheckoutBudget == [None EXCEPT !["stripe"] = 1, !["api"] = 1, !["decline"] = 1]

\* Everything else goes wrong once; a refund may be partial before it is full.
LedgerBudget == [k \in Chance |-> IF k = "refund" THEN 2 ELSE 1]

\* No fault at all: two months end, and a buyer is refunded.
QuietBudget  == [None EXCEPT !["month"] = 2, !["refund"] = 1]
PayoutBudget == [QuietBudget EXCEPT !["payout"] = 1]

\* Requests are interchangeable (safety runs only).
Symmetry == Permutations(Requests)
=============================================================================
