-------------------------- MODULE SyntheticProviders --------------------------
(***************************************************************************)
(* The providers enrich_dispute_task is wired to                           *)
(* (src/backend/app/providers/synthetic.py): what they say is a function   *)
(* of the payment id of the dispute.  Amounts in units of 5000 paise,      *)
(* times as ranks, identifiers as 1 for the one asked for and 2 for a      *)
(* wrong one.  pay_not_found and pay_unavailable are no data but outcomes. *)
(***************************************************************************)
EXTENDS EnrichmentRules

MagicIds == {"pay_mismatch", "pay_amount_high", "pay_no_order", "pay_no_refund",
             "pay_refund_partial", "pay_refund_multi", "pay_refund_mismatch", "any other"}

Refund(payment, amount) == [payment |-> payment, amount |-> amount]

\* The refunds are asked for with the id that the payment came back with, which
\* of pay_mismatch is no magic one any more.
SyntheticRefunds(id) ==
  CASE id = "pay_no_refund"       -> {}
    [] id = "pay_refund_partial"  -> {Refund(1, 6)}
    [] id = "pay_refund_multi"    -> {Refund(1, 4), Refund(1, 3)}
    [] id = "pay_refund_mismatch" -> {Refund(2, 10)}
    [] id = "pay_mismatch"        -> {Refund(2, 20)}
    [] OTHER                      -> {Refund(1, 20)}

\* The order is asked for as order_<rest of the payment id>, so of the magic
\* order and shipment ids only order_mismatch is ever asked for; the shipment
\* is asked for with the id that the order came back with.
SyntheticSource(id, amount) ==
  LET order == IF id = "pay_mismatch" THEN 2 ELSE 1 IN
  [disputed       |-> 1,
   disputedAmount |-> amount,
   payment        |-> IF id = "pay_mismatch" THEN 2 ELSE 1,
   paymentOrder   |-> IF id = "pay_no_order" THEN None ELSE 1,
   paid           |-> IF id = "pay_amount_high" THEN 10 ELSE 20,
   order          |-> order,
   shipmentOrder  |-> order,
   refunds        |-> SyntheticRefunds(id),
   times          |-> <<1, 2, 3, 4, 5>>,
   filled         |-> [k \in DOMAIN Weight |->
                         IF k = "payment" /\ id = "pay_no_order" THEN 87 ELSE 100]]
=============================================================================
