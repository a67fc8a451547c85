--------------------------- MODULE EnrichmentRules ---------------------------
(***************************************************************************)
(* What an enrichment says of the data it found: the consistency flags, the *)
(* timeline and the completeness of services/enrichment.py.  The data are  *)
(* what the dispute and the providers say; 0 stands for None.              *)
(***************************************************************************)
EXTENDS Integers, Sequences, FiniteSetsExt

None == 0

\* Mutant: the amounts of the refunds are not added up.
LargestRefund(refunds) == IF refunds = {} THEN 0 ELSE Max({r.amount : r \in refunds})

TotalRefunded(refunds) == MapThenSumSet(LAMBDA r : r.amount, refunds)

\* _validate_relationships.  What was not found is not compared.
Mismatches(data, found) ==
  LET has(k) == k \in found IN
  {f \in {"PAYMENT_MISMATCH", "ORDER_MISMATCH", "SHIPMENT_MISMATCH", "REFUND_MISMATCH",
          "AMOUNT_INCONSISTENT"} :
     CASE f = "PAYMENT_MISMATCH"  -> data.disputed # data.payment
       [] f = "ORDER_MISMATCH"    -> has("order") /\ data.paymentOrder # data.order
       [] f = "SHIPMENT_MISMATCH" -> has("order") /\ has("shipment")
                                     /\ data.shipmentOrder # data.order
       [] f = "REFUND_MISMATCH"   -> has("refund") /\ \E r \in data.refunds : r.payment # data.payment
       [] OTHER -> data.disputedAmount
                     > data.paid - (IF has("refund") THEN TotalRefunded(data.refunds) ELSE 0)}

\* Mutant: a time next to one that is not known is compared with nothing.
OrderedNeighbours(times) ==
  \A i \in 1..(Len(times) - 1) :
    times[i] # None /\ times[i + 1] # None => times[i] <= times[i + 1]

\* Of the times that are known, each is compared with the next.
Ordered(times) ==
  \A i, j \in DOMAIN times :
    /\ i < j /\ times[i] # None /\ times[j] # None
    /\ \A k \in (i + 1)..(j - 1) : times[k] = None
    => times[i] <= times[j]

\* The times of order, payment, dispatch, delivery and dispute that are known.
Timeline(data, found) ==
  LET from == <<"order", "payment", "shipment", "shipment", "payment">>
  IN  [i \in 1..5 |-> IF from[i] \in found THEN data.times[i] ELSE None]

Flags(data, found) ==
  Mismatches(data, found) \cup
  IF Ordered(Timeline(data, found)) THEN {} ELSE {"TIMELINE_INCONSISTENT"}

\* The overall completeness: the weights are percents, as are the shares of
\* the fields that are filled; a list of refunds is complete if it was found.
Weight == [payment |-> 30, order |-> 20, shipment |-> 15, refund |-> 15, customer |-> 20]

\* The completeness of a case that lacks nothing, in hundredths of a percent.
Whole == 100 * 100

Completeness(data, found) ==
  MapThenSumSet(LAMBDA k : Weight[k] * data.filled[k], found)
-----------------------------------------------------------------------------
\* Every unit of an amount that was paid back, counted by itself.
Units(refunds) == UNION {{r} \X (1..r.amount) : r \in refunds}

\* What the absence of a flag is taken for: the case is about one payment and
\* one order, no two of its times are in the wrong order, however many between
\* them are unknown, and what is left of the payment covers the dispute.
Doubtless(data, found) ==
  LET times == Timeline(data, found)
      refunds == IF "refund" \in found THEN data.refunds ELSE {}
  IN
  /\ {data.disputed} \cup {r.payment : r \in refunds} = {data.payment}
  /\ "order" \in found => data.order = data.paymentOrder
  /\ "shipment" \in found => data.shipmentOrder = data.paymentOrder
  /\ data.disputedAmount + Cardinality(Units(refunds)) <= data.paid
  /\ \A i, j \in 1..5 : i < j /\ times[i] # None /\ times[j] # None => times[i] <= times[j]
=============================================================================
