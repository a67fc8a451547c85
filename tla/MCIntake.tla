------------------------------- MODULE MCIntake -------------------------------
(* Intake for TLC: an event that is delivered twice, a newer one that is    *)
(* delivered once, and one enrichment that somebody triggers.               *)
EXTENDS Intake, SyntheticProviders

CONSTANTS first, again, newer, manual, e1, e2

MCDeliveries == {first, again, newer}
MCEventOf == [d \in MCDeliveries |-> IF d = newer THEN e2 ELSE e1]
MCEventTime == [e \in {e1, e2} |-> IF e = e1 THEN 1 ELSE 2]
MCEventStatus == [e \in {e1, e2} |-> IF e = e1 THEN "open" ELSE "won"]
MCTasks == {e1, e2, manual}

\* The sources: a typical one, for which deliveries and enrichments interleave,
\* and probes of the rules, for which one event is delivered and enriched.
Typical == [disputed |-> 1, disputedAmount |-> 1, payment |-> 1, paymentOrder |-> 1, paid |-> 3,
            order |-> 1, shipmentOrder |-> 1, refunds |-> {[payment |-> 1, amount |-> 1]},
            times |-> <<1, 1, 1, 2, 2>>,
            filled |-> [k \in DOMAIN Weight |-> 100]]

RelationProbes ==
  {[Typical EXCEPT !.disputed = p, !.disputedAmount = a, !.paymentOrder = po, !.order = o,
                   !.shipmentOrder = so, !.refunds = rs] :
     p \in 1..2, a \in 1..3, po \in 0..1, o \in 1..2, so \in 1..2,
     rs \in {{}, {[payment |-> 1, amount |-> 1]}, {[payment |-> 2, amount |-> 1]},
             {[payment |-> 1, amount |-> 1], [payment |-> 1, amount |-> 2]}}}

TimeProbes == {[Typical EXCEPT !.times = <<a, b, c, d, e>>] :
                 a, b, c, d \in 0..2, e \in 1..2}

FillProbes == {[Typical EXCEPT !.filled[k] = 50] : k \in DOMAIN Weight}

SyntheticProbes == {SyntheticSource(id, a) : id \in MagicIds, a \in {10, 15, 20}}

MCSources == {Typical} \cup SyntheticProbes \cup RelationProbes \cup TimeProbes \cup FillProbes

Alone == /\ \A d \in Deliveries \ {first} : delivery[d].pc = "waiting"
         /\ enrich[manual].pc = "absent"
         /\ \A t \in Tasks : enrich[t].retries = 0

\* Two enrichments at most.
Two == \E t \in Tasks : enrich[t].pc = "absent"

Explored == (source = Typical /\ Two') \/ Alone'

MCNext == Next /\ Explored

MCSpec ==
  /\ Init /\ [][MCNext]_vars
  /\ \A t \in Tasks : WF_vars(EnrichmentStep(t) /\ UNCHANGED ingestionVars /\ Explored)
=============================================================================
