------------------------------ MODULE MCEvidence ------------------------------
(* Evidence for TLC: one case, an invoice, a proof of delivery, the same    *)
(* file again as an invoice, and a document of the benchmark; one reader,  *)
(* two requests and one enrichment.                                        *)
EXTENDS Evidence

CONSTANTS case, invoice, again, delivery, benchmark, reader

MCUploads == {invoice, again, delivery, benchmark}
MCCaseOf == [x \in MCUploads \cup {reader} |-> case]
MCContentOf == [u \in MCUploads |-> IF u = again THEN delivery ELSE u]
MCTypeOf == [u \in MCUploads |-> IF u \in {delivery, benchmark} THEN "PROOF_OF_DELIVERY" ELSE "INVOICE"]

MCSources == {[disputed |-> 1, disputedAmount |-> 1, payment |-> 1, paymentOrder |-> 1, paid |-> 3,
               order |-> 1, shipmentOrder |-> 1, refunds |-> {}, times |-> <<1, 1, 1, 2, 2>>,
               filled |-> [k \in DOMAIN Weight |-> 100]]}

\* Besides two uploads, at most one of these or a reader and an enrichment: the
\* second upload of the file, a reader, the processing of documents, an
\* enrichment.
Company ==
  {x \in {"again", "reader", "requests", "enrichment"} :
     CASE x = "again"    -> upload[again].pc # "waiting"
       [] x = "reader"   -> evaluations[reader].pc # "idle"
       [] x = "requests" -> \E r \in Requests : request[r].pc # "waiting"
       [] OTHER          -> \E t \in Tasks : enrich[t].pc # "absent"}

MCNext == Next /\ (Cardinality(Company') <= 1 \/ Company' = {"reader", "enrichment"})

MCSpec == Init /\ [][MCNext]_vars
=============================================================================
