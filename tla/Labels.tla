------------------------------- MODULE Labels -------------------------------
(***************************************************************************)
(* From the records of a case to the label it is trained with and the       *)
(* features it is scored with: the rule executors                          *)
(* (src/backend/app/services/validation_rules.py), the quality of a         *)
(* document, the label policy (label_policy.py), the features               *)
(* (feature_builder.py) and the hard block of live scoring (inference.py). *)
(*                                                                         *)
(* A case is [required, reason, status, daysLeft, daysDelivered, order,     *)
(* payment, shipped, refunded, documents]; a document                      *)
(* [type, status, amount, confidence, fields].  Confidences and scores are  *)
(* in percent; None is a value that is not there.                          *)
(***************************************************************************)
EXTENDS ValidationRules, Integers, FiniteSets, FiniteSetsExt

CONSTANT None

ASSUME NoneAssumption == None \notin Int \cup BOOLEAN

\* What each rule says of a case.
Extracted(c) == {c.documents[n] : n \in DOMAIN c.documents}

\* The documents of the required type that are loaded, in turn.
RequirementState(c) ==
  FoldLeft(LAMBDA state, d : IF d.type = c.required /\ Loaded(d.status) THEN Weigh(state, d.status) ELSE state,
           "MISSING", c.documents)

\* Mutant: only requirements of the level MANDATORY count, and there are none.
MandatoryEvidencePresent(c) == "PASS"

RequiredEvidencePresent(c) == IF RequirementState(c) = "PRESENT" THEN "PASS" ELSE "FAIL"

Target(c) == IF c.order # None THEN c.order ELSE c.payment

\* The first invoice with an amount decides.
InvoiceAmountMatch(c) ==
  LET invoices == {n \in DOMAIN c.documents : c.documents[n].type = "INVOICE" /\ Loaded(c.documents[n].status)}
      readable == {n \in invoices : c.documents[n].amount # None} IN
  IF Target(c) = None THEN "UNKNOWN"
  ELSE IF invoices = {} THEN "NA"
  ELSE IF readable = {} THEN "UNKNOWN"
  ELSE IF c.documents[Min(readable)].amount = Target(c) THEN "PASS" ELSE "FAIL"

\* The dates are not compared.
DeliveryBeforeDispute(c) == IF c.shipped THEN "PASS" ELSE "NA"

OcrConfidenceAcceptable(c) ==
  IF \E d \in Extracted(c) : 0 < d.confidence /\ d.confidence < 80 THEN "WARN" ELSE "PASS"

\* The results of the rules of the benchmark's policies, with their severity.
Results(c) ==
  {[rule |-> "REQUIRED_EVIDENCE_PRESENT", severity |-> "ERROR", result |-> RequiredEvidencePresent(c)],
   [rule |-> "INVOICE_AMOUNT_MATCH", severity |-> "ERROR", result |-> InvoiceAmountMatch(c)],
   [rule |-> "DELIVERY_BEFORE_DISPUTE", severity |-> "ERROR", result |-> DeliveryBeforeDispute(c)],
   [rule |-> "OCR_CONFIDENCE_ACCEPTABLE", severity |-> "WARN", result |-> OcrConfidenceAcceptable(c)]}

Failed(c) == {r \in Results(c) : r.result = "FAIL"}
-----------------------------------------------------------------------------
\* The score of a document whose extraction found fields without ambiguity, all
\* of the confidence of the whole, on a page that is not empty.
QualityScore(d) ==
  Max({0, d.confidence - (IF d.fields < 3 THEN 30 ELSE 0) - (IF d.confidence < 80 THEN 10 ELSE 0)})

\* Why a case is not SAFE_TO_CONTEST.  Requirements are looked up by the level
\* MANDATORY, which none has: those that are missing count through the rule.
Blocking(c) ==
  {b \in {"status", "deadline", "contradiction", "unknown rule", "quality", "confidence"} :
     CASE b = "status"        -> c.status \in {"won", "lost", "closed", "expired", "withdrawn"}
       [] b = "deadline"      -> c.daysLeft # None /\ c.daysLeft <= 0
       [] b = "contradiction" -> \E r \in Failed(c) : r.severity \in {"ERROR", "WARN"}
       [] b = "unknown rule"  -> \E r \in Results(c) : r.result = "UNKNOWN"
       [] b = "quality"       -> \E d \in Extracted(c) : QualityScore(d) < 60
       [] OTHER               -> \E d \in Extracted(c) : d.confidence < 70}

Label(c) == IF Blocking(c) = {} THEN 1 ELSE 0

\* The features of a case that a decision is bound to.
Features(c) ==
  [coverage       |-> IF RequirementState(c) = "PRESENT" THEN 1 ELSE 0,
   missing        |-> IF RequirementState(c) = "MISSING" THEN 1 ELSE 0,
   evidenceCount  |-> Cardinality({n \in DOMAIN c.documents :
                        ~Unusable(c.documents[n].status) /\ Loaded(c.documents[n].status)}),
   amountMatch    |-> CASE InvoiceAmountMatch(c) = "PASS" -> TRUE
                        [] InvoiceAmountMatch(c) = "FAIL" -> FALSE
                        [] OTHER                          -> None,
   timelineValid  |-> IF DeliveryBeforeDispute(c) = "PASS" THEN TRUE ELSE None,
   contradictions |-> Cardinality(Failed(c)),
   severe         |-> Cardinality({r \in Failed(c) : r.severity = "ERROR"}),
   refund         |-> c.refunded,
   daysToDeadline |-> c.daysLeft]

HardBlock(f) ==
  f.missing > 0 \/ f.severe > 0 \/ (f.daysToDeadline # None /\ f.daysToDeadline < 0)
=============================================================================
