----------------------------- MODULE Benchmark -----------------------------
(***************************************************************************)
(* The synthetic benchmark (src/backend/app/services/ml/                   *)
(* synthetic_benchmark.py) and its split (dataset_splitter.py): examples   *)
(* are generated one by one from scenarios, customer groups are dealt, in  *)
(* any order, to training, validation and test holdout.                    *)
(***************************************************************************)
EXTENDS Labels

CONSTANTS Groups,  \* the synthetic customers
          Size     \* of the dataset

VARIABLES examples, \* Seq of [scenario, reason, group, label, features]
          splitOf   \* the split a customer group was dealt to

benchmarkVars == <<examples, splitOf>>

Scenarios ==
  {"STRONG_CONTESTABLE", "WEAK_EVIDENCE", "CONTRADICTORY", "QUALITY_DEGRADED", "PARTIAL_REFUND",
   "BORDERLINE", "DEADLINE_STATUS_BLOCK"}

ReasonCodeEvidenceType ==
  [r \in {"10.4", "13.1", "13.3", "13.6"} |->
     CASE r = "10.4" -> "INVOICE"
       [] r = "13.1" -> "PROOF_OF_DELIVERY"
       [] r = "13.3" -> "SERVICE_CONFIRMATION"
       [] OTHER      -> "REFUND_RECEIPT"]

Reasons == DOMAIN ReasonCodeEvidenceType

Splits == {"train", "validation", "test_holdout"}

Undealt == "undealt"

BenchmarkInit == examples = <<>> /\ splitOf = [g \in Groups |-> Undealt]
-----------------------------------------------------------------------------
\* The document of a scenario, if it has one: a single field is extracted.
DocumentsOf(s, r) ==
  IF s = "WEAK_EVIDENCE" THEN <<>>
  ELSE <<[type |-> ReasonCodeEvidenceType[r], status |-> "EXTRACTED", fields |-> 1,
          amount |-> IF s = "CONTRADICTORY" THEN 3000 ELSE 5000,
          confidence |-> IF s = "QUALITY_DEGRADED" THEN 60 ELSE 95]>>

CaseOf(s, r) ==
  [required |-> ReasonCodeEvidenceType[r], reason |-> r, documents |-> DocumentsOf(s, r),
   status |-> IF s = "DEADLINE_STATUS_BLOCK" THEN "lost" ELSE "open",
   daysLeft |-> 10, daysDelivered |-> IF s = "BORDERLINE" THEN 0 ELSE 2,
   order |-> 5000, payment |-> 5000, shipped |-> TRUE, refunded |-> s = "PARTIAL_REFUND"]

ExampleOf(s, r, g) ==
  [scenario |-> s, reason |-> r, group |-> g, label |-> Label(CaseOf(s, r)), features |-> Features(CaseOf(s, r))]

\* One turn of the loop that generates examples; one that fails is rolled back
\* and tried again.
Generate(s, r, g) ==
  /\ Len(examples) < Size
  /\ examples' = Append(examples, ExampleOf(s, r, g))
  /\ UNCHANGED splitOf
-----------------------------------------------------------------------------
\* Target shares, in percent.
Share == [s \in Splits |-> IF s = "train" THEN 70 ELSE 15]

In(gs) == {n \in DOMAIN examples : examples[n].group \in gs}
Members(s) == {g \in Groups : splitOf[g] = s}
Strata == {<<examples[n].label, examples[n].reason>> : n \in DOMAIN examples}
Of(ns, x) == Cardinality({n \in ns : <<examples[n].label, examples[n].reason>> = x})
Distance(x, y) == IF x < y THEN y - x ELSE x - y

\* What dealing g to s costs, fill_ratio * 10 + strat_penalty, as a numerator
\* over Weight(g, s): with n examples of N in s then, the ratio is
\* 100 * n / (share * N), and each stratum adds how far it is from its part of
\* the whole.
Joined(g, s) == In(Members(s) \cup {g})
Weight(g, s) == Share[s] * Cardinality(Joined(g, s))
Penalty(g, s) ==
  1000 * Cardinality(Joined(g, s)) * Cardinality(Joined(g, s))
  + Share[s] * FoldSet(LAMBDA x, sum :
      sum + Distance(Of(Joined(g, s), x) * Len(examples), Of(DOMAIN examples, x) * Cardinality(Joined(g, s))), 0, Strata)

Cheaper(g, s, t) == Penalty(g, s) * Weight(g, t) <= Penalty(g, t) * Weight(g, s)

\* Only groups of the dataset are dealt.  Of two splits that cost the same,
\* rounding may choose either.
Deal(g, s) ==
  /\ Len(examples) = Size
  /\ splitOf[g] = Undealt /\ In({g}) # {}
  /\ \A t \in Splits : Cheaper(g, s, t)
  /\ splitOf' = [splitOf EXCEPT ![g] = s]
  /\ UNCHANGED examples

SplitDone == Len(examples) = Size /\ \A g \in Groups : In({g}) # {} => splitOf[g] # Undealt

BenchmarkStep ==
  \/ \E s \in Scenarios, r \in Reasons, g \in Groups : Generate(s, r, g)
  \/ \E g \in Groups, s \in Splits : Deal(g, s)
-----------------------------------------------------------------------------
\* What a label of 1 promises, through rules that name levels and states
\* differently, and what the same evidence is scored with: the case is open and
\* its deadline ahead, its required document is extracted, of good quality and,
\* where it is an invoice, of the amount; the features agree, so that a live
\* hard block means a label of 0.
Justified(e) ==
  LET c == CaseOf(e.scenario, e.reason) IN
  /\ e.label = 1 =>
       /\ c.status = "open" /\ c.daysLeft > 0
       /\ \E d \in Extracted(c) :
            /\ d.type = c.required /\ d.status = "EXTRACTED" /\ d.confidence >= 70
            /\ d.type = "INVOICE" => d.amount = c.order
       /\ e.features.coverage = 1 /\ e.features.contradictions = 0 /\ e.features.amountMatch # FALSE
  /\ HardBlock(e.features) => e.label = 0

\* A dataset is fit to learn from: its labels are justified, and, once split,
\* no split but training is larger than training, unless one customer has half
\* of the examples, although groups are dealt whole, in any order and by two
\* penalties at once.
DatasetIsSound ==
  /\ \A n \in DOMAIN examples : Justified(examples[n])
  /\ SplitDone /\ (\A g \in Groups : 2 * Cardinality(In({g})) <= Size) =>
       \A s \in Splits : Cardinality(In(Members(s))) <= Cardinality(In(Members("train")))
=============================================================================
