------------------------------ MODULE Guardrails ------------------------------
(***************************************************************************)
(* What becomes of the answer of the language model                        *)
(* (src/backend/app/services/rag/generation.py, context.py): the checks,   *)
(* the decision of Module F put back in, the validation, and the           *)
(* deterministic fallback.  Nothing here touches the database.             *)
(*                                                                         *)
(* An answer is "valid", "invalid" (JSON the output contract refuses) or   *)
(* "broken" (JSON the checks themselves fail on).  An optional amount is a *)
(* set with at most one member.                                            *)
(***************************************************************************)
EXTENDS Integers, Sequences, FiniteSets

CONSTANTS
  Disputed,    \* Dispute.amount_minor, in units the answers are made of
  MaxSummary   \* SUMMARY_MAX_LENGTH, in the units of a summary's length

\* VERIFIED_FACT_ALLOWLIST, of what a draft is checked against.
Allowlist == {"dispute_reason_code", "dispute_amount_minor", "required_evidence_coverage",
              "contradiction_count"}

\* MLFeaturesV1, the features of a snapshot: the amount has another name there.
SnapshotFields == {"required_evidence_coverage", "missing_required_count", "contradiction_count",
                   "reason_code", "payment_method", "dispute_amount", "days_to_deadline"}

\* Of the fields of the snapshot only the allowed ones are facts.
Facts == SnapshotFields \cap Allowlist
KnownAmount == {Disputed : f \in Facts \cap {"dispute_amount_minor"}}

Grounded(claim) == claim.facts \/ claim.sources # {}

Contradicts(answer, recommendation) ==
  \/ \E a \in answer.amount, k \in KnownAmount : a > k
  \/ answer.recommendation \notin {"", recommendation}

\* At least half of the claims (CITATION_COVERAGE_MIN) say what they rest on.
CoversClaims(claims) ==
  /\ claims # <<>>
  /\ 2 * Cardinality({n \in DOMAIN claims : Grounded(claims[n])}) >= Len(claims)

CitesOnly(claims, given) == \A n \in DOMAIN claims : claims[n].sources \subseteq given

\* The worst of the checks decides; a low coverage alone asks for a review.
GuardrailStatus(answer, given, recommendation) ==
  IF \/ Contradicts(answer, recommendation)
     \/ answer.length > MaxSummary
     \/ ~CitesOnly(answer.claims, given)
  THEN "FAIL"
  ELSE IF CoversClaims(answer.claims) THEN "PASS" ELSE "REVIEW"

\* The draft made of verified facts alone.
Fallback(recommendation) ==
  [form |-> "valid", recommendation |-> recommendation, amount |-> KnownAmount, length |-> 1,
   claims |-> <<[facts |-> TRUE, sources |-> {}]>>]

\* The recommendation is put back to that of the model after the checks, the
\* summary is cut; what the contract refuses becomes a fallback that FAILs.
Validated(answer, status, recommendation) ==
  LET kept == IF answer.form = "invalid" THEN Fallback(recommendation) ELSE answer IN
  [status |-> IF answer.form = "invalid" THEN "FAIL" ELSE status,
   recommendation |-> recommendation, amount |-> kept.amount, claims |-> kept.claims,
   length |-> IF kept.length > MaxSummary THEN MaxSummary ELSE kept.length]

Drafted(answer, given, recommendation) ==
  Validated(answer, GuardrailStatus(answer, given, recommendation), recommendation)

\* A claim without any reference is stored as UNSUPPORTED.
UnsupportedClaims(claims) == {n \in DOMAIN claims : ~Grounded(claims[n])}
=============================================================================
