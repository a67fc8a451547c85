--------------------------------- MODULE Case ---------------------------------
(***************************************************************************)
(* The case (src/backend/app/models/shared.py): the row that every module  *)
(* of the service reads and writes.  The modules that EXTEND this one share *)
(* its state; nothing but a row lock that a transaction happens to hold    *)
(* orders what they do to it.                                              *)
(***************************************************************************)
EXTENDS Naturals, FiniteSets

CONSTANT Cases   \* the identifiers that may be given to cases

VARIABLE processingState   \* Case.processing_state, ABSENT before the row exists

ProcessingState ==
  {"RECEIVED", "VALIDATED", "INGESTED", "ENRICHING", "ENRICHED", "AWAITING_EVIDENCE",
   "EVIDENCE_READY", "D_INTELLIGENCE_READY", "E_VALIDATING", "EVIDENCE_VALIDATED",
   "FEATURE_READY", "RISK_SCORED"}

CaseTypeOK == processingState \in [Cases -> ProcessingState \cup {"ABSENT"}]

SetState(c, s) == processingState' = [processingState EXCEPT ![c] = s]
=============================================================================
