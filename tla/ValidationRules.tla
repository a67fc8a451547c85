--------------------------- MODULE ValidationRules ---------------------------
(***************************************************************************)
(* What a validation run makes of the documents of a case                  *)
(* (src/backend/app/services/validation_rules.py): the state of a required  *)
(* type of evidence.                                                       *)
(***************************************************************************)
EXTENDS Naturals, Sequences, SequencesExt

\* E-01: documents that did not pass the scan, or were not scanned, are not loaded.
Loaded(status) == status \notin {"none", "QUARANTINED", "REJECTED"}

Unusable(status) == status \in {"OCR_FAILED", "SCAN_FAILED"}

\* Mutant: the last document decides, unless one was found before.
LastOne(state, status) ==
  CASE state = "PRESENT"     -> "PRESENT"
    [] status = "EXTRACTED"  -> "PRESENT"
    [] Unusable(status)      -> "UNUSABLE"
    [] OTHER                 -> "UNKNOWN"

\* One turn of the loop over the documents of the type, which ends at the first
\* one that is extracted.
Weigh(state, status) ==
  CASE state = "PRESENT"     -> "PRESENT"
    [] status = "EXTRACTED"  -> "PRESENT"
    [] Unusable(status)      -> IF state = "MISSING" THEN "UNUSABLE" ELSE state
    [] OTHER                 -> "UNKNOWN"

\* The documents are loaded without an ORDER BY.
Assessment(statuses) == FoldLeft(Weigh, "MISSING", statuses)
-----------------------------------------------------------------------------
\* The best of what the documents allow: one that is extracted, else one that
\* may still become so, else one that never will.
BestOf(statuses) ==
  IF "EXTRACTED" \in statuses THEN "PRESENT"
  ELSE IF \E s \in statuses : ~Unusable(s) THEN "UNKNOWN"
  ELSE IF statuses # {} THEN "UNUSABLE"
  ELSE "MISSING"
=============================================================================
