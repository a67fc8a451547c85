\* A content uploaded twice, another document, a seeded one, and an enrichment.
SPECIFICATION MCSpec
CONSTANTS
  case = case
  invoice = invoice
  again = again
  delivery = delivery
  benchmark = benchmark
  reader = reader
  Cases = {case}
  Uploads <- MCUploads
  Readers = {reader}
  CaseOf <- MCCaseOf
  ContentOf <- MCContentOf
  TypeOf <- MCTypeOf
  Required = {"INVOICE", "PROOF_OF_DELIVERY"}
  Requests = {r1, r2}
  HasPages = {invoice}
  MaxAttempts = 2
  Tasks = {t1}
  Kinds = {"payment"}
  Sources <- MCSources
  MaxRetries = 0
  Seeded = {benchmark}
INVARIANTS TypeOK ReadyIsCovered ObjectOfDocument AssessmentIsBest
PROPERTIES ProcessingMovesOn
CHECK_DEADLOCK FALSE
