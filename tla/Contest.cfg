\* Guidance in versions, drafts, a review with two items, packages, writers.
SPECIFICATION MCSpec
CONSTANTS
  overview = overview
  processing = processing
  guideline = guideline
  again = again
  revised = revised
  delivery = delivery
  invoice = invoice
  None = None
  Ingests <- MCIngests
  IdentityOf <- MCIdentityOf
  TextOf <- MCTextOf
  Unique = {"merchant 13.1"}
  Generic = {"general"}
  Sections <- MCSections
  Similarity <- MCSimilarity
  TopK = 1
  Disputed = 2
  MaxSummary = 1
  Requests = {1, 2}
  Recommended <- MCRecommended
  Replies <- MCReplies
  Configured = 70
  Assemblers = {11, 12}
  Writers = {21, 22}
  Documents = {delivery, invoice}
  Mapped = {delivery}
  Items = {31, 32}
  Approvers = {41, 42}
  HighAmount = FALSE
INVARIANTS TypeOK KnowledgeIsSound DraftsStand ContestIsSafe
PROPERTIES FeedsOutbox
CHECK_DEADLOCK FALSE
