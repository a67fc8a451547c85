------------------------------ MODULE Enrichment ------------------------------
(***************************************************************************)
(* The enrichment of cases (src/backend/app/services/enrichment.py,        *)
(* worker/tasks.py enrich_dispute_task, api/endpoints/enrichment.py).      *)
(*                                                                         *)
(* A task reads the state of the case and later, in the same transaction,  *)
(* writes ENRICHING: the write is flushed, not committed, so nobody ever   *)
(* reads ENRICHING, but it takes the lock of the case row and keeps it     *)
(* while the providers are asked, until the commit or the rollback.        *)
(***************************************************************************)
EXTENDS Case, EnrichmentRules

CONSTANTS
  Tasks,        \* Celery messages of enrich_dispute_task
  Kinds,        \* kinds of rows an enrichment stores: payment, order, ...
  Sources,      \* what the dispute and the providers may say of the case
  MaxRetries    \* max_retries of the task

ASSUME EnrichmentAssumption ==
  /\ MaxRetries \in Nat
  /\ "payment" \in Kinds
  /\ Kinds \subseteq {"payment", "order", "shipment", "refund", "customer"}

\* The schemas let an amount be any integer but that of a refund, which is above 0
\* (schemas/module_b.py:74); refunds that are alike differ in their id.
ASSUME SourcesAssumption ==
  \A s \in Sources :
    /\ s.disputedAmount \in Int /\ s.paid \in Int
    /\ IsFiniteSet(s.refunds) /\ \A r \in s.refunds : r.amount \in Nat
    /\ s.times \in [1..5 -> Nat]
    /\ s.filled \in [DOMAIN Weight -> 0..100]

VARIABLES
  enrich,       \* progress of each task
  enrichments,  \* CaseEnrichment rows of each case
  entities,     \* the versions whose rows a case has of each kind (of refunds, which
                \* may be none, whose lookup the case has)
  completeness, \* overall_complete of the newest CaseEnrichment row
  source,       \* what the dispute and the providers say
  errors        \* cases with a ProcessingError PAYMENT_NOT_FOUND

stored == <<enrichments, entities, completeness, source, errors>>
enrichmentVars == <<enrich, stored>>

\* What the providers can find once they found the payment: shipment and
\* customer are looked up with what the order says.
Findings == {found \in SUBSET Kinds :
               /\ "payment" \in found
               /\ "order" \in found => source.paymentOrder # None
               /\ found \cap {"shipment", "customer"} # {} => "order" \in found}

NoTask == [pc |-> "absent", case |-> "none", retries |-> 0, version |-> 0]

EnrichState == [pc : {"absent", "queued", "loaded", "fetching", "storing", "done"},
                case : Cases \cup {"none"}, retries : 0..MaxRetries, version : Nat]

FlagNames == {"PAYMENT_MISMATCH", "ORDER_MISMATCH", "SHIPMENT_MISMATCH", "REFUND_MISMATCH",
              "AMOUNT_INCONSISTENT", "TIMELINE_INCONSISTENT"}

EnrichmentTypeOK ==
  /\ enrich \in [Tasks -> EnrichState]
  /\ \A t \in Tasks : enrich[t].pc = "absent" \/ enrich[t].case \in Cases
  /\ enrichments \in [Cases -> SUBSET [version : Nat, by : Tasks, flags : SUBSET FlagNames]]
  /\ entities \in [Cases -> [Kinds -> SUBSET Nat]]
  /\ completeness \in [Cases -> 0..Whole]
  /\ source \in Sources
  /\ errors \subseteq Cases

EnrichmentInit ==
  /\ enrich = [t \in Tasks |-> NoTask]
  /\ enrichments = [c \in Cases |-> {}]
  /\ entities = [c \in Cases |-> [k \in Kinds |-> {}]]
  /\ completeness = [c \in Cases |-> 0]
  /\ source \in Sources
  /\ errors = {}

-----------------------------------------------------------------------------
Move(t, pc) == enrich' = [enrich EXCEPT ![t].pc = pc]

\* Mutant: the state is only set in the session, the UPDATE comes at the end.
NoRowLock(c) == FALSE

\* Mutant: a task that is done never closed its session.
LockedForever(c) ==
  \E t \in Tasks : enrich[t].case = c /\ enrich[t].pc \in {"fetching", "storing", "done"}

\* The UPDATE to ENRICHING was flushed and the transaction is still open.
CaseLocked(c) == \E t \in Tasks : enrich[t].case = c /\ enrich[t].pc \in {"fetching", "storing"}

Enqueue(t, c) ==
  /\ enrich[t].pc = "absent"
  /\ enrich' = [enrich EXCEPT ![t] =
                  [pc |-> "queued", case |-> c, retries |-> 0, version |-> 0]]

\* The endpoint refuses a case that is ENRICHING with a 409; it reads committed
\* states only and so it never sees one.
TriggerEnrichment(t, c) ==
  /\ processingState[c] \in {"INGESTED", "ENRICHED"}
  /\ Enqueue(t, c)
  /\ UNCHANGED <<processingState, stored>>

Enrichable == {"INGESTED", "ENRICHING", "ENRICHED"}

\* The guard of enrich_case.  A ValueError ends the task for good.
Load(t) ==
  /\ enrich[t].pc = "queued"
  /\ Move(t, IF processingState[enrich[t].case] \in Enrichable THEN "loaded" ELSE "done")
  /\ UNCHANGED <<processingState, stored>>

MarkEnriching(t) ==
  /\ enrich[t].pc = "loaded" /\ ~CaseLocked(enrich[t].case)
  /\ Move(t, "fetching")
  /\ UNCHANGED <<processingState, stored>>

\* Mutant: one retry too many.
RetriedAgain(e) ==
  IF e.retries <= MaxRetries THEN [e EXCEPT !.pc = "queued", !.retries = @ + 1]
  ELSE [e EXCEPT !.pc = "done"]

Retried(e) ==
  IF e.retries < MaxRetries THEN [e EXCEPT !.pc = "queued", !.retries = @ + 1]
  ELSE [e EXCEPT !.pc = "done"]

\* The payment provider does not answer: rollback and self.retry.
ProviderUnavailable(t) ==
  /\ enrich[t].pc = "fetching"
  /\ enrich' = [enrich EXCEPT ![t] = Retried(@)]
  /\ UNCHANGED <<processingState, stored>>

\* Any other exception, and a worker that is killed: rollback.  The handler
\* looks for a case that is ENRICHING to give it back; there is none.
EnrichmentFails(t) ==
  /\ enrich[t].pc \in {"loaded", "fetching", "storing"}
  /\ Move(t, "done")
  /\ UNCHANGED <<processingState, stored>>

PaymentMissing(t) ==
  LET c == enrich[t].case IN
  /\ enrich[t].pc = "fetching"
  /\ SetState(c, "INGESTED")
  /\ errors' = errors \cup {c}
  /\ Move(t, "done")
  /\ UNCHANGED <<enrichments, entities, completeness, source>>

NextVersion(rows) == IF rows = {} THEN 1
                     ELSE 1 + CHOOSE v \in {r.version : r \in rows} : \A r \in rows : r.version <= v

PaymentFound(t) ==
  /\ enrich[t].pc = "fetching"
  /\ enrich' = [enrich EXCEPT ![t].pc = "storing",
                              ![t].version = NextVersion(enrichments[enrich[t].case])]
  /\ UNCHANGED <<processingState, stored>>

\* Mutant: only what is replaced is deleted.
KeptRows(old, found, version) ==
  [k \in Kinds |-> IF k \in found THEN {version} ELSE old[k]]

\* All rows of the case are deleted and those that were found are inserted.
ReplacedRows(old, found, version) ==
  [k \in Kinds |-> IF k \in found THEN {version} ELSE {}]

Store(t, found) ==
  LET c == enrich[t].case IN
  /\ enrich[t].pc = "storing"
  /\ entities' = [entities EXCEPT ![c] = ReplacedRows(@, found, enrich[t].version)]
  /\ enrichments' = [enrichments EXCEPT ![c] = @ \cup
       {[version |-> enrich[t].version, by |-> t, flags |-> Flags(source, found)]}]
  /\ completeness' = [completeness EXCEPT ![c] = Completeness(source, found)]
  /\ SetState(c, "ENRICHED")
  /\ Move(t, "done")
  /\ UNCHANGED <<source, errors>>

EnrichmentStep(t) ==
  \/ Load(t) \/ MarkEnriching(t) \/ ProviderUnavailable(t)
  \/ PaymentMissing(t) \/ PaymentFound(t)
  \/ \E found \in Findings : Store(t, found)
-----------------------------------------------------------------------------
\* Enrichments of a case that run at once are told apart by their versions,
\* although no constraint of the table says so, and the rows the case has of
\* its payment, order, shipment, refunds and customer are all of the newest.
EnrichmentIsWhole ==
  \A c \in Cases :
    /\ \A x, y \in enrichments[c] : x.version = y.version => x = y
    /\ \A k \in Kinds : \A v \in entities[c][k] :
         /\ entities[c]["payment"] = {v}
         /\ \E x \in enrichments[c] : x.version = v
         /\ \A x \in enrichments[c] : x.version <= v

\* The kinds of which the case has the rows that x stored.
FoundBy(c, x) == {k \in Kinds : x.version \in entities[c][k]}

\* The flags and the completeness that the reviewers are shown tell what the
\* rows of the case say: no flag, no doubt, and 100 percent only if every kind
\* of row is there with all its fields.
FlagsAreTrue ==
  \A c \in Cases : \A x \in enrichments[c] :
    LET found == FoundBy(c, x) IN
    found # {} =>
      /\ x.flags = {} <=> Doubtless(source, found)
      /\ completeness[c] = Whole <=> \A k \in DOMAIN Weight : k \in found /\ source.filled[k] = 100
=============================================================================
