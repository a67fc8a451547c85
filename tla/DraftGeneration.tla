--------------------------- MODULE DraftGeneration ---------------------------
(***************************************************************************)
(* POST /cases/{id}/generate-draft                                         *)
(* (src/backend/app/api/endpoints/generation.py, services/rag/generation.py).*)
(*                                                                         *)
(* A request first gets its chunks: those of an earlier retrieval it names, *)
(* or of an inline retrieval, around which it sets the threshold of the    *)
(* whole process to 0 and back.  Then it marks the current drafts of the   *)
(* case as not current, which locks them, asks the language model under    *)
(* that lock, and commits its own draft as the current one.                *)
(***************************************************************************)
EXTENDS Knowledge, Guardrails

CONSTANTS
  Requests,       \* draft requests for one case; a draft has the name of its own
  Recommended,    \* the recommendation of the prediction a request is about
  Replies,        \* what the language model may answer
  Configured      \* RETRIEVAL_SIMILARITY_THRESHOLD as configured, in percent

\* An answer of the model has a summary, a list of claims and perhaps an amount,
\* a whole number (services/rag/generation.py:62).
ASSUME ReplyAssumption ==
  /\ MaxSummary \in Nat /\ None \notin Requests
  /\ \A a \in Replies : /\ a.length \in Nat
                       /\ a.amount \in SUBSET Int /\ Cardinality(a.amount) <= 1
                       /\ a.claims \in Seq({a.claims[n] : n \in DOMAIN a.claims})

VARIABLES
  threshold,      \* settings.RETRIEVAL_SIMILARITY_THRESHOLD of the process
  runs,           \* what the retrieval runs of the case have found
  request,        \* progress of each request and what it holds
  drafts,         \* GeneratedDraft rows
  newest          \* the draft committed last

draftVars == <<threshold, runs, request, drafts, newest>>

NoRequest == [pc |-> "waiting", saved |-> 0, given |-> {}, old |-> {}]
NoDraft == [status |-> "none", current |-> FALSE, given |-> {}, recommendation |-> "", amount |-> {},
            claims |-> <<>>, length |-> 0]

Recommendations == {"CONTEST", "REVIEW", "ACCEPT"}

DraftTypeOK ==
  /\ threshold \in {0, Configured}
  /\ runs \subseteq SUBSET Chunks
  /\ \A g \in Requests :
       /\ request[g].pc \in {"waiting", "lowered", "found", "ready", "updating", "locked", "done"}
       /\ request[g].saved \in {0, Configured}
       /\ request[g].given \in SUBSET Chunks /\ request[g].old \in SUBSET Requests
       /\ drafts[g].status \in {"none", "PASS", "REVIEW", "FAIL"}
       /\ drafts[g].current \in BOOLEAN
       /\ drafts[g].amount \in SUBSET Int /\ Cardinality(drafts[g].amount) <= 1
  /\ newest \in Requests \cup {None}

DraftInit ==
  /\ threshold = Configured
  /\ runs = {}
  /\ request = [g \in Requests |-> NoRequest]
  /\ drafts = [g \in Requests |-> NoDraft]
  /\ newest = None

Written == {g \in Requests : drafts[g].status # "none"}
Current == {g \in Written : drafts[g].current}

Ready(g, found) ==
  request' = [request EXCEPT ![g] = [@ EXCEPT !.pc = "ready", !.saved = 0, !.given = found]]

\* An earlier run of the case, its sources by now perhaps deprecated.
NameRun(g) ==
  /\ request[g].pc = "waiting"
  /\ \E run \in runs : Ready(g, run)
  /\ UNCHANGED <<threshold, runs, drafts, newest>>

\* The query could not be embedded: the draft does without guidance.
EmbeddingFails(g) ==
  /\ request[g].pc = "waiting"
  /\ Ready(g, {})
  /\ UNCHANGED <<threshold, runs, drafts, newest>>

LowerThreshold(g) ==
  /\ request[g].pc = "waiting"
  /\ request' = [request EXCEPT ![g].pc = "lowered", ![g].saved = threshold]
  /\ threshold' = 0
  /\ UNCHANGED <<runs, drafts, newest>>

Retrieve(g) ==
  /\ request[g].pc = "lowered"
  /\ \E found \in BestOf(Candidates(threshold)) :
       /\ request' = [request EXCEPT ![g].pc = "found", ![g].given = found]
       /\ runs' = runs \cup {found}
  /\ UNCHANGED <<threshold, drafts, newest>>

\* The threshold stays where it is when the retrieval raises.
RetrievalFails(g) ==
  /\ request[g].pc = "lowered"
  /\ Ready(g, {})
  /\ UNCHANGED <<threshold, runs, drafts, newest>>

RestoreThreshold(g) ==
  /\ request[g].pc = "found"
  /\ request' = [request EXCEPT ![g].pc = "ready", ![g].saved = 0]
  /\ threshold' = request[g].saved
  /\ UNCHANGED <<runs, drafts, newest>>

\* The UPDATE sees the drafts committed before it started ...
StartUpdate(g) ==
  /\ request[g].pc = "ready"
  /\ request' = [request EXCEPT ![g].pc = "updating", ![g].old = Current]
  /\ UNCHANGED <<threshold, runs, drafts, newest>>

\* ... waits for whoever holds one of them, and leaves out what that changed.
LockDrafts(g) ==
  /\ request[g].pc = "updating"
  /\ \A h \in Requests : request[h].pc = "locked" => request[h].old \cap request[g].old = {}
  /\ request' = [request EXCEPT ![g].pc = "locked", ![g].old = @ \cap Current]
  /\ UNCHANGED <<threshold, runs, drafts, newest>>

Commit(g, draft) ==
  /\ drafts' = [h \in Requests |->
       CASE h = g                -> draft
         [] h \in request[g].old -> [drafts[h] EXCEPT !.current = FALSE]
         [] OTHER                -> drafts[h]]
  /\ newest' = g
  /\ request' = [request EXCEPT ![g].pc = "done", ![g].old = {}, ![g].given = {}]
  /\ UNCHANGED <<threshold, runs>>

Draft(g, answer) ==
  LET made == Drafted(answer, request[g].given, Recommended[g]) IN
  [status |-> made.status, current |-> TRUE, given |-> request[g].given,
   recommendation |-> made.recommendation, amount |-> made.amount,
   claims |-> made.claims, length |-> made.length]

\* The model answers, or fails and the fallback goes through the same checks.
CommitDraft(g) ==
  /\ request[g].pc = "locked"
  /\ \E answer \in Replies \cup {Fallback(Recommended[g])} :
       answer.form # "broken" /\ Commit(g, Draft(g, answer))

\* Mutant: the drafts are made not current in a transaction of their own.
AbandonDemoted(g) ==
  /\ request[g].pc \in {"ready", "updating", "locked"}
  /\ request' = [request EXCEPT ![g].pc = "done", ![g].old = {}, ![g].given = {}]
  /\ drafts' = [h \in Requests |->
       IF request[g].pc = "locked" /\ h \in request[g].old
       THEN [drafts[h] EXCEPT !.current = FALSE] ELSE drafts[h]]
  /\ UNCHANGED <<threshold, runs, newest>>

\* The checks raise on a broken answer, or the connection is lost: rolled back.
AbandonDraft(g) ==
  /\ request[g].pc \in {"ready", "updating", "locked"}
  /\ request' = [request EXCEPT ![g].pc = "done", ![g].old = {}, ![g].given = {}]
  /\ UNCHANGED <<threshold, runs, drafts, newest>>

DraftStep(g) ==
  \/ NameRun(g) \/ EmbeddingFails(g)
  \/ LowerThreshold(g) \/ Retrieve(g) \/ RetrievalFails(g) \/ RestoreThreshold(g)
  \/ StartUpdate(g) \/ LockDrafts(g) \/ CommitDraft(g) \/ AbandonDraft(g)

\* However requests overlap and break off, a case that has a draft has a current
\* one, and the newest is.  What PASSes cites nothing but what its request was
\* given, leaves at most half of its claims open, has a summary that fits, and
\* says of the case what the model decided.
DraftsStand ==
  /\ Written # {} => newest \in Current
  /\ \A g \in Written : drafts[g].recommendation = Recommended[g]
  /\ \A g \in Written : drafts[g].status = "PASS" =>
       LET d == drafts[g] IN
       /\ d.length <= MaxSummary /\ d.claims # <<>>
       /\ UNION {d.claims[n].sources : n \in DOMAIN d.claims} \subseteq d.given
       /\ 2 * Cardinality(UnsupportedClaims(d.claims)) <= Len(d.claims)
=============================================================================
