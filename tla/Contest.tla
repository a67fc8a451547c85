------------------------------- MODULE Contest -------------------------------
(***************************************************************************)
(* The contest of one dispute, from the guidance a draft is grounded in to *)
(* the rows of the outbox: knowledge base, draft generation, the review of *)
(* CaseReview, assembly and writer, all at once.                           *)
(***************************************************************************)
EXTENDS ContestPipeline

CONSTANTS Items, Approvers, HighAmount   \* as in CaseReview

VARIABLES queue, itemStatus, verdict, pending, log, answer

reviewVars == <<queue, itemStatus, verdict, pending, log, answer>>

Review == INSTANCE CaseReview WITH status <- itemStatus

vars == <<knowledgeVars, draftVars, pipelineVars, reviewVars>>

Init == KnowledgeInit /\ DraftInit /\ PipelineInit /\ Review!Init

TypeOK == KnowledgeTypeOK /\ DraftTypeOK /\ PipelineTypeOK /\ Review!TypeOK

Assemble(a, i, n) ==
  /\ LookUp(a, <<i, n>>, log[i][n].action)
  /\ UNCHANGED <<knowledgeVars, draftVars, reviewVars>>

Decide(w) ==
  /\ DecideAction(w, Review!SubmissionAction)
  /\ UNCHANGED <<knowledgeVars, draftVars, reviewVars>>

Next ==
  \/ \E k \in Ingests : KnowledgeStep(k) /\ UNCHANGED <<draftVars, pipelineVars, reviewVars>>
  \/ \E g \in Requests : DraftStep(g) /\ UNCHANGED <<knowledgeVars, pipelineVars, reviewVars>>
  \/ Review!Next /\ UNCHANGED <<knowledgeVars, draftVars, pipelineVars>>
  \/ \E a \in Assemblers, i \in Items : \E n \in DOMAIN log[i] : Assemble(a, i, n)
  \/ \E w \in Writers : Decide(w)
  \/ PipelineStep /\ UNCHANGED <<knowledgeVars, draftVars, reviewVars>>

Spec == Init /\ [][Next]_vars
-----------------------------------------------------------------------------
\* To the dispatch, assembly and writer are what OutboxDispatch says they are,
\* whoever runs at once, waits or rolls back: a package appears once and never
\* changes, its rows appear together, and a submit has evidence.
AllKeys == UploadKeys \cup ContestKeys
AtNone == [r \in AllKeys |-> 0]

Outbox == INSTANCE OutboxDispatch WITH
            Packages <- Assemblers, Workers <- {}, MortalWorkers <- {},
            MaxAttempts <- 1, MaxClock <- 0, NULL <- None,
            packageDocs <- [a \in Assemblers |-> package[a].docs],
            packageStatus <- [a \in Assemblers |-> package[a].status],
            status <- [r \in AllKeys |-> IF r \in rows THEN "PENDING" ELSE "ABSENT"],
            attemptCount <- AtNone,
            nextAttemptAt <- [r \in AllKeys |-> None],
            attempts <- [r \in AllKeys |-> [n \in {1} |-> [startedAt |-> 0, code |-> "UNMADE"]]],
            recorded <- AtNone, worker <- [w \in {} |-> 0], wire <- {}, applied <- AtNone, now <- 0

FeedsOutbox == Outbox!Spec

\* What leaves for Razorpay was disputed, examined and approved, although the
\* checks of the draft do not know the disputed amount, the writer looks at the
\* drafts of now and the assembly at any approval: the amount is within the
\* dispute, every document is clean and of a type Razorpay takes, and a submit
\* has evidence and an item that was decided so, by two approvers where the
\* case takes two.
Approved(i) ==
  /\ itemStatus[i] = "DONE" /\ log[i] # <<>> /\ Review!Final(i).action = "APPROVE_CONTEST"
  /\ Review!RequiresDualApproval(verdict[i], "APPROVE_CONTEST") =>
       \E m, n \in DOMAIN log[i] : /\ log[i][m].action = "APPROVE_CONTEST"
                                   /\ log[i][n].action = "APPROVE_CONTEST"
                                   /\ log[i][m].reviewer # log[i][n].reviewer

ContestIsSafe ==
  \A r \in rows \cap ContestKeys :
    LET p == package[r[1]] IN
    /\ 0 < p.amount /\ p.amount <= Disputed
    /\ p.length \in 1..MaxSummary
    /\ \A d \in p.docs : d \in Mapped /\ scan[d] = "CLEAN"
    /\ r[3] = "submit" => p.docs # {} /\ \E i \in Items : Approved(i)
=============================================================================
