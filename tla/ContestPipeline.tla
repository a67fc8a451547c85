--------------------------- MODULE ContestPipeline ---------------------------
(***************************************************************************)
(* From an approved draft to the rows of the outbox                        *)
(* (src/backend/app/services/external_action/): the assembly of a contest  *)
(* package and the writer, which asks the gates H-06, H-07, H-12, then     *)
(* H-08, H-10, H-11, and writes what may leave for Razorpay.  Each reads   *)
(* afresh and acts later, and any number of them run at once.              *)
(***************************************************************************)
EXTENDS DraftGeneration

CONSTANTS
  Assemblers,   \* calls of assemble_contest_package; a package has the name of its own
  Writers,      \* calls of write_outbox_for_package
  Documents,    \* evidence documents of the case
  Mapped        \* those of a type with a Razorpay evidence field

ASSUME PipelineAssumption == Mapped \subseteq Documents

VARIABLES
  scan,         \* EvidenceDocument.scan_status
  actionable,   \* the dispute is open or under review, its deadline ahead
  assembler,    \* progress of each assembly and what it read
  package,      \* ContestPackage with its ContestPackageDocument rows
  writer,       \* progress of each writer, its package, action and inserted rows
  rows          \* committed ExternalActionOutbox rows, by idempotency key

pipelineVars == <<scan, actionable, assembler, package, writer, rows>>

UploadKeys  == Assemblers \X {"upload"} \X Documents
ContestKeys == Assemblers \X {"contest"} \X {"draft", "submit"}

NoAssembly == [pc |-> "waiting", approval |-> None, draft |-> None, docs |-> {}]
NoPackage  == [status |-> "ABSENT", approval |-> None, amount |-> 0, length |-> 0, docs |-> {}]
NoWriter   == [pc |-> "waiting", package |-> None, action |-> "draft", inserted |-> {}]

PipelineTypeOK ==
  /\ scan \in [Documents -> {"PENDING", "CLEAN", "INFECTED", "FAILED"}]
  /\ actionable \in BOOLEAN
  /\ \A a \in Assemblers :
       /\ assembler[a].pc \in {"waiting", "looked", "read", "done"}
       /\ assembler[a].draft \in Requests \cup {None} /\ assembler[a].docs \subseteq Documents
       /\ package[a].status \in {"ABSENT", "DRAFT", "APPROVED"}
       /\ package[a].amount \in Int /\ package[a].docs \subseteq Documents
  /\ \A w \in Writers :
       /\ writer[w].pc \in {"waiting", "checked", "decided", "flushed", "done"}
       /\ writer[w].package \in Assemblers \cup {None} /\ writer[w].action \in {"draft", "submit"}
       /\ writer[w].inserted \subseteq UploadKeys \cup ContestKeys
  /\ rows \subseteq UploadKeys \cup ContestKeys

PipelineInit ==
  /\ scan \in [Documents -> {"PENDING", "CLEAN"}]
  /\ actionable = TRUE
  /\ assembler = [a \in Assemblers |-> NoAssembly]
  /\ package = [a \in Assemblers |-> NoPackage]
  /\ writer = [w \in Writers |-> NoWriter]
  /\ rows = {}

ScanDocument(d) ==
  /\ scan[d] = "PENDING"
  /\ \E result \in {"CLEAN", "INFECTED", "FAILED"} : scan' = [scan EXCEPT ![d] = result]
  /\ UNCHANGED <<actionable, assembler, package, writer, rows>>

\* Another event of the dispute, or the deadline.
DisputeMoves ==
  /\ actionable' = ~actionable
  /\ UNCHANGED <<scan, assembler, package, writer, rows>>
-----------------------------------------------------------------------------
(* The assembly, for one review action of the case.                         *)

Packages == {a \in Assemblers : package[a].status # "ABSENT"}
EligibleDocuments == {d \in Mapped : scan[d] = "CLEAN"}

\* Only an APPROVE_CONTEST is assembled, a first approval that still waits for
\* the second one too; a package that is there for it is returned.
LookUp(a, approval, action) ==
  /\ assembler[a].pc = "waiting"
  /\ action = "APPROVE_CONTEST"
  /\ \A p \in Packages : package[p].approval # approval
  /\ assembler' = [assembler EXCEPT ![a].pc = "looked", ![a].approval = approval]
  /\ UNCHANGED <<scan, actionable, package, writer, rows>>

\* One of the current drafts, in no order, if it has an amount.
ReadDraft(a) ==
  /\ assembler[a].pc = "looked"
  /\ \E g \in Current :
       /\ drafts[g].amount # {}
       /\ assembler' = [assembler EXCEPT ![a] =
            [@ EXCEPT !.pc = "read", !.draft = g, !.docs = EligibleDocuments]]
  /\ UNCHANGED <<scan, actionable, package, writer, rows>>

CommitPackage(a) ==
  LET d == drafts[assembler[a].draft] IN
  /\ assembler[a].pc = "read"
  /\ package' = [package EXCEPT ![a] =
       [status |-> "DRAFT", approval |-> assembler[a].approval, length |-> d.length,
        amount |-> CHOOSE n \in d.amount : TRUE, docs |-> assembler[a].docs]]
  /\ assembler' = [assembler EXCEPT ![a].pc = "done"]
  /\ UNCHANGED <<scan, actionable, writer, rows>>

AbandonAssembly(a) ==
  /\ assembler[a].pc \in {"looked", "read"}
  /\ assembler' = [assembler EXCEPT ![a].pc = "done"]
  /\ UNCHANGED <<scan, actionable, package, writer, rows>>
-----------------------------------------------------------------------------
(* The gates.                                                              *)

H06 == actionable

\* Mutant: a contest of nothing, or of more than the dispute is about.
AnyAmount(p) == TRUE

H07(p) == 0 < package[p].amount /\ package[p].amount <= Disputed

\* The summary is that of the package, the checks and claims are those of a
\* draft that is current now.
H12(p) ==
  /\ package[p].length \in 1..MaxSummary
  /\ \E g \in Current : drafts[g].status = "PASS" /\ UnsupportedClaims(drafts[g].claims) = {}

H08(p) == package[p].docs \subseteq EligibleDocuments

H11(p, action) == action = "submit" => package[p].docs # {}
-----------------------------------------------------------------------------
(* The writer.                                                             *)

CheckContest(w, p) ==
  /\ writer[w].pc = "waiting"
  /\ p \in Packages
  /\ H06 /\ H07(p) /\ H12(p)
  /\ writer' = [writer EXCEPT ![w].pc = "checked", ![w].package = p]
  /\ UNCHANGED <<scan, actionable, assembler, package, rows>>

\* action is what H-10 makes of the review of the case now.
DecideAction(w, action) ==
  /\ writer[w].pc = "checked"
  /\ H08(writer[w].package)
  /\ H11(writer[w].package, action)
  /\ writer' = [writer EXCEPT ![w].pc = "decided", ![w].action = action]
  /\ UNCHANGED <<scan, actionable, assembler, package, rows>>

KeysOf(p, action) == {<<p, "upload", d>> : d \in package[p].docs} \cup {<<p, "contest", action>>}
Keys(w) == KeysOf(writer[w].package, writer[w].action)

\* Mutant: every row is committed when it is written.
FlushCommitting(w) ==
  /\ writer[w].pc = "decided"
  /\ \E done \in SUBSET (Keys(w) \ rows) :
       /\ rows' = rows \cup done
       /\ writer' = [writer EXCEPT ![w].pc = "flushed", ![w].inserted = (Keys(w) \ rows) \ done]
  /\ UNCHANGED <<scan, actionable, assembler, package>>

\* Rows that exist are left alone.  An INSERT waits for a writer that has the
\* key uncommitted; documents come in the same order for everyone, so whoever
\* has to wait waits for the first row it inserts, and what it rolls back when
\* the other commits is nothing.
FlushRows(w) ==
  /\ writer[w].pc = "decided"
  /\ \A v \in Writers : writer[v].inserted \cap Keys(w) = {}
  /\ writer' = [writer EXCEPT ![w].pc = "flushed", ![w].inserted = Keys(w) \ rows]
  /\ UNCHANGED <<scan, actionable, assembler, package, rows>>

\* Mutant: the package takes the status of its rows.
CommitRowsPending(w) ==
  /\ writer[w].pc = "flushed"
  /\ rows' = rows \cup writer[w].inserted
  /\ package' = [package EXCEPT ![writer[w].package].status = "PENDING"]
  /\ writer' = [writer EXCEPT ![w].pc = "done", ![w].inserted = {}]
  /\ UNCHANGED <<scan, actionable, assembler>>

CommitRows(w) ==
  /\ writer[w].pc = "flushed"
  /\ rows' = rows \cup writer[w].inserted
  /\ package' = [package EXCEPT ![writer[w].package].status = "APPROVED"]
  /\ writer' = [writer EXCEPT ![w].pc = "done", ![w].inserted = {}]
  /\ UNCHANGED <<scan, actionable, assembler>>

\* A gate that refuses, or a lost connection: nothing is written.
AbandonWrite(w) ==
  /\ writer[w].pc \in {"checked", "decided", "flushed"}
  /\ writer' = [writer EXCEPT ![w].pc = "done", ![w].inserted = {}]
  /\ UNCHANGED <<scan, actionable, assembler, package, rows>>

PipelineStep ==
  \/ \E d \in Documents : ScanDocument(d)
  \/ DisputeMoves
  \/ \E a \in Assemblers : ReadDraft(a) \/ CommitPackage(a) \/ AbandonAssembly(a)
  \/ \E w \in Writers, p \in Assemblers : CheckContest(w, p)
  \/ \E w \in Writers : FlushRows(w) \/ CommitRows(w) \/ AbandonWrite(w)
=============================================================================
