------------------------ MODULE RiskScoring_proofs ------------------------
(***************************************************************************)
(* The validation of a case and the review queue that concurrent scoring   *)
(* tasks of the case fill, for any number of runs, any duplicated messages *)
(* and any number of retries; and that the queue they fill is the one      *)
(* CaseReview reviews.                                                     *)
(***************************************************************************)
EXTENDS ScoringFeedsReview, FiniteSetTheorems, SequenceTheorems, TLAPS

-----------------------------------------------------------------------------
(*                            The validation                               *)

\* The task still has to end what its run is: it will claim, persist or fail
\* the run, unless it is lost.  A task that read FAILED writes nothing any more.
Responsible(d) ==
  \/ task[d].pc \in {"queued", "claiming", "computing", "persisting", "failing", "lost"}
  \/ task[d].pc = "resetting" /\ task[d].seenRun # "FAILED"

\* RunningHasTask is not inductive: of the tasks that are not done, the one that
\* is resetting may have read an older FAILED and leave the run as it is.
RunningHasResponsible ==
  \A r \in Runs : runStatus[r] = "RUNNING" =>
    \E d \in Deliveries : d[1] = r /\ Responsible(d)

\* A run that does not exist has no message.
TaskHasRun == \A d \in Deliveries : runStatus[d[1]] = "ABSENT" => task[d].pc = "absent"

IInv == TypeOK /\ TaskHasRun /\ OneSnapshotPerRun /\ RunningHasResponsible

-----------------------------------------------------------------------------
(*                       Lemmas on the validation                          *)

\* Every delivery is one of a run, and every run has its first.
LEMMA RunOfDelivery ==
  /\ \A d \in Deliveries : d[1] \in Runs
  /\ \A r \in Runs : <<r, 1>> \in Deliveries /\ <<r, 1>>[1] = r
BY ConstantsAssumption DEF Deliveries

\* What Goto leaves of a task is a task again.
LEMMA GotoType ==
  ASSUME TypeOK, NEW d \in Deliveries, NEW pc, Goto(d, pc),
         pc \in {"claiming", "failing", "done", "lost"}
  PROVE  /\ task' \in [Deliveries -> TaskState]
         /\ task'[d].pc = pc
         /\ \A e \in Deliveries : e # d => task'[e] = task[e]
<1>1. task[d] \in TaskState
  BY DEF TypeOK
<1>2. task[d].retries \in 0..MaxRetries
  BY <1>1 DEF TaskState
<1>3. [NoTask EXCEPT !.pc = pc, !.retries = task[d].retries] \in TaskState
  BY <1>2 DEF NoTask, TaskState
<1> QED
  BY <1>3 DEF Goto, TypeOK, NoTask

\* A retry queues the message again, or ends the task at the last one.
LEMMA RetriedType ==
  ASSUME NEW t \in TaskState, NEW end \in {"done", "lost"}
  PROVE  /\ Retried(t, end) \in TaskState
         /\ Retried(t, end).pc \in {"queued", end}
<1>1. t.retries \in 0..MaxRetries
  BY DEF TaskState
<1>2. t.retries < MaxRetries => t.retries + 1 \in 0..MaxRetries
  BY <1>1, ConstantsAssumption
<1> QED
  BY <1>1, <1>2 DEF Retried, NoTask, TaskState

-----------------------------------------------------------------------------
(*                               Invariance                                *)

LEMMA Initially == Init => IInv
<1> SUFFICES ASSUME Init PROVE IInv
  OBVIOUS
<1>1. NoTask \in TaskState
  BY ConstantsAssumption DEF NoTask, TaskState
<1>2. TypeOK
  BY <1>1 DEF Init, TypeOK, States
<1>3. OneSnapshotPerRun
  BY DEF Init, OneSnapshotPerRun
<1>4. RunningHasResponsible
  BY DEF Init, RunningHasResponsible
<1>5. TaskHasRun
  BY DEF Init, TaskHasRun, NoTask
<1> QED
  BY <1>2, <1>3, <1>4, <1>5 DEF IInv

LEMMA TypeStep == TypeOK /\ TaskHasRun /\ [Next]_vars => TypeOK'
<1> SUFFICES ASSUME TypeOK, TaskHasRun, [Next]_vars PROVE TypeOK'
  OBVIOUS
<1>1. CASE MarkReady
  BY <1>1 DEF MarkReady, TypeOK, States
<1>2. ASSUME NEW r \in Runs, Request(r) PROVE TypeOK'
  <2>1. \A pc \in {"queued", "lost"} : [NoTask EXCEPT !.pc = pc] \in TaskState
    BY ConstantsAssumption DEF NoTask, TaskState
  <2>2. task' \in [Deliveries -> TaskState]
    BY <1>2, <2>1 DEF Request, TypeOK
  <2>3. runStatus' \in [Runs -> {"ABSENT", "RUNNING", "FAILED", "COMPLETED"}]
    BY <1>2 DEF Request, TypeOK
  <2> QED
    BY <1>2, <2>2, <2>3 DEF Request, TypeOK
<1>3. ASSUME NEW d \in Deliveries, Execute(d) PROVE TypeOK'
  <2>0. d[1] \in Runs /\ task[d] \in TaskState
    BY RunOfDelivery DEF TypeOK
  <2>1. CASE Skip(d)
    <3>1. task' \in [Deliveries -> TaskState]
      BY <2>1, GotoType DEF Skip
    <3> QED
      BY <2>1, <3>1 DEF Skip, TypeOK
  <2>2. CASE RefuseCase(d)
    <3>1. task' \in [Deliveries -> TaskState]
      BY <2>2, GotoType DEF RefuseCase
    <3> QED
      BY <2>0, <2>2, <3>1 DEF RefuseCase, TypeOK
  <2>3. CASE AcceptCase(d)
    <3>1. task' \in [Deliveries -> TaskState]
      BY <2>3, GotoType DEF AcceptCase
    <3> QED
      BY <2>3, <3>1 DEF AcceptCase, TypeOK
  <2>4. CASE Claim(d)
    <3>1. [NoTask EXCEPT !.pc = "computing", !.retries = task[d].retries] \in TaskState
      BY <2>0 DEF NoTask, TaskState
    <3>2. task' \in [Deliveries -> TaskState]
      BY <2>4, <3>1 DEF Claim, Goto, TypeOK
    <3> QED
      BY <2>0, <2>4, <3>2 DEF Claim, TypeOK, States
  <2>5. CASE ClaimFails(d)
    <3>1. Retried(task[d], "lost") \in TaskState
      BY <2>0, RetriedType
    <3>2. task' \in [Deliveries -> TaskState]
      BY <2>5, <3>1 DEF ClaimFails, TypeOK
    <3> QED
      BY <2>5, <3>2 DEF ClaimFails, TypeOK
  <2>6. CASE ReadForPersist(d)
    <3>1. [task[d] EXCEPT !.pc = "persisting", !.seenCase = processingState] \in TaskState
      BY <2>0 DEF TaskState, TypeOK
    <3>2. task' \in [Deliveries -> TaskState]
      BY <2>6, <3>1 DEF ReadForPersist, TypeOK
    <3> QED
      BY <2>6, <3>2 DEF ReadForPersist, TypeOK
  <2>7. CASE Persist(d)
    <3>1. task' \in [Deliveries -> TaskState]
      BY <2>7, GotoType DEF Persist
    <3>2. time' \in Nat /\ snapshot' \in [Deliveries -> Nat]
      BY <2>7 DEF Persist, TypeOK
    <3>3. processingState' \in States /\ sent' \subseteq Deliveries
      BY <2>7 DEF Persist, TypeOK, States
    <3> QED
      BY <2>0, <2>7, <3>1, <3>2, <3>3 DEF Persist, TypeOK
  <2>8. CASE PersistNothing(d)
    <3>1. task' \in [Deliveries -> TaskState]
      BY <2>8, GotoType DEF PersistNothing
    <3> QED
      BY <2>8, <3>1 DEF PersistNothing, TypeOK
  <2>9. CASE Fail(d)
    <3>1. task' \in [Deliveries -> TaskState]
      BY <2>9, GotoType DEF Fail
    <3> QED
      BY <2>9, <3>1 DEF Fail, TypeOK
  <2>10. CASE ReadForReset(d)
    <3>1. runStatus[d[1]] \in {"RUNNING", "FAILED", "COMPLETED"}
      BY <2>0, <2>10 DEF ReadForReset, TypeOK, TaskHasRun
    <3>2. [task[d] EXCEPT !.pc = "resetting", !.seenRun = runStatus[d[1]],
                          !.seenCase = processingState] \in TaskState
      BY <2>0, <3>1 DEF TaskState, TypeOK
    <3>3. task' \in [Deliveries -> TaskState]
      BY <2>10, <3>2 DEF ReadForReset, TypeOK
    <3> QED
      BY <2>10, <3>3 DEF ReadForReset, TypeOK
  <2>11. CASE Reset(d)
    <3>1. Retried(task[d], "done") \in TaskState
      BY <2>0, RetriedType
    <3>2. task' \in [Deliveries -> TaskState]
      BY <2>11, <3>1 DEF Reset, TypeOK
    <3>3. runStatus' \in [Runs -> {"ABSENT", "RUNNING", "FAILED", "COMPLETED"}]
      BY <2>11 DEF Reset, TypeOK
    <3> QED
      BY <2>11, <3>2, <3>3 DEF Reset, TypeOK, States
  <2> QED
    BY <1>3, <2>1, <2>2, <2>3, <2>4, <2>5, <2>6, <2>7, <2>8, <2>9, <2>10, <2>11 DEF Execute
<1>4. ASSUME NEW d \in Deliveries, Die(d) PROVE TypeOK'
  <2>1. task' \in [Deliveries -> TaskState]
    BY <1>4, GotoType DEF Die
  <2> QED
    BY <1>4, <2>1 DEF Die, TypeOK
<1>5. CASE UNCHANGED vars
  BY <1>5 DEF vars, TypeOK
<1> QED
  BY <1>1, <1>2, <1>3, <1>4, <1>5 DEF Next

\* Only Request starts a task that was absent, and it creates the run.
LEMMA TaskHasRunStep == TypeOK /\ TaskHasRun /\ [Next]_vars => TaskHasRun'
<1> SUFFICES ASSUME TypeOK, TaskHasRun, [Next]_vars,
                    NEW e \in Deliveries, runStatus'[e[1]] = "ABSENT"
             PROVE  task'[e].pc = "absent"
  BY DEF TaskHasRun
<1>0. e[1] \in Runs
  BY RunOfDelivery
<1>1. CASE MarkReady
  BY <1>1 DEF MarkReady, TaskHasRun
<1>2. ASSUME NEW r \in Runs, Request(r) PROVE task'[e].pc = "absent"
  <2>1. e[1] # r /\ runStatus[e[1]] = "ABSENT"
    BY <1>0, <1>2 DEF Request, TypeOK
  <2>2. task'[e] = task[e]
    BY <1>2, <2>1 DEF Request
  <2> QED
    BY <2>1, <2>2 DEF TaskHasRun
<1>3. ASSUME NEW d \in Deliveries, Execute(d) \/ Die(d) PROVE task'[e].pc = "absent"
  <2>0. d[1] \in Runs
    BY RunOfDelivery
  <2>1. runStatus[e[1]] = "ABSENT"
    BY <1>0, <1>3, <2>0
    DEF TypeOK, Execute, Skip, RefuseCase, AcceptCase, Claim, ClaimFails, ReadForPersist,
        Persist, PersistNothing, Fail, ReadForReset, Reset, Die
  <2>2. task[e].pc = "absent"
    BY <2>1 DEF TaskHasRun
  <2>3. task[d].pc # "absent" /\ (e # d => task'[e] = task[e])
    BY <1>3
    DEF TypeOK, Goto, Execute, Skip, RefuseCase, AcceptCase, Claim, ClaimFails,
        ReadForPersist, Persist, PersistNothing, Fail, ReadForReset, Reset, Die
  <2> QED
    BY <2>2, <2>3
<1>4. CASE UNCHANGED vars
  BY <1>4 DEF vars, TaskHasRun
<1> QED
  BY <1>1, <1>2, <1>3, <1>4 DEF Next

\* Only Persist inserts a snapshot, and only where the run has none.
LEMMA SnapshotStep == TypeOK /\ OneSnapshotPerRun /\ [Next]_vars => OneSnapshotPerRun'
<1> SUFFICES ASSUME TypeOK, OneSnapshotPerRun, [Next]_vars PROVE OneSnapshotPerRun'
  OBVIOUS
<1>1. ASSUME NEW d \in Deliveries, Persist(d) PROVE OneSnapshotPerRun'
  <2>1. \A e \in Deliveries : e # d => snapshot'[e] = snapshot[e]
    BY <1>1 DEF Persist, TypeOK
  <2>2. \A e \in Deliveries : e[1] = d[1] => snapshot[e] = 0
    BY <1>1 DEF Persist, Unique
  <2> QED
    BY <2>1, <2>2 DEF OneSnapshotPerRun
<1>2. CASE UNCHANGED snapshot
  BY <1>2 DEF OneSnapshotPerRun
<1>3. UNCHANGED snapshot \/ \E d \in Deliveries : Persist(d)
  BY DEF vars, Next, MarkReady, Request, Execute, Skip, RefuseCase, AcceptCase, Claim,
         ClaimFails, ReadForPersist, PersistNothing, Fail, ReadForReset, Reset, Die
<1> QED
  BY <1>1, <1>2, <1>3

\* A step of d leaves its run ended, d responsible, or what was responsible
\* before and is not d.
LEMMA ResponsibleStep ==
  TypeOK /\ RunningHasResponsible /\ [Next]_vars => RunningHasResponsible'
<1> SUFFICES ASSUME TypeOK, RunningHasResponsible, [Next]_vars,
                    NEW r \in Runs, runStatus'[r] = "RUNNING"
             PROVE  \E d \in Deliveries : d[1] = r /\ Responsible(d)'
  BY DEF RunningHasResponsible
<1> DEFINE Other(d) == \E e \in Deliveries : e[1] = r /\ e # d /\ Responsible(e)
<1>1. CASE UNCHANGED <<runStatus, task>>
  BY <1>1 DEF RunningHasResponsible, Responsible
<1>2. ASSUME NEW q \in Runs, Request(q)
      PROVE  \E d \in Deliveries : d[1] = r /\ Responsible(d)'
  <2>1. CASE q = r
    <3>1. <<r, 1>> \in Deliveries /\ <<r, 1>>[1] = r
      BY RunOfDelivery
    <3>2. task'[<<r, 1>>].pc \in {"queued", "lost"}
      BY <1>2, <2>1, <3>1 DEF Request, NoTask
    <3> QED
      BY <3>1, <3>2 DEF Responsible
  <2>2. CASE q # r
    <3>1. runStatus[r] = "RUNNING"
      BY <1>2, <2>2 DEF Request, TypeOK
    <3>2. PICK d \in Deliveries : d[1] = r /\ Responsible(d)
      BY <3>1 DEF RunningHasResponsible
    <3>3. task'[d] = task[d]
      BY <1>2, <2>2, <3>2 DEF Request
    <3> QED
      BY <3>2, <3>3 DEF Responsible
  <2> QED
    BY <2>1, <2>2
<1>3. ASSUME NEW d \in Deliveries, Execute(d) \/ Die(d)
      PROVE  \E e \in Deliveries : e[1] = r /\ Responsible(e)'
  <2>0. /\ d[1] \in Runs
        /\ task[d] \in TaskState
        /\ \A e \in Deliveries : e # d => task'[e] = task[e]
    BY <1>3, RunOfDelivery
    DEF TypeOK, Goto, Execute, Skip, RefuseCase, AcceptCase, Claim, ClaimFails,
        ReadForPersist, Persist, PersistNothing, Fail, ReadForReset, Reset, Die
  <2>1. SUFFICES Other(d) \/ (d[1] = r /\ Responsible(d)')
    BY <2>0 DEF Responsible
  <2>2. CASE d[1] # r
    <3>1. runStatus[r] = "RUNNING"
      BY <1>3, <2>0, <2>2
      DEF TypeOK, Execute, Skip, RefuseCase, AcceptCase, Claim, ClaimFails,
          ReadForPersist, Persist, PersistNothing, Fail, ReadForReset, Reset, Die
    <3> QED
      BY <2>2, <3>1 DEF RunningHasResponsible
  <2>3. CASE d[1] = r
    <3>1. CASE Skip(d)
      <4>1. runStatus[r] = "RUNNING"
        BY <3>1 DEF Skip
      <4>2. PICK e \in Deliveries : e[1] = r /\ task[e].pc \in {"claiming", "persisting"}
        BY <2>3, <3>1, <4>1 DEF Skip, Locked
      <4> QED
        BY <3>1, <4>2 DEF Skip, Responsible
    <3>2. CASE RefuseCase(d)
      BY <2>0, <2>3, <3>2 DEF RefuseCase, TypeOK
    <3>3. CASE AcceptCase(d)
      BY <2>3, <3>3, GotoType DEF AcceptCase, Responsible
    <3>4. CASE Claim(d)
      BY <2>3, <3>4 DEF Claim, Goto, NoTask, TypeOK, Responsible
    <3>5. CASE ClaimFails(d)
      <4>1. Retried(task[d], "lost").pc \in {"queued", "lost"}
        BY <2>0, RetriedType
      <4> QED
        BY <2>3, <3>5, <4>1 DEF ClaimFails, TypeOK, Responsible
    <3>6. CASE ReadForPersist(d)
      BY <2>0, <2>3, <3>6 DEF ReadForPersist, TypeOK, TaskState, Responsible
    <3>7. CASE Persist(d)
      BY <2>0, <2>3, <3>7 DEF Persist, TypeOK
    <3>8. CASE PersistNothing(d)
      BY <2>3, <3>8 DEF PersistNothing
    <3>9. CASE Fail(d)
      BY <2>3, <3>9, GotoType DEF Fail, Responsible
    <3>10. CASE ReadForReset(d)
      <4>1. runStatus[r] = "RUNNING"
        BY <3>10 DEF ReadForReset
      <4>2. task'[d].pc = "resetting" /\ task'[d].seenRun = "RUNNING"
        BY <2>0, <2>3, <3>10, <4>1 DEF ReadForReset, TypeOK, TaskState
      <4> QED
        BY <2>3, <4>2 DEF Responsible
    <3>11. CASE Reset(d)
      <4>1. task[d].seenRun = "FAILED" /\ runStatus[r] = "RUNNING"
        BY <2>0, <2>3, <3>11 DEF Reset, TypeOK
      <4>2. ~Responsible(d)
        BY <3>11, <4>1 DEF Reset, Responsible
      <4> QED
        BY <4>1, <4>2 DEF RunningHasResponsible
    <3>12. CASE Die(d)
      BY <2>3, <3>12, GotoType DEF Die, Responsible
    <3> QED
      BY <1>3, <3>1, <3>2, <3>3, <3>4, <3>5, <3>6, <3>7, <3>8, <3>9, <3>10, <3>11, <3>12
      DEF Execute
  <2> QED
    BY <2>2, <2>3
<1> QED
  BY <1>1, <1>2, <1>3 DEF Next, MarkReady, vars

\* The inductive invariant.
THEOREM Invariance == Spec => []IInv
<1>1. IInv /\ [Next]_vars => IInv'
  BY TypeStep, TaskHasRunStep, SnapshotStep, ResponsibleStep DEF IInv
<1> QED
  BY <1>1, Initially, PTL DEF Spec

\* The types of all variables; no task is retried more than MaxRetries times.
THEOREM TypeCorrect == Spec => []TypeOK
<1>1. IInv => TypeOK
  BY DEF IInv
<1> QED
  BY <1>1, Invariance, PTL

\* UNIQUE (validation_run_id) and the lock of the run leave each run one
\* snapshot, whatever is delivered twice or retried (validation_tasks.py:92-130).
THEOREM SnapshotIsUnique == Spec => []OneSnapshotPerRun
<1>1. IInv => OneSnapshotPerRun
  BY DEF IInv
<1> QED
  BY <1>1, Invariance, PTL

\* Every branch of execute_evidence_validation that gives a task up ends its run
\* or leaves it to another task (validation_tasks.py:15-145).
THEOREM NoRunForgotten == Spec => []RunningHasTask
<1>1. IInv => RunningHasTask
  BY DEF IInv, RunningHasResponsible, Responsible, RunningHasTask
<1> QED
  BY <1>1, Invariance, PTL

-----------------------------------------------------------------------------
(*                              The scoring                                *)

Scored == { p \in Deliveries : prediction[p].state = "committed" }

\* What is stamped was stamped before now, and no two predictions at once.
Clock ==
  /\ \A d \in Deliveries : snapshot[d] <= time /\ prediction[d].createdAt <= time
  /\ \A p, q \in Deliveries :
       /\ prediction[p].state # "none" /\ prediction[q].state # "none"
       /\ prediction[p].createdAt = prediction[q].createdAt
       => p = q

\* ORDER BY created_at DESC has a first row, although Runs may be infinite.
HasLatest ==
  /\ \A c \in Deliveries : \E d \in Deliveries : \A e \in Deliveries :
       snapshot[e] <= snapshot[d]
  /\ \A c \in Scored : \E p \in Scored : \A q \in Scored :
       prediction[q].createdAt <= prediction[p].createdAt

UniqueKey ==
  \A p, q \in Deliveries :
    /\ prediction[p].state # "none" /\ prediction[q].state # "none"
    /\ prediction[p].of = prediction[q].of
    => p = q

\* The rows a task has at each of its steps.
Stage(d) ==
  /\ score[d].pc \in {"idle", "scoring"} => prediction[d].state = "none"
  /\ score[d].pc \in {"idle", "scoring", "predicted"} => item[d].state = "none"
  /\ score[d].pc \in {"predicted", "queued"} => prediction[d].state # "committed"
  /\ score[d].pc = "done" => prediction[d].state # "open"

\* A task that wants to queue something has its own prediction or sees another.
Justified(d) ==
  score[d].pc \in {"predicted", "queued"} => prediction[d].state = "open" \/ Scored # {}

\* A task queues its own prediction or none, and commits both together.
OwnItem(d) ==
  item[d].state # "none" => item[d].of = d /\ item[d].state = prediction[d].state

\* It leaves its own prediction out only for a newer one.
Queued(d) ==
  score[d].pc = "queued" /\ prediction[d].state = "open" =>
    \/ item[d].state = "open"
    \/ \E p \in Scored : prediction[p].createdAt > prediction[d].createdAt

Rows == \A d \in Deliveries : Stage(d) /\ Justified(d) /\ OwnItem(d) /\ Queued(d)

Types == TypeOK /\ TaskHasRun /\ ScoringTypeOK

\* The inductive invariant.
SInv == Types /\ Clock /\ HasLatest /\ UniqueKey /\ Rows /\ NewestIsQueued /\ ScoredIsQueued

-----------------------------------------------------------------------------
(*                                 Lemmas                                  *)

\* The newest row is among those it is the newest of.
LEMMA LatestSnapshotExists ==
  ASSUME HasLatest, NEW d \in Deliveries
  PROVE  LatestSnapshot \in Deliveries
BY DEF HasLatest, LatestSnapshot

\* A task that is about to fill the queue sees a newest prediction: its own, not
\* yet committed, or one that is in the queue already.
LEMMA LatestPredictionExists ==
  ASSUME SInv, NEW d \in Deliveries, score[d].pc = "predicted"
  PROVE  /\ LatestPrediction(d) \in Visible(prediction, d)
         /\ \A q \in Visible(prediction, d) :
              prediction[q].createdAt <= prediction[LatestPrediction(d)].createdAt
<1> DEFINE Newest(p) == \A q \in Visible(prediction, d) :
                          prediction[q].createdAt <= prediction[p].createdAt
<1>0. /\ Rows /\ HasLatest
      /\ \A p \in Deliveries : prediction[p].createdAt \in Nat
  BY DEF SInv, Types, ScoringTypeOK, Row
<1>1. Visible(prediction, d) = IF prediction[d].state = "open" THEN Scored \cup {d} ELSE Scored
  BY DEF Visible, Scored
<1>2. \E p \in Visible(prediction, d) : Newest(p)
  <2>1. CASE Scored = {}
    <3>1. prediction[d].state = "open"
      BY <1>0, <2>1 DEF Rows, Justified
    <3> QED
      BY <1>0, <1>1, <2>1, <3>1
  <2>2. CASE Scored # {}
    <3>1. PICK p \in Scored : \A q \in Scored :
            prediction[q].createdAt <= prediction[p].createdAt
      BY <1>0, <2>2 DEF HasLatest
    <3>2. p \in Deliveries
      BY DEF Scored
    <3>3. CASE prediction[d].state = "open" /\ prediction[p].createdAt < prediction[d].createdAt
      <4>1. d \in Visible(prediction, d)
        BY <1>1, <3>3
      <4>2. ASSUME NEW q \in Scored
            PROVE  prediction[q].createdAt <= prediction[d].createdAt
        <5>1. q \in Deliveries /\ prediction[q].createdAt <= prediction[p].createdAt
          BY <3>1 DEF Scored
        <5> QED
          BY <1>0, <3>2, <3>3, <5>1
      <4>3. Newest(d)
        BY <1>0, <1>1, <3>3, <4>2
      <4> QED
        BY <4>1, <4>3
    <3>4. CASE ~(prediction[d].state = "open"
                   /\ prediction[p].createdAt < prediction[d].createdAt)
      <4>1. p \in Visible(prediction, d)
        BY <1>1
      <4>2. prediction[d].state = "open" =>
              prediction[d].createdAt <= prediction[p].createdAt
        BY <1>0, <3>2, <3>4
      <4>3. Newest(p)
        BY <1>1, <3>1, <4>2
      <4> QED
        BY <4>1, <4>3
    <3> QED
      BY <3>3, <3>4
  <2> QED
    BY <2>1, <2>2
<1> HIDE DEF Newest
<1>3. LatestPrediction(d) = CHOOSE p \in Visible(prediction, d) : Newest(p)
  BY DEF LatestPrediction, Newest
<1>4. LatestPrediction(d) \in Visible(prediction, d) /\ Newest(LatestPrediction(d))
  BY <1>2, <1>3
<1> QED
  BY <1>4 DEF Newest

\* All but the queue is settled by the rows of predictions.
LEMMA OneItem == SInv => OneItemPerSnapshot
<1> SUFFICES ASSUME SInv, NEW i \in Deliveries, NEW j \in Deliveries,
                    item[i].state # "none", item[j].state # "none",
                    prediction[item[i].of].of = prediction[item[j].of].of
             PROVE  i = j
  BY DEF OneItemPerSnapshot
<1>1. /\ item[i].of = i /\ prediction[i].state # "none"
      /\ item[j].of = j /\ prediction[j].state # "none"
  BY DEF SInv, Rows, OwnItem
<1> QED
  BY <1>1 DEF SInv, UniqueKey

-----------------------------------------------------------------------------
(*                               Invariance                                *)

LEMMA ScoringInitially == Init /\ ScoringInit => SInv
<1> SUFFICES ASSUME Init, ScoringInit PROVE SInv
  OBVIOUS
<1>1. Types
  <2>1. Unscored \in ScoreState /\ NoRow \in Row
    BY ScoringAssumption DEF Unscored, ScoreState, NoRow, Row
  <2> QED
    BY <2>1, Initially DEF Types, IInv, ScoringInit, ScoringTypeOK
<1>2. Scored = {}
  BY DEF Scored, ScoringInit, NoRow
<1>3. Clock
  BY DEF Clock, Init, ScoringInit, NoRow
<1>4. HasLatest
  BY <1>2 DEF HasLatest, Init
<1>5. UniqueKey
  BY DEF UniqueKey, ScoringInit, NoRow
<1>6. Rows
  BY DEF Rows, Stage, Justified, OwnItem, Queued, ScoringInit, NoRow, Unscored
<1>7. NewestIsQueued /\ ScoredIsQueued
  BY DEF NewestIsQueued, ScoredIsQueued, Init, ScoringInit, NoRow
<1> QED
  BY <1>1, <1>3, <1>4, <1>5, <1>6, <1>7 DEF SInv

\* The validation stamps snapshots and writes every state but RISK_SCORED.
LEMMA ValidationStep ==
  ASSUME SInv, [Next]_vars, UNCHANGED scoreVars
  PROVE  SInv'
<1> USE DEF SInv
<1>0. UNCHANGED <<score, prediction, item>>
  BY DEF scoreVars
<1>1. Types'
  <2>1. TypeOK' /\ TaskHasRun'
    BY TypeStep, TaskHasRunStep DEF Types
  <2> QED
    BY <1>0, <2>1 DEF Types, ScoringTypeOK
<1>2. \/ UNCHANGED <<snapshot, time>>
      \/ \E d \in Deliveries :
           time' = time + 1 /\ snapshot' = [snapshot EXCEPT ![d] = time']
  BY DEF vars, Next, MarkReady, Request, Execute, Skip, RefuseCase, AcceptCase, Claim,
         ClaimFails, ReadForPersist, Persist, PersistNothing, Fail, ReadForReset, Reset, Die
<1>3. /\ time \in Nat /\ snapshot \in [Deliveries -> Nat]
      /\ \A p \in Deliveries : prediction[p].createdAt \in Nat
  BY DEF Types, TypeOK, ScoringTypeOK, Row
<1>4. Clock'
  <2>1. \A d \in Deliveries : (snapshot[d] <= time /\ prediction[d].createdAt <= time)'
    BY <1>0, <1>2, <1>3 DEF Clock
  <2> QED
    BY <1>0, <2>1 DEF Clock
<1>5. HasLatest'
  <2>1. \A c \in Deliveries : \E d \in Deliveries : \A e \in Deliveries :
          snapshot'[e] <= snapshot'[d]
    <3>1. CASE UNCHANGED snapshot
      BY <3>1 DEF HasLatest
    <3>2. ASSUME NEW d \in Deliveries,
                 time' = time + 1, snapshot' = [snapshot EXCEPT ![d] = time']
          PROVE  \A e \in Deliveries : snapshot'[e] <= snapshot'[d]
      BY <1>3, <3>2 DEF Clock
    <3> QED
      BY <1>2, <3>1, <3>2
  <2> QED
    BY <1>0, <2>1 DEF HasLatest, Scored
<1>6. UniqueKey' /\ Rows' /\ NewestIsQueued'
  BY <1>0 DEF UniqueKey, Rows, Stage, Justified, OwnItem, Queued, Scored, NewestIsQueued, Queue
<1>7. ScoredIsQueued'
  <2>1. processingState' = "RISK_SCORED" => processingState = "RISK_SCORED"
    BY DEF vars, Next, MarkReady, Request, Execute, Skip, RefuseCase, AcceptCase, Claim,
           ClaimFails, ReadForPersist, Persist, PersistNothing, Fail, ReadForReset, Reset, Die
  <2> QED
    BY <1>0, <2>1 DEF ScoredIsQueued, Queue
<1> QED
  BY <1>1, <1>4, <1>5, <1>6, <1>7

\* Steps that change no row: reading the snapshot, and giving up.
LEMMA ReadStep ==
  ASSUME SInv, NEW d \in Deliveries, ReadSnapshot(d) \/ NoChampion(d)
  PROVE  SInv'
<1> USE DEF SInv
<1>0. /\ UNCHANGED <<vars, prediction, item>>
      /\ UNCHANGED <<processingState, runStatus, task, snapshot, sent, time>>
      /\ UNCHANGED Scored
      /\ score[d].pc = "idle"
  BY DEF ReadSnapshot, NoChampion, vars, Scored
<1>1. score \in [Deliveries -> ScoreState] /\ score[d] \in ScoreState
  BY DEF Types, ScoringTypeOK
<1>2. LatestSnapshot \in Deliveries
  BY LatestSnapshotExists
<1>3. score' \in [Deliveries -> ScoreState]
  <2>1. CASE ReadSnapshot(d)
    BY <1>1, <1>2, <2>1 DEF ReadSnapshot, ScoreState
  <2>2. CASE NoChampion(d)
    BY <1>1, <2>2 DEF NoChampion, ScoreState
  <2> QED
    BY <2>1, <2>2
<1>4. /\ score'[d].pc \in {"scoring", "predicted", "done"}
      /\ score'[d].pc = "predicted" => Scored # {}
      /\ \A e \in Deliveries : e # d => score'[e] = score[e]
  <2>1. CASE ReadSnapshot(d)
    BY <1>1, <2>1 DEF ReadSnapshot, ScoreState, Predicted, Scored
  <2>2. CASE NoChampion(d)
    BY <1>1, <2>2 DEF NoChampion, ScoreState
  <2> QED
    BY <2>1, <2>2
<1>5. Types'
  BY <1>0, <1>3 DEF Types, TypeOK, TaskHasRun, ScoringTypeOK
<1>6. Rows'
  <2>1. Stage(d)' /\ Justified(d)' /\ OwnItem(d)' /\ Queued(d)'
    BY <1>0, <1>4 DEF Rows, Stage, Justified, OwnItem, Queued
  <2>2. ASSUME NEW e \in Deliveries, e # d
        PROVE  Stage(e)' /\ Justified(e)' /\ OwnItem(e)' /\ Queued(e)'
    BY <1>0, <1>4, <2>2 DEF Rows, Stage, Justified, OwnItem, Queued
  <2> QED
    BY <2>1, <2>2 DEF Rows
<1>7. Clock' /\ HasLatest' /\ UniqueKey' /\ NewestIsQueued' /\ ScoredIsQueued'
  BY <1>0 DEF Clock, HasLatest, UniqueKey, NewestIsQueued, ScoredIsQueued, Queue
<1> QED
  BY <1>5, <1>6, <1>7

\* The new prediction is open: the newest of all, and the only one of its key.
LEMMA InsertStep ==
  ASSUME SInv, NEW d \in Deliveries, InsertPrediction(d)
  PROVE  SInv'
<1> USE DEF SInv
<1> DEFINE new == [state |-> "open", of |-> score[d].snapshot, createdAt |-> time + 1]
<1>1. /\ score[d].pc = "scoring" /\ score[d] \in ScoreState
      /\ score' = [score EXCEPT ![d].pc = "predicted"]
      /\ prediction' = [prediction EXCEPT ![d] = new]
      /\ time' = time + 1
      /\ UNCHANGED <<processingState, runStatus, task, snapshot, sent, item>>
  BY DEF InsertPrediction, Types, ScoringTypeOK
<1>2. time \in Nat /\ snapshot \in [Deliveries -> Nat]
  BY DEF Types, TypeOK
<1>3. \A p \in Deliveries : prediction[p] \in Row /\ prediction[p].createdAt \in Nat
  BY DEF Types, ScoringTypeOK, Row
<1>4. new \in Row
  BY <1>1, <1>2 DEF Row, ScoreState
<1>5. Types'
  <2>1. TypeOK' /\ TaskHasRun'
    BY <1>1, <1>2 DEF Types, TypeOK, TaskHasRun
  <2>2. score' \in [Deliveries -> ScoreState]
    BY <1>1 DEF Types, ScoringTypeOK, ScoreState
  <2>3. prediction' \in [Deliveries -> Row]
    BY <1>1, <1>4 DEF Types, ScoringTypeOK
  <2> QED
    BY <1>1, <2>1, <2>2, <2>3 DEF Types, ScoringTypeOK
<1>6. /\ prediction'[d] = new
      /\ \A e \in Deliveries : e # d => prediction'[e] = prediction[e] /\ score'[e] = score[e]
      /\ score'[d].pc = "predicted"
      /\ prediction[d].state = "none" /\ item[d].state = "none"
  BY <1>1 DEF Types, ScoringTypeOK, ScoreState, Rows, Stage
<1>7. UNCHANGED Scored
  BY <1>6 DEF Scored
<1> HIDE DEF new
<1>8. new.createdAt = time + 1 /\ new.state = "open" /\ new.of = score[d].snapshot
  BY DEF new
<1>9. Clock'
  <2>1. \A e \in Deliveries : (snapshot[e] <= time /\ prediction[e].createdAt <= time)'
    BY <1>1, <1>2, <1>3, <1>6, <1>8 DEF Clock
  <2>2. \A e \in Deliveries : prediction[e].createdAt # time + 1
    BY <1>2, <1>3 DEF Clock
  <2> QED
    BY <1>6, <1>8, <2>1, <2>2 DEF Clock
<1>10. HasLatest'
  <2>1. \A p \in Scored : p \in Deliveries /\ prediction'[p] = prediction[p]
    BY <1>6 DEF Scored
  <2> QED
    BY <1>1, <1>7, <2>1 DEF HasLatest
<1>11. UniqueKey'
  BY <1>1, <1>6, <1>8 DEF UniqueKey, InsertPrediction, NoOtherRow
<1>12. Rows'
  <2>1. Stage(d)' /\ Justified(d)' /\ OwnItem(d)' /\ Queued(d)'
    BY <1>1, <1>6, <1>8 DEF Stage, Justified, OwnItem, Queued
  <2>2. ASSUME NEW e \in Deliveries, e # d
        PROVE  Stage(e)' /\ Justified(e)' /\ OwnItem(e)' /\ Queued(e)'
    <3>1. prediction'[e] = prediction[e] /\ score'[e] = score[e] /\ item'[e] = item[e]
      BY <1>1, <1>6, <2>2
    <3>2. \A p \in Scored : prediction'[p] = prediction[p]
      BY <1>6 DEF Scored
    <3> QED
      BY <1>7, <3>1, <3>2 DEF Rows, Stage, Justified, OwnItem, Queued
  <2> QED
    BY <2>1, <2>2 DEF Rows
<1>13. NewestIsQueued'
  <2>1. \A p \in Deliveries : (prediction'[p].state = "committed") <=>
                               (prediction[p].state = "committed")
    BY <1>6, <1>8
  <2>2. \A p \in Deliveries : prediction[p].state = "committed" =>
                               prediction'[p] = prediction[p]
    BY <1>6
  <2> QED
    BY <1>1, <2>1, <2>2 DEF NewestIsQueued, Queue
<1>14. ScoredIsQueued'
  BY <1>1 DEF ScoredIsQueued, Queue
<1> QED
  BY <1>5, <1>9, <1>10, <1>11, <1>12, <1>13, <1>14

\* The newest prediction that the task sees is its own, or in the queue already.
LEMMA HydrateStep ==
  ASSUME SInv, NEW d \in Deliveries, HydrateReviewQueue(d)
  PROVE  SInv'
<1> USE DEF SInv
<1>1. /\ score[d].pc = "predicted" /\ score[d] \in ScoreState
      /\ score' = [score EXCEPT ![d] = [@ EXCEPT !.pc = "queued", !.seenCase = processingState]]
      /\ UNCHANGED <<processingState, runStatus, task, snapshot, sent, prediction>>
      /\ UNCHANGED Scored
  BY DEF HydrateReviewQueue, Types, ScoringTypeOK, Scored
<1>2. time \in Nat /\ snapshot \in [Deliveries -> Nat] /\ processingState \in States
  BY DEF Types, TypeOK
<1>3. \A p \in Deliveries : prediction[p] \in Row /\ prediction[p].createdAt \in Nat
  BY DEF Types, ScoringTypeOK, Row
<1>4. PICK p \in Deliveries : p = LatestPrediction(d)
  BY <1>1, LatestPredictionExists DEF Visible
<1>5. /\ p \in Visible(prediction, d)
      /\ \A q \in Visible(prediction, d) : prediction[q].createdAt <= prediction[p].createdAt
  BY <1>1, <1>4, LatestPredictionExists
<1>6. prediction[d].state # "committed" /\ item[d].state = "none"
  BY <1>1 DEF Rows, Stage
<1>7. p # d => p \in Scored /\ InQueue(p, d)
  <2> SUFFICES ASSUME p # d PROVE p \in Scored /\ InQueue(p, d)
    OBVIOUS
  <2>1. p \in Scored
    BY <1>5 DEF Visible, Scored
  <2>2. \A q \in Deliveries : prediction[q].state = "committed" =>
          prediction[q].createdAt <= prediction[p].createdAt
    BY <1>5 DEF Visible
  <2>3. \E i \in Queue : item[i].of = p
    BY <2>1, <2>2 DEF NewestIsQueued, Scored
  <2> QED
    BY <2>1, <2>3 DEF InQueue, Visible, Queue
<1>8. p = d => prediction[d].state = "open" /\ ~InQueue(d, d)
  <2> SUFFICES ASSUME p = d PROVE prediction[d].state = "open" /\ ~InQueue(d, d)
    OBVIOUS
  <2>1. prediction[d].state = "open"
    BY <1>5, <1>6 DEF Visible
  <2>2. ASSUME NEW i \in Visible(item, d), item[i].of = d PROVE FALSE
    <3>1. i \in Deliveries /\ item[i].state # "none"
      BY DEF Visible
    <3>2. i = d
      BY <2>2, <3>1 DEF Rows, OwnItem
    <3> QED
      BY <1>6, <3>1, <3>2
  <2> QED
    BY <2>1, <2>2 DEF InQueue
<1>9. CASE p = d
  <2> DEFINE new == [state |-> "open", of |-> d, createdAt |-> time + 1]
  <2>1. time' = time + 1 /\ item' = [item EXCEPT ![d] = new]
    BY <1>4, <1>8, <1>9 DEF HydrateReviewQueue
  <2>2. new \in Row
    BY <1>2 DEF Row
  <2>3. Types'
    <3>1. TypeOK' /\ TaskHasRun'
      BY <1>1, <1>2, <2>1 DEF Types, TypeOK, TaskHasRun
    <3>2. score' \in [Deliveries -> ScoreState]
      BY <1>1, <1>2 DEF Types, ScoringTypeOK, ScoreState
    <3>3. item' \in [Deliveries -> Row]
      BY <2>1, <2>2 DEF Types, ScoringTypeOK
    <3> QED
      BY <1>1, <3>1, <3>2, <3>3 DEF Types, ScoringTypeOK
  <2>4. /\ item'[d].state = "open" /\ item'[d].of = d /\ score'[d].pc = "queued"
        /\ \A e \in Deliveries : e # d => item'[e] = item[e] /\ score'[e] = score[e]
    BY <1>1, <2>1 DEF Types, ScoringTypeOK, ScoreState
  <2>5. Rows'
    <3>1. Stage(d)' /\ Justified(d)' /\ OwnItem(d)' /\ Queued(d)'
      BY <1>1, <1>8, <1>9, <2>4 DEF Stage, Justified, OwnItem, Queued
    <3>2. ASSUME NEW e \in Deliveries, e # d
          PROVE  Stage(e)' /\ Justified(e)' /\ OwnItem(e)' /\ Queued(e)'
      BY <1>1, <2>4, <3>2 DEF Rows, Stage, Justified, OwnItem, Queued
    <3> QED
      BY <3>1, <3>2 DEF Rows
  <2>6. Clock'
    BY <1>1, <1>2, <1>3, <2>1 DEF Clock
  <2>7. \A i \in Queue : i \in Queue' /\ item'[i] = item[i]
    BY <1>6, <2>4 DEF Queue
  <2>8. NewestIsQueued' /\ ScoredIsQueued'
    BY <1>1, <2>7 DEF NewestIsQueued, ScoredIsQueued
  <2>9. HasLatest' /\ UniqueKey'
    BY <1>1 DEF HasLatest, UniqueKey
  <2> QED
    BY <2>3, <2>5, <2>6, <2>8, <2>9
<1>10. CASE p # d
  <2>1. UNCHANGED <<item, time>>
    BY <1>4, <1>7, <1>10 DEF HydrateReviewQueue
  <2>2. Types'
    <3>1. TypeOK' /\ TaskHasRun'
      BY <1>1, <2>1 DEF Types, TypeOK, TaskHasRun
    <3>2. score' \in [Deliveries -> ScoreState]
      BY <1>1, <1>2 DEF Types, ScoringTypeOK, ScoreState
    <3> QED
      BY <1>1, <2>1, <3>1, <3>2 DEF Types, ScoringTypeOK
  <2>3. /\ score'[d].pc = "queued"
        /\ \A e \in Deliveries : e # d => score'[e] = score[e]
    BY <1>1 DEF Types, ScoringTypeOK, ScoreState
  <2>4. prediction[d].state = "open" => prediction[p].createdAt > prediction[d].createdAt
    <3> SUFFICES ASSUME prediction[d].state = "open"
                 PROVE  prediction[p].createdAt > prediction[d].createdAt
      OBVIOUS
    <3>1. prediction[d].createdAt <= prediction[p].createdAt
      BY <1>5 DEF Visible
    <3>2. prediction[d].createdAt # prediction[p].createdAt
      BY <1>7, <1>10 DEF Clock, Scored
    <3> QED
      BY <1>3, <3>1, <3>2
  <2>5. Rows'
    <3>1. Stage(d)' /\ Justified(d)' /\ OwnItem(d)' /\ Queued(d)'
      BY <1>1, <1>6, <1>7, <1>10, <2>1, <2>3, <2>4 DEF Stage, Justified, OwnItem, Queued
    <3>2. ASSUME NEW e \in Deliveries, e # d
          PROVE  Stage(e)' /\ Justified(e)' /\ OwnItem(e)' /\ Queued(e)'
      BY <1>1, <2>1, <2>3, <3>2 DEF Rows, Stage, Justified, OwnItem, Queued
    <3> QED
      BY <3>1, <3>2 DEF Rows
  <2>6. Clock' /\ HasLatest' /\ UniqueKey' /\ NewestIsQueued' /\ ScoredIsQueued'
    BY <1>1, <2>1 DEF Clock, HasLatest, UniqueKey, NewestIsQueued, ScoredIsQueued, Queue
  <2> QED
    BY <2>2, <2>5, <2>6
<1> QED
  BY <1>9, <1>10

\* The own rows become visible: a prediction with its item, or for a newer one
\* that is in the queue already.
LEMMA CommitStep ==
  ASSUME SInv, NEW d \in Deliveries, CommitScore(d)
  PROVE  SInv'
<1> USE DEF SInv
<1>1. /\ score[d].pc = "queued" /\ score[d] \in ScoreState
      /\ prediction' = [prediction EXCEPT ![d] = Committed(@)]
      /\ item' = [item EXCEPT ![d] = Committed(@)]
      /\ score' = [score EXCEPT ![d].pc = "done"]
      /\ UNCHANGED <<runStatus, task, snapshot, sent, time>>
  BY DEF CommitScore, Types, ScoringTypeOK
<1>2. /\ prediction \in [Deliveries -> Row] /\ item \in [Deliveries -> Row]
      /\ \A p \in Deliveries : prediction[p].createdAt \in Nat
  BY DEF Types, ScoringTypeOK, Row
<1>3. \A row \in Row : /\ Committed(row) \in Row
                       /\ Committed(row).of = row.of
                       /\ Committed(row).createdAt = row.createdAt
                       /\ Committed(row).state # "open"
                       /\ (Committed(row).state = "none") <=> (row.state = "none")
  BY DEF Committed, Row
<1>4. Types'
  <2>1. processingState' \in States
    BY DEF CommitScore, Types, TypeOK, States
  <2>2. TypeOK' /\ TaskHasRun'
    BY <1>1, <2>1 DEF Types, TypeOK, TaskHasRun
  <2>3. score' \in [Deliveries -> ScoreState]
    BY <1>1 DEF Types, ScoringTypeOK, ScoreState
  <2>4. prediction' \in [Deliveries -> Row] /\ item' \in [Deliveries -> Row]
    BY <1>1, <1>2, <1>3
  <2> QED
    BY <2>2, <2>3, <2>4 DEF Types, ScoringTypeOK
<1>5. /\ score'[d].pc = "done"
      /\ prediction[d].state # "committed"
      /\ item[d].state # "none" => item[d].of = d /\ item[d].state = prediction[d].state
  BY <1>1 DEF Types, ScoringTypeOK, ScoreState, Rows, Stage, OwnItem
<1>6. \A e \in Deliveries : e # d => /\ prediction'[e] = prediction[e]
                                     /\ item'[e] = item[e] /\ score'[e] = score[e]
  BY <1>1, <1>2 DEF Types, ScoringTypeOK
<1>7. /\ prediction'[d] = Committed(prediction[d])
      /\ item'[d] = Committed(item[d])
  BY <1>1, <1>2
<1>8. \A e \in Deliveries : /\ prediction'[e].of = prediction[e].of
                            /\ prediction'[e].createdAt = prediction[e].createdAt
                            /\ (prediction'[e].state = "none") <=> (prediction[e].state = "none")
  BY <1>2, <1>3, <1>6, <1>7
<1>9. prediction'[d].state = "committed" <=> prediction[d].state = "open"
  BY <1>2, <1>5, <1>7 DEF Committed, Row
<1>10. Scored' = IF prediction[d].state = "open" THEN Scored \cup {d} ELSE Scored
  BY <1>5, <1>6, <1>9 DEF Scored
<1>11. Clock' /\ UniqueKey'
  <2>1. Clock'
    BY <1>1, <1>8 DEF Clock
  <2>2. UniqueKey'
    BY <1>8 DEF UniqueKey
  <2> QED
    BY <2>1, <2>2
<1>12. HasLatest'
  <2>1. ASSUME NEW c \in Scored'
        PROVE  \E p \in Scored' : \A q \in Scored' :
                 prediction'[q].createdAt <= prediction'[p].createdAt
    <3>0. \A q \in Scored' : q \in Deliveries
      BY DEF Scored
    <3>1. CASE \A q \in Scored' : prediction[q].createdAt <= prediction[c].createdAt
      BY <1>8, <3>0, <3>1
    <3>2. CASE \E q \in Scored' : ~(prediction[q].createdAt <= prediction[c].createdAt)
      <4>1. Scored # {}
        BY <1>2, <1>10, <3>2
      <4>2. PICK p \in Scored : \A q \in Scored :
              prediction[q].createdAt <= prediction[p].createdAt
        BY <4>1 DEF HasLatest
      <4>3. p \in Scored' /\ p \in Deliveries
        BY <1>10 DEF Scored
      <4>4. CASE prediction[d].state = "open" /\ prediction[p].createdAt < prediction[d].createdAt
        <5>1. d \in Scored'
          BY <1>10, <4>4
        <5>2. ASSUME NEW q \in Scored'
              PROVE  prediction[q].createdAt <= prediction[d].createdAt
          <6>1. q = d \/ prediction[q].createdAt <= prediction[p].createdAt
            BY <1>10, <4>2
          <6> QED
            BY <1>2, <3>0, <4>3, <4>4, <6>1
        <5> QED
          BY <1>8, <3>0, <5>1, <5>2
      <4>5. CASE ~(prediction[d].state = "open"
                     /\ prediction[p].createdAt < prediction[d].createdAt)
        <5>1. ASSUME NEW q \in Scored'
              PROVE  prediction[q].createdAt <= prediction[p].createdAt
          <6>1. \/ q \in Scored
                \/ q = d /\ prediction[d].state = "open"
            BY <1>10
          <6> QED
            BY <1>2, <4>2, <4>3, <4>5, <6>1
        <5> QED
          BY <1>8, <3>0, <4>3, <5>1
      <4> QED
        BY <4>4, <4>5
    <3> QED
      BY <3>1, <3>2
  <2> QED
    BY <1>1, <2>1 DEF HasLatest
<1>13. Rows'
  <2>1. Stage(d)' /\ Justified(d)' /\ Queued(d)'
    BY <1>2, <1>3, <1>5, <1>7 DEF Stage, Justified, Queued
  <2>2. OwnItem(d)'
    <3>1. item'[d].of = item[d].of
      BY <1>2, <1>3, <1>7
    <3>2. item'[d].state # "none" => item'[d].state = prediction'[d].state
      BY <1>2, <1>3, <1>5, <1>7 DEF Committed, Row
    <3>3. item'[d].state # "none" => item[d].state # "none"
      BY <1>2, <1>3, <1>7
    <3> QED
      BY <1>5, <3>1, <3>2, <3>3 DEF OwnItem
  <2>3. ASSUME NEW e \in Deliveries, e # d
        PROVE  Stage(e)' /\ Justified(e)' /\ OwnItem(e)' /\ Queued(e)'
    <3>1. prediction'[e] = prediction[e] /\ score'[e] = score[e] /\ item'[e] = item[e]
      BY <1>6, <2>3
    <3>2. Scored \subseteq Scored' /\ Scored \subseteq Deliveries
      BY <1>10 DEF Scored
    <3>3. Stage(e)' /\ Justified(e)' /\ OwnItem(e)'
      BY <3>1, <3>2 DEF Rows, Stage, Justified, OwnItem
    <3>4. Queued(e)'
      BY <1>8, <3>1, <3>2 DEF Rows, Queued
    <3> QED
      BY <3>3, <3>4
  <2> QED
    BY <2>1, <2>2, <2>3 DEF Rows
<1>14. \A i \in Queue : i \in Queue' /\ item'[i].of = item[i].of
  <2> SUFFICES ASSUME NEW i \in Queue PROVE i \in Queue' /\ item'[i].of = item[i].of
    OBVIOUS
  <2>1. i \in Deliveries /\ item[i].state = "committed"
    BY DEF Queue
  <2>2. item'[i] = item[i]
    BY <1>6, <1>7, <2>1 DEF Committed
  <2> QED
    BY <2>1, <2>2 DEF Queue
<1>15. NewestIsQueued'
  <2> SUFFICES ASSUME NEW p \in Scored',
                      \A q \in Scored' : prediction'[q].createdAt <= prediction'[p].createdAt
               PROVE  \E i \in Queue' : item'[i].of = p
    BY DEF NewestIsQueued, Scored
  <2>0. p \in Deliveries /\ \A q \in Scored' : q \in Deliveries
    BY DEF Scored
  <2>1. \A q \in Scored' : prediction[q].createdAt <= prediction[p].createdAt
    BY <1>8, <2>0
  <2>2. CASE p \in Scored
    <3>1. \A q \in Deliveries : prediction[q].state = "committed" =>
            prediction[q].createdAt <= prediction[p].createdAt
      BY <1>10, <2>1 DEF Scored
    <3>2. PICK i \in Queue : item[i].of = p
      BY <2>0, <2>2, <3>1 DEF NewestIsQueued, Scored
    <3> QED
      BY <1>14, <3>2
  <2>3. CASE p \notin Scored
    <3>1. p = d /\ prediction[d].state = "open"
      BY <1>10, <2>3
    <3>2. ASSUME NEW q \in Scored, prediction[q].createdAt > prediction[d].createdAt
          PROVE  FALSE
      <4>1. q \in Scored' /\ q \in Deliveries
        BY <1>10 DEF Scored
      <4>2. prediction[q].createdAt <= prediction[d].createdAt
        BY <2>1, <3>1, <4>1
      <4> QED
        BY <1>2, <3>2, <4>1, <4>2
    <3>3. item[d].state = "open"
      BY <1>1, <3>1, <3>2 DEF Rows, Queued
    <3>4. item'[d].state = "committed" /\ item'[d].of = d
      BY <1>2, <1>3, <1>5, <1>7, <3>3 DEF Committed, Row
    <3> QED
      BY <3>1, <3>4 DEF Queue
  <2> QED
    BY <2>2, <2>3
<1>16. ScoredIsQueued'
  <2>1. Scored' # {}
    BY <1>1, <1>10 DEF Rows, Justified
  <2>2. PICK p \in Scored' : \A q \in Scored' :
          prediction'[q].createdAt <= prediction'[p].createdAt
    BY <1>12, <2>1 DEF HasLatest
  <2>3. Queue' # {}
    BY <1>15, <2>2 DEF NewestIsQueued, Scored
  <2> QED
    BY <2>3 DEF ScoredIsQueued
<1> QED
  BY <1>4, <1>11, <1>12, <1>13, <1>15, <1>16

\* Only open rows are rolled back, and nobody else can see them.
LEMMA RollBackStep ==
  ASSUME SInv, NEW d \in Deliveries, RollBack(d)
  PROVE  SInv'
<1> USE DEF SInv
<1> DEFINE again == IF score[d].retries < MaxScoreRetries
                    THEN [Unscored EXCEPT !.retries = score[d].retries + 1]
                    ELSE [Unscored EXCEPT !.pc = "done", !.retries = score[d].retries]
<1>1. /\ score[d].pc \in {"scoring", "predicted", "queued"} /\ score[d] \in ScoreState
      /\ prediction' = [prediction EXCEPT ![d] = NoRow]
      /\ item' = [item EXCEPT ![d] = NoRow]
      /\ score' = [score EXCEPT ![d] = again]
      /\ UNCHANGED <<processingState, runStatus, task, snapshot, sent, time>>
  BY DEF RollBack, vars, Types, ScoringTypeOK
<1>2. /\ prediction \in [Deliveries -> Row] /\ item \in [Deliveries -> Row]
      /\ score \in [Deliveries -> ScoreState] /\ time \in Nat
  BY DEF Types, TypeOK, ScoringTypeOK
<1>3. again \in ScoreState /\ again.pc \in {"idle", "done"}
  <2>1. score[d].retries \in 0..MaxScoreRetries
    BY <1>1 DEF ScoreState
  <2>2. score[d].retries < MaxScoreRetries => score[d].retries + 1 \in 0..MaxScoreRetries
    BY <2>1, ScoringAssumption
  <2> QED
    BY <2>1, <2>2 DEF Unscored, ScoreState
<1> HIDE DEF again
<1>4. Types'
  <2>1. TypeOK' /\ TaskHasRun'
    BY <1>1 DEF Types, TypeOK, TaskHasRun
  <2>2. NoRow \in Row
    BY DEF NoRow, Row
  <2> QED
    BY <1>1, <1>2, <1>3, <2>1, <2>2 DEF Types, ScoringTypeOK
<1>5. /\ score'[d] = again /\ prediction'[d] = NoRow /\ item'[d] = NoRow
      /\ \A e \in Deliveries : e # d => /\ prediction'[e] = prediction[e]
                                        /\ item'[e] = item[e] /\ score'[e] = score[e]
  BY <1>1, <1>2
<1>6. NoRow.state = "none" /\ NoRow.createdAt = 0
  BY DEF NoRow
<1>7. prediction[d].state # "committed" /\ item[d].state # "committed"
  BY <1>1 DEF Rows, Stage, OwnItem
<1>8. UNCHANGED Scored /\ \A p \in Scored : p \in Deliveries /\ prediction'[p] = prediction[p]
  BY <1>5, <1>6, <1>7 DEF Scored
<1>9. UNCHANGED Queue /\ \A i \in Queue : item'[i] = item[i]
  BY <1>5, <1>6, <1>7 DEF Queue
<1>10. Clock' /\ UniqueKey'
  BY <1>1, <1>2, <1>5, <1>6 DEF Clock, UniqueKey
<1>11. HasLatest'
  BY <1>1, <1>8 DEF HasLatest
<1>12. Rows'
  <2>1. Stage(d)' /\ Justified(d)' /\ OwnItem(d)' /\ Queued(d)'
    BY <1>3, <1>5, <1>6 DEF Stage, Justified, OwnItem, Queued
  <2>2. ASSUME NEW e \in Deliveries, e # d
        PROVE  Stage(e)' /\ Justified(e)' /\ OwnItem(e)' /\ Queued(e)'
    <3>1. prediction'[e] = prediction[e] /\ score'[e] = score[e] /\ item'[e] = item[e]
      BY <1>5, <2>2
    <3> QED
      BY <1>8, <3>1 DEF Rows, Stage, Justified, OwnItem, Queued
  <2> QED
    BY <2>1, <2>2 DEF Rows
<1>13. NewestIsQueued'
  <2> SUFFICES ASSUME NEW p \in Scored',
                      \A q \in Scored' : prediction'[q].createdAt <= prediction'[p].createdAt
               PROVE  \E i \in Queue' : item'[i].of = p
    BY DEF NewestIsQueued, Scored
  <2>1. p \in Scored /\ \A q \in Scored : prediction[q].createdAt <= prediction[p].createdAt
    BY <1>8
  <2>2. PICK i \in Queue : item[i].of = p
    BY <2>1 DEF NewestIsQueued, Scored
  <2> QED
    BY <1>9, <2>2
<1>14. ScoredIsQueued'
  BY <1>1, <1>9 DEF ScoredIsQueued
<1> QED
  BY <1>4, <1>10, <1>11, <1>12, <1>13, <1>14

\* The inductive invariant holds of validation and scoring together.
THEOREM ScoringInvariance == ScoringSpec => []SInv
<1>1. ASSUME SInv, [ScoringNext]_allVars PROVE SInv'
  <2>1. CASE [Next]_vars /\ UNCHANGED scoreVars
    BY <1>1, <2>1, ValidationStep
  <2>2. ASSUME NEW d \in Deliveries, Score(d) PROVE SInv'
    BY <1>1, <2>2, ReadStep, InsertStep, HydrateStep, CommitStep, RollBackStep DEF Score
  <2> QED
    BY <1>1, <2>1, <2>2 DEF ScoringNext, allVars
<1>2. SInv /\ [ScoringNext]_allVars => SInv'
  BY <1>1
<1> QED
  BY <1>2, ScoringInitially, PTL DEF ScoringSpec

\* The types of the scoring; no scoring is retried more than MaxScoreRetries times.
THEOREM ScoringTypeCorrect == ScoringSpec => []ScoringTypeOK
<1>1. SInv => ScoringTypeOK
  BY DEF SInv, Types
<1> QED
  BY <1>1, ScoringInvariance, PTL

\* hydrate_review_queue (queue.py:48-56) puts a snapshot into the queue once.
THEOREM NoDuplicateItems == ScoringSpec => []OneItemPerSnapshot
BY OneItem, ScoringInvariance, PTL

\* The newest prediction of a case is in its queue as soon as it is visible.
THEOREM NewestReachesQueue == ScoringSpec => []NewestIsQueued
<1>1. SInv => NewestIsQueued
  BY DEF SInv
<1> QED
  BY <1>1, ScoringInvariance, PTL

\* RISK_SCORED (risk_scoring_tasks.py:48) is never reached with an empty queue.
THEOREM ScoredReachesQueue == ScoringSpec => []ScoredIsQueued
<1>1. SInv => ScoredIsQueued
  BY DEF SInv
<1> QED
  BY <1>1, ScoringInvariance, PTL
-----------------------------------------------------------------------------
(*                     Rows in the order of their age                      *)

\* Finitely many rows, no two of one age.
Dated(age) ==
  /\ IsFiniteSet(DOMAIN age)
  /\ age \in [DOMAIN age -> Nat]
  /\ \A i, j \in DOMAIN age : age[i] = age[j] => i = j

Rank(age, i) == Cardinality(Older(age, i))

\* Whoever is older has fewer that are older than itself.
LEMMA OlderRanksLower ==
  ASSUME NEW age, Dated(age), NEW i \in DOMAIN age
  PROVE  /\ Rank(age, i) \in Nat /\ Rank(age, i) < Cardinality(DOMAIN age)
         /\ \A j \in DOMAIN age : age[j] < age[i] => Rank(age, j) < Rank(age, i)
<1> DEFINE D == DOMAIN age
<1>1. \A j \in D : age[j] \in Nat
  BY DEF Dated
<1>2. IsFiniteSet(D) /\ Cardinality(D) \in Nat
  BY FS_CardinalityType DEF Dated
<1>3. \A j \in D : Older(age, j) \in SUBSET D /\ j \notin Older(age, j)
  BY <1>1 DEF Older
<1> HIDE DEF D
<1>4. \A j \in D : IsFiniteSet(Older(age, j)) /\ Rank(age, j) \in Nat
  BY <1>2, <1>3, FS_Subset, FS_CardinalityType DEF Rank
<1>5. ASSUME NEW j \in D
      PROVE  /\ IsFiniteSet(Older(age, j) \cup {j})
             /\ Cardinality(Older(age, j) \cup {j}) = Rank(age, j) + 1
  BY <1>3, <1>4, FS_AddElement DEF Rank
<1>6. i \in D
  BY DEF D
<1>7. Rank(age, i) < Cardinality(D)
  <2>1. Older(age, i) \cup {i} \in SUBSET D
    BY <1>3, <1>6
  <2>2. Cardinality(Older(age, i) \cup {i}) <= Cardinality(D)
    BY <1>2, <2>1, FS_Subset
  <2> QED
    BY <1>2, <1>4, <1>5, <1>6, <2>2
<1>8. ASSUME NEW j \in D, age[j] < age[i]
      PROVE  Rank(age, j) < Rank(age, i)
  <2>1. Older(age, j) \cup {j} \in SUBSET Older(age, i)
    BY <1>1, <1>6, <1>8 DEF Older, D
  <2>2. Cardinality(Older(age, j) \cup {j}) <= Rank(age, i)
    BY <1>4, <1>6, <2>1, FS_Subset DEF Rank
  <2> QED
    BY <1>4, <1>5, <1>6, <2>2
<1> QED
  BY <1>4, <1>6, <1>7, <1>8 DEF D

\* The ranks are all the numbers below that of the rows, each once.
LEMMA RankIsPlace ==
  ASSUME NEW age, Dated(age)
  PROVE  /\ Cardinality(DOMAIN age) \in Nat
         /\ \A i, j \in DOMAIN age : Rank(age, i) = Rank(age, j) => i = j
         /\ \A n \in 1..Cardinality(DOMAIN age) : \E i \in DOMAIN age : Rank(age, i) = n - 1
<1> DEFINE D == DOMAIN age
           N == Cardinality(D)
           place == [i \in D |-> Rank(age, i) + 1]
<1>1. IsFiniteSet(D) /\ N \in Nat
  BY FS_CardinalityType DEF Dated
<1>2. \A i \in D : Rank(age, i) \in Nat /\ Rank(age, i) < N
  BY OlderRanksLower
<1>3. ASSUME NEW i \in D, NEW j \in D, Rank(age, i) = Rank(age, j)
      PROVE  i = j
  <2>1. age[i] \in Nat /\ age[j] \in Nat
    BY DEF Dated
  <2>2. ~(age[i] < age[j])
    BY <1>2, <1>3, OlderRanksLower
  <2>3. ~(age[j] < age[i])
    BY <1>2, <1>3, OlderRanksLower
  <2>4. age[i] = age[j]
    BY <2>1, <2>2, <2>3
  <2> QED
    BY <2>4 DEF Dated
<1> HIDE DEF D, N
<1>4. place \in Injection(D, 1..N)
  <2>1. place \in [D -> 1..N]
    BY <1>1, <1>2
  <2>2. ASSUME NEW i \in D, NEW j \in D, place[i] = place[j]
        PROVE  i = j
    BY <1>2, <1>3, <2>2
  <2> QED
    BY <2>1, <2>2 DEF Injection, IsInjective
<1>5. IsFiniteSet(1..N) /\ Cardinality(1..N) = N
  BY <1>1, FS_Interval
<1>6. place \in Surjection(D, 1..N)
  BY <1>4, <1>5, FS_Injection DEF N
<1>7. ASSUME NEW n \in 1..N
      PROVE  \E i \in D : Rank(age, i) = n - 1
  <2>1. PICK i \in D : place[i] = n
    BY <1>6 DEF Surjection
  <2> QED
    BY <1>1, <1>2, <2>1
<1> QED
  BY <1>1, <1>3, <1>7 DEF D, N

\* The n-th row is the one of rank n - 1.
LEMMA InOrderIsByRank ==
  ASSUME NEW age, Dated(age)
  PROVE  /\ InOrder(age) \in Seq(DOMAIN age) /\ Len(InOrder(age)) = Cardinality(DOMAIN age)
         /\ \A n \in 1..Cardinality(DOMAIN age) :
              InOrder(age)[n] \in DOMAIN age /\ Rank(age, InOrder(age)[n]) = n - 1
         /\ \A i \in DOMAIN age : InOrder(age)[Rank(age, i) + 1] = i
<1> DEFINE D == DOMAIN age
           N == Cardinality(D)
           q == InOrder(age)
<1>1. /\ N \in Nat
      /\ \A i, j \in D : Rank(age, i) = Rank(age, j) => i = j
      /\ \A n \in 1..N : \E i \in D : Rank(age, i) = n - 1
  BY RankIsPlace
<1>2. q = [n \in 1..N |-> CHOOSE i \in D : Rank(age, i) = n - 1]
  BY DEF InOrder, Rank
<1>3. \A i \in D : Rank(age, i) \in Nat /\ Rank(age, i) < N
  BY OlderRanksLower
<1> HIDE DEF D, N, q
<1>4. \A n \in 1..N : q[n] \in D /\ Rank(age, q[n]) = n - 1
  BY <1>1, <1>2
<1>5. \A i \in D : q[Rank(age, i) + 1] = i
  <2> SUFFICES ASSUME NEW i \in D PROVE q[Rank(age, i) + 1] = i
    OBVIOUS
  <2>1. PICK r \in Nat : r = Rank(age, i) /\ r + 1 \in 1..N /\ (r + 1) - 1 = r
    BY <1>1, <1>3
  <2> QED
    BY <1>1, <1>4, <2>1
<1>6. q \in Seq(D) /\ Len(q) = N
  <2>1. q \in [1..N -> D]
    BY <1>2, <1>4
  <2> QED
    BY <1>1, <2>1
<1> QED
  BY <1>4, <1>5, <1>6 DEF D, N, q

SortsIn(old, new, d) ==
  \E n \in 0..Len(InOrder(old)) :
    InOrder(new) = SubSeq(InOrder(old), 1, n) \o <<d>> \o SubSeq(InOrder(old), n + 1, Len(InOrder(old)))

\* One more row sorts in where its age puts it, and the others keep their order.
LEMMA ArrivalSortsIn ==
  ASSUME NEW old, NEW new, NEW d, Dated(old), Dated(new),
         d \notin DOMAIN old, DOMAIN new = DOMAIN old \cup {d},
         \A i \in DOMAIN old : new[i] = old[i]
  PROVE  SortsIn(old, new, d)
<1> DEFINE D == DOMAIN old
           N == Cardinality(D)
           q == InOrder(old)
           r == InOrder(new)
           n == Rank(new, d)
<1>1. /\ N \in Nat /\ IsFiniteSet(D) /\ Cardinality(D \cup {d}) = N + 1
      /\ \A i \in D : old[i] \in Nat /\ new[i] = old[i]
      /\ new[d] \in Nat
      /\ \A i \in D : new[i] # new[d]
  BY FS_CardinalityType, FS_AddElement DEF Dated
<1>2. /\ q \in Seq(D) /\ Len(q) = N
      /\ \A m \in 1..N : q[m] \in D /\ Rank(old, q[m]) = m - 1
  BY InOrderIsByRank
<1>3. /\ r \in Seq(D \cup {d}) /\ Len(r) = N + 1
      /\ \A i \in D \cup {d} : r[Rank(new, i) + 1] = i
  BY <1>1, InOrderIsByRank
<1>4. n \in 0..N
  BY <1>1, OlderRanksLower
<1>5. \A i \in D : Rank(old, i) \in Nat
  BY OlderRanksLower
<1>6. Older(new, d) = {j \in D : old[j] < new[d]}
  BY <1>1 DEF Older
<1>7. ASSUME NEW i \in D, old[i] < new[d]
      PROVE  Rank(new, i) = Rank(old, i) /\ Rank(old, i) < n
  <2>1. Older(new, i) = Older(old, i)
    BY <1>1, <1>7 DEF Older
  <2>2. Rank(new, i) < n
    BY <1>1, <1>7, OlderRanksLower
  <2> QED
    BY <2>1, <2>2 DEF Rank
<1>8. ASSUME NEW i \in D, ~(old[i] < new[d])
      PROVE  Rank(new, i) = Rank(old, i) + 1 /\ n <= Rank(old, i)
  <2>1. new[d] < old[i]
    BY <1>1, <1>8
  <2>2. Older(new, i) = Older(old, i) \cup {d}
    BY <1>1, <2>1 DEF Older
  <2>3. Older(old, i) \in SUBSET D /\ Older(new, d) \in SUBSET Older(old, i)
    BY <1>1, <1>6, <2>1 DEF Older
  <2>4. IsFiniteSet(Older(old, i)) /\ d \notin Older(old, i)
    BY <1>1, <2>3, FS_Subset
  <2>5. Cardinality(Older(new, i)) = Cardinality(Older(old, i)) + 1
    BY <2>2, <2>4, FS_AddElement
  <2>6. Cardinality(Older(new, d)) <= Cardinality(Older(old, i))
    BY <2>3, <2>4, FS_Subset
  <2> QED
    BY <2>5, <2>6 DEF Rank
<1> DEFINE before == SubSeq(q, 1, n)
           after == SubSeq(q, n + 1, Len(q))
<1> HIDE DEF D, N, q, r, n
<1>9. /\ before \in Seq(D \cup {d}) /\ Len(before) = n
      /\ \A m \in 1..n : before[m] = q[m]
  <2>1. \A m \in 1..n : q[m] \in D \cup {d}
    BY <1>1, <1>2, <1>4
  <2>2. /\ before \in Seq(D \cup {d}) /\ Len(before) = IF 1 <= n THEN n - 1 + 1 ELSE 0
        /\ \A m \in 1..n - 1 + 1 : before[m] = q[1 + m - 1]
    BY <1>4, <2>1, SubSeqProperties
  <2> HIDE DEF before
  <2> QED
    BY <1>1, <1>4, <2>2
<1>10. /\ after \in Seq(D \cup {d}) /\ Len(after) = N - n
       /\ \A m \in 1..N - n : after[m] = q[n + m]
  <2>1. \A m \in n + 1..N : q[m] \in D \cup {d}
    BY <1>1, <1>2, <1>4
  <2>2. after = SubSeq(q, n + 1, N)
    BY <1>2
  <2> HIDE DEF after
  <2>3. /\ after \in Seq(D \cup {d}) /\ Len(after) = IF n + 1 <= N THEN N - (n + 1) + 1 ELSE 0
        /\ \A m \in 1..N - (n + 1) + 1 : after[m] = q[(n + 1) + m - 1]
    BY <1>1, <1>4, <2>1, <2>2, SubSeqProperties
  <2>4. N - (n + 1) + 1 = N - n /\ (IF n + 1 <= N THEN N - (n + 1) + 1 ELSE 0) = N - n
    BY <1>1, <1>4
  <2>5. Len(after) = N - n
    BY <2>3, <2>4
  <2>6. ASSUME NEW m \in 1..N - n
        PROVE  after[m] = q[n + m]
    <3>1. m \in 1..N - (n + 1) + 1 /\ (n + 1) + m - 1 = n + m
      BY <1>1, <1>4, <2>4
    <3> QED
      BY <2>3, <3>1
  <2> QED
    BY <2>3, <2>5, <2>6
<1> HIDE DEF before, after
<1> DEFINE left == before \o <<d>>
           all == left \o after
<1>11. /\ left \in Seq(D \cup {d}) /\ Len(left) = n + 1 /\ left[n + 1] = d
       /\ \A m \in 1..n : left[m] = q[m]
  <2>1. <<d>> \in Seq(D \cup {d}) /\ Len(<<d>>) = 1 /\ <<d>>[1] = d
    OBVIOUS
  <2>2. /\ left \in Seq(D \cup {d}) /\ Len(left) = n + 1
        /\ \A m \in 1..n + 1 : left[m] = IF m <= n THEN before[m] ELSE <<d>>[m - n]
    BY <1>9, <2>1, ConcatProperties
  <2> HIDE DEF left
  <2> QED
    BY <1>4, <1>9, <2>1, <2>2
<1> HIDE DEF left
<1>12. /\ all \in Seq(D \cup {d}) /\ Len(all) = N + 1
       /\ \A m \in 1..N + 1 : all[m] = IF m <= n + 1 THEN left[m] ELSE after[m - (n + 1)]
  <2>1. /\ all \in Seq(D \cup {d}) /\ Len(all) = Len(left) + Len(after)
        /\ \A m \in 1..Len(left) + Len(after) :
             all[m] = IF m <= Len(left) THEN left[m] ELSE after[m - Len(left)]
    <3>1. left \in Seq(D \cup {d}) /\ after \in Seq(D \cup {d})
      BY <1>10, <1>11
    <3> QED
      BY <3>1, ConcatProperties, Zenon
  <2>2. Len(left) = n + 1 /\ Len(left) + Len(after) = N + 1
    BY <1>1, <1>4, <1>10, <1>11
  <2> HIDE DEF all
  <2> QED
    BY <2>1, <2>2
<1> HIDE DEF all
<1>13. ASSUME NEW m \in 1..N + 1
       PROVE  all[m] = r[m]
  <2>1. CASE m <= n
    <3>1. m \in 1..N /\ m \in 1..n
      BY <1>1, <1>4, <2>1
    <3>2. PICK i \in D : i = q[m] /\ Rank(old, i) = m - 1
      BY <1>2, <3>1
    <3>3. Rank(new, i) = m - 1
      BY <1>4, <1>5, <1>7, <1>8, <2>1, <3>2
    <3>4. r[m] = i
      BY <1>3, <3>3
    <3> QED
      BY <1>4, <1>11, <1>12, <3>1, <3>2, <3>4
  <2>2. CASE m = n + 1
    <3>1. r[n + 1] = d
      BY <1>3 DEF n
    <3> QED
      BY <1>4, <1>11, <1>12, <2>2, <3>1
  <2>3. CASE m > n + 1
    <3>1. m - 1 \in 1..N /\ m - (n + 1) \in 1..N - n /\ n + (m - (n + 1)) = m - 1
      BY <1>1, <1>4, <2>3
    <3>2. PICK i \in D : i = q[m - 1] /\ Rank(old, i) = m - 2
      BY <1>2, <3>1
    <3>3. Rank(new, i) = m - 1
      BY <1>4, <1>5, <1>7, <1>8, <2>3, <3>2
    <3>4. r[m] = i
      BY <1>3, <3>3
    <3>5. all[m] = after[m - (n + 1)]
      BY <1>4, <1>12, <2>3
    <3>6. after[m - (n + 1)] = q[m - 1]
      BY <1>10, <3>1
    <3> QED
      BY <3>2, <3>4, <3>5, <3>6
  <2> QED
    BY <1>4, <2>1, <2>2, <2>3
<1>14. r = all
  BY <1>3, <1>12, <1>13, SeqEqual
<1> QED
  BY <1>2, <1>4, <1>14 DEF q, r, all, left, before, after, SortsIn
-----------------------------------------------------------------------------
(*                       What the review of a case sees                    *)

Arrived == [i \in Queue |-> item[i].createdAt]

\* Items are stamped one after the other, and there are finitely many.
Stamped ==
  /\ \A i \in Deliveries : item[i].createdAt <= time
  /\ \A i, j \in Deliveries :
       /\ item[i].state # "none" /\ item[j].state # "none"
       /\ item[i].createdAt = item[j].createdAt
       => i = j

QueueIsFinite == IsFiniteSet(Queue)

QInv == Stamped /\ QueueIsFinite

LEMMA QueueInitially == Init /\ ScoringInit => QInv /\ Review!Init
<1> SUFFICES ASSUME Init, ScoringInit PROVE QInv /\ Review!Init
  OBVIOUS
<1>1. Stamped
  BY DEF Stamped, Init, ScoringInit, NoRow
<1>2. Queue = {}
  BY DEF Queue, ScoringInit, NoRow
<1>3. QueueIsFinite
  BY <1>2, FS_EmptySet DEF QueueIsFinite
<1>4. DOMAIN Arrived = {}
  BY <1>2 DEF Arrived
<1>5. InOrder(Arrived) = <<>>
  <2>1. Cardinality(DOMAIN Arrived) = 0
    BY <1>4, FS_EmptySet
  <2>2. 1..0 = {}
    OBVIOUS
  <2> QED
    BY <2>1, <2>2 DEF InOrder
<1>6. [i \in Deliveries |-> [recommendation |-> "REVIEW", hardBlock |-> FALSE]]
        \in [Deliveries -> Review!Verdicts]
  BY DEF Review!Verdicts
<1>7. Review!Init
  BY <1>5, <1>6 DEF Review!Init, Arrived
<1> QED
  BY <1>1, <1>3, <1>7 DEF QInv

LEMMA RowsAreDated ==
  ASSUME NEW table \in [Deliveries -> Row], NEW there \in SUBSET Deliveries, IsFiniteSet(there),
         \A i \in there : table[i].state # "none",
         \A i, j \in Deliveries :
           /\ table[i].state # "none" /\ table[j].state # "none"
           /\ table[i].createdAt = table[j].createdAt
           => i = j
  PROVE  Dated([i \in there |-> table[i].createdAt])
<1> DEFINE age == [i \in there |-> table[i].createdAt]
<1>1. DOMAIN age = there /\ \A i \in there : age[i] = table[i].createdAt
  OBVIOUS
<1>2. \A i \in there : table[i].createdAt \in Nat
  BY DEF Row
<1>3. age \in [there -> Nat]
  BY <1>2
<1> HIDE DEF age
<1>4. Dated(age)
  BY <1>1, <1>3 DEF Dated
<1> QED
  BY <1>4 DEF age

\* A step that commits no item: what is in the queue stays as it is.
QueueStays == Queue' = Queue /\ \A i \in Queue : item'[i] = item[i]

LEMMA StaysUnseen ==
  ASSUME QueueStays
  PROVE  (QueueIsFinite => QueueIsFinite') /\ UNCHANGED Review!vars
<1>1. Arrived' = Arrived
  BY DEF QueueStays, Arrived
<1>2. UNCHANGED Review!vars
  BY <1>1 DEF Arrived, Review!vars
<1> QED
  BY <1>2 DEF QueueStays, QueueIsFinite

\* The item of a task that commits arrives, wherever its created_at puts it.
LEMMA CommitArrives ==
  ASSUME SInv, QInv, NEW d \in Deliveries, CommitScore(d)
  PROVE  QInv' /\ [Review!Next]_(Review!vars)
<1>1. /\ item \in [Deliveries -> Row]
      /\ item' = [item EXCEPT ![d] = Committed(item[d])] /\ time' = time
  BY DEF CommitScore, SInv, Types, ScoringTypeOK
<1>2. PICK row \in Row : row = item[d]
  BY <1>1
<1>3. /\ Committed(row).createdAt = row.createdAt
      /\ (Committed(row).state = "none") <=> (row.state = "none")
      /\ (Committed(row).state = "committed") <=> (row.state # "none")
  BY DEF Committed, Row
<1>4. /\ item'[d] = Committed(row)
      /\ \A e \in Deliveries : e # d => item'[e] = item[e]
  BY <1>1, <1>2
<1>5. Stamped'
  <2>1. \A e \in Deliveries : /\ item'[e].createdAt = item[e].createdAt
                              /\ (item'[e].state = "none") <=> (item[e].state = "none")
    BY <1>2, <1>3, <1>4
  <2> QED
    BY <1>1, <2>1 DEF QInv, Stamped
<1>6. d \notin Queue
  BY DEF CommitScore, SInv, Rows, Stage, OwnItem, Queue
<1>7. CASE row.state = "none"
  <2>1. QueueStays
    BY <1>2, <1>3, <1>4, <1>6, <1>7 DEF Queue, QueueStays
  <2> QED
    BY <1>5, <2>1, StaysUnseen DEF QInv
<1>8. CASE row.state # "none"
  <2>1. Queue' = Queue \cup {d}
    BY <1>3, <1>4, <1>8 DEF Queue
  <2>2. QueueIsFinite'
    <3>1. IsFiniteSet(Queue \cup {d})
      BY FS_AddElement DEF QInv, QueueIsFinite
    <3> QED
      BY <2>1, <3>1 DEF QueueIsFinite
  <2>3. QInv'
    BY <1>5, <2>2 DEF QInv
  <2>4. Dated(Arrived) /\ DOMAIN Arrived = Queue
    BY <1>1, RowsAreDated DEF QInv, QueueIsFinite, Stamped, Queue, Arrived
  <2>5. Dated(Arrived') /\ DOMAIN Arrived' = Queue'
    <3>1. item' \in [Deliveries -> Row]
      BY CommitStep DEF SInv, Types, ScoringTypeOK
    <3> QED
      BY <2>3, <3>1, RowsAreDated DEF QInv, QueueIsFinite, Stamped, Queue, Arrived
  <2>6. \A i \in Queue : Arrived'[i] = Arrived[i]
    BY <1>4, <1>6, <2>1 DEF Arrived, Queue
  <2>7. PICK old, new : old = Arrived /\ new = Arrived'
    OBVIOUS
  <2>8. PICK n \in 0..Len(InOrder(old)) :
          InOrder(new) = SubSeq(InOrder(old), 1, n) \o <<d>>
                           \o SubSeq(InOrder(old), n + 1, Len(InOrder(old)))
    <3>1. /\ Dated(old) /\ Dated(new) /\ d \notin DOMAIN old /\ DOMAIN new = DOMAIN old \cup {d}
          /\ \A i \in DOMAIN old : new[i] = old[i]
      BY <1>6, <2>1, <2>4, <2>5, <2>6, <2>7
    <3>2. SortsIn(old, new, d)
      BY <3>1, ArrivalSortsIn
    <3> QED
      BY <3>2 DEF SortsIn
  <2>9. d \notin {InOrder(old)[m] : m \in 1..Len(InOrder(old))}
    BY <1>6, <2>4, <2>7, InOrderIsByRank
  <2>10. Review!Enqueue(d, n)
    BY <2>7, <2>8, <2>9 DEF Review!Enqueue, Review!Queued, Arrived
  <2>11. Review!Next
    BY <2>7, <2>10 DEF Review!Next, Arrived
  <2> QED
    BY <2>3, <2>11
<1> QED
  BY <1>7, <1>8

\* An item that is not committed yet is stamped, or taken back.
LEMMA OthersUnseen ==
  ASSUME SInv, QInv, NEW d \in Deliveries,
         ReadSnapshot(d) \/ NoChampion(d) \/ InsertPrediction(d) \/ HydrateReviewQueue(d) \/ RollBack(d)
  PROVE  Stamped' /\ QueueStays
<1>1. /\ item \in [Deliveries -> Row] /\ time \in Nat
      /\ \A e \in Deliveries : item[e].createdAt \in Nat
  BY DEF SInv, Types, TypeOK, ScoringTypeOK, Row
<1>2. ASSUME UNCHANGED item, time' \in {time, time + 1}
      PROVE  Stamped' /\ QueueStays
  BY <1>1, <1>2 DEF QInv, Stamped, QueueStays, Queue
<1>3. CASE ReadSnapshot(d) \/ NoChampion(d) \/ InsertPrediction(d)
  BY <1>2, <1>3 DEF ReadSnapshot, NoChampion, InsertPrediction, vars
<1>4. CASE HydrateReviewQueue(d)
  <2>1. item[d].state = "none"
    BY <1>4 DEF HydrateReviewQueue, SInv, Rows, Stage
  <2>2. PICK p : \/ UNCHANGED <<item, time>>
                 \/ /\ time' = time + 1
                    /\ item' = [item EXCEPT ![d] = [state |-> "open", of |-> p, createdAt |-> time']]
    BY <1>4 DEF HydrateReviewQueue
  <2>3. CASE UNCHANGED <<item, time>>
    BY <1>2, <2>3
  <2>4. ASSUME time' = time + 1,
               item' = [item EXCEPT ![d] = [state |-> "open", of |-> p, createdAt |-> time']]
        PROVE  Stamped' /\ QueueStays
    <3>1. /\ item'[d].state = "open" /\ item'[d].createdAt = time + 1
          /\ \A e \in Deliveries : e # d => item'[e] = item[e]
      BY <1>1, <2>4
    <3>2. \A e \in Deliveries : item[e].createdAt # time + 1
      BY <1>1 DEF QInv, Stamped
    <3>3. Stamped'
      BY <1>1, <2>4, <3>1, <3>2 DEF QInv, Stamped
    <3>4. QueueStays
      BY <2>1, <3>1 DEF Queue, QueueStays
    <3> QED
      BY <3>3, <3>4
  <2> QED
    BY <2>2, <2>3, <2>4
<1>5. CASE RollBack(d)
  <2>1. item[d].state # "committed"
    BY <1>5 DEF RollBack, SInv, Rows, Stage, OwnItem
  <2>2. /\ item'[d].state = "none" /\ item'[d].createdAt = 0 /\ time' = time
        /\ \A e \in Deliveries : e # d => item'[e] = item[e]
    BY <1>1, <1>5 DEF RollBack, NoRow, vars
  <2>3. Stamped'
    BY <1>1, <2>2 DEF QInv, Stamped
  <2>4. QueueStays
    BY <2>1, <2>2 DEF Queue, QueueStays
  <2> QED
    BY <2>3, <2>4
<1> QED
  BY <1>3, <1>4, <1>5

\* The validation gives out times, and no items.
LEMMA ValidationUnseen ==
  ASSUME SInv, QInv, [Next]_vars, UNCHANGED scoreVars
  PROVE  Stamped' /\ QueueStays
<1>1. /\ time \in Nat /\ \A e \in Deliveries : item[e].createdAt \in Nat
  BY DEF SInv, Types, TypeOK, ScoringTypeOK, Row
<1>2. time' \in {time, time + 1}
  BY DEF vars, Next, MarkReady, Request, Execute, Skip, RefuseCase, AcceptCase, Claim,
         ClaimFails, ReadForPersist, Persist, PersistNothing, Fail, ReadForReset, Reset, Die
<1> QED
  BY <1>1, <1>2 DEF scoreVars, QInv, Stamped, QueueStays, Queue

LEMMA ScoringStepIsReviewStep ==
  ASSUME SInv, QInv, [ScoringNext]_allVars
  PROVE  QInv' /\ [Review!Next]_(Review!vars)
<1>1. ASSUME Stamped', QueueStays
      PROVE  QInv' /\ [Review!Next]_(Review!vars)
  BY <1>1, StaysUnseen DEF QInv
<1>2. CASE [Next]_vars /\ UNCHANGED scoreVars
  BY <1>1, <1>2, ValidationUnseen
<1>3. ASSUME NEW d \in Deliveries, Score(d)
      PROVE  QInv' /\ [Review!Next]_(Review!vars)
  BY <1>1, <1>3, OthersUnseen, CommitArrives DEF Score
<1> QED
  BY <1>2, <1>3 DEF ScoringNext, allVars

\* To the review, the scoring of a case is the Enqueue of CaseReview, for any
\* number of runs and tasks, whatever is delivered twice, retried and rolled back
\* (services/review/queue.py:48-56).
THEOREM ScoringFeeds == ScoringSpec => FeedsReview
<1>1. Init /\ ScoringInit => QInv /\ Review!Init
  BY QueueInitially
<1>2. SInv /\ QInv /\ [ScoringNext]_allVars => QInv' /\ [Review!Next]_(Review!vars)
  BY ScoringStepIsReviewStep
<1> QED
  BY <1>1, <1>2, ScoringInvariance, PTL DEF ScoringSpec, FeedsReview, Review!Spec
=============================================================================
