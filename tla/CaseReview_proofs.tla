------------------------- MODULE CaseReview_proofs -------------------------
(***************************************************************************)
(* Theorems about CaseReview for every set of items and approvers, every   *)
(* verdict and either side of the amount threshold.                        *)
(*                                                                         *)
(* PendingIsFirstApproval and SubmitIsApproved are not inductive: what the *)
(* second approval confirms, and what a DONE item was decided by, is only  *)
(* known from the whole history of the item.  ItemInv describes the log in *)
(* each of the three queue states.                                         *)
(***************************************************************************)
EXTENDS CaseReview, SequenceTheorems, TLAPS

Gated(i, a) == RequiresDualApproval(verdict[i], a)

ItemInv(i) ==
  /\ status[i] = "PENDING" => pending[i] = 0 /\ log[i] = <<>>
  /\ status[i] = "PENDING_SECOND_APPROVAL" =>
       pending[i] = 1 /\ Len(log[i]) = 1 /\ Gated(i, log[i][1].action)
  /\ status[i] = "DONE" =>
       /\ pending[i] = 0 /\ Len(log[i]) # 0
       /\ Gated(i, Final(i).action) =>
            /\ Len(log[i]) = 2
            /\ log[i][1].action = log[i][2].action
            /\ log[i][1].reviewer # log[i][2].reviewer
  /\ \A n \in 1..Len(log[i]) : Justified(i, log[i][n].action, log[i][n].justified)

Inv == TypeOK /\ \A i \in Items : ItemInv(i)

-----------------------------------------------------------------------------
(* A new item, wherever created_at sorts it, leaves a sequence of items.   *)
LEMMA EnqueueType ==
  ASSUME TypeOK, NEW i \in Items, NEW n \in 0..Len(queue), Enqueue(i, n)
  PROVE  TypeOK'
<1>1. queue \in Seq(Items) /\ Len(queue) \in Nat /\ n \in Nat /\ n <= Len(queue)
  BY LenProperties DEF TypeOK
<1>2. SubSeq(queue, 1, n) \in Seq(Items)
  BY <1>1, SubSeqProperties
<1>3. SubSeq(queue, n + 1, Len(queue)) \in Seq(Items)
  BY <1>1, SubSeqProperties
<1>4. <<i>> \in Seq(Items)
  OBVIOUS
<1>5. queue' \in Seq(Items)
  BY <1>2, <1>3, <1>4, ConcatProperties DEF Enqueue
<1> QED
  BY <1>5 DEF Enqueue, TypeOK, Answers

(* What recording an action does to the logs.                              *)
LEMMA Recorded ==
  ASSUME TypeOK, NEW i \in Items, NEW u \in Approvers, NEW a \in Actions,
         NEW justified \in BOOLEAN, Record(i, u, a, justified)
  PROVE  /\ log'[i] \in Seq(LogEntry)
         /\ Len(log'[i]) = Len(log[i]) + 1 /\ Len(log[i]) \in Nat
         /\ \A n \in 1..Len(log[i]) : log'[i][n] = log[i][n]
         /\ log'[i][Len(log[i]) + 1] = Entry(u, a, justified)
         /\ \A x \in Items : x # i => log'[x] = log[x]
<1>1. log[i] \in Seq(LogEntry) /\ Entry(u, a, justified) \in LogEntry
  BY DEF TypeOK, Entry, LogEntry
<1>2. log' = [log EXCEPT ![i] = Append(log[i], Entry(u, a, justified))]
  BY DEF Record
<1>3. log'[i] = Append(log[i], Entry(u, a, justified))
  BY <1>2 DEF TypeOK
<1>4. \A x \in Items : x # i => log'[x] = log[x]
  BY <1>2 DEF TypeOK
<1> QED
  BY <1>1, <1>3, <1>4, AppendProperties, LenProperties

LEMMA InitInv == Init => Inv
<1> SUFFICES ASSUME Init PROVE Inv
  OBVIOUS
<1>1. TypeOK
  BY DEF Init, TypeOK, Answers
<1>2. ASSUME NEW i \in Items PROVE ItemInv(i)
  BY <1>2 DEF Init, ItemInv
<1> QED
  BY <1>1, <1>2 DEF Inv

(* Any step that records an action on one item, described by what it does  *)
(* to that item: the other items keep theirs.                              *)
LEMMA StepOfItem ==
  ASSUME Inv, NEW i \in Items, NEW u \in Approvers, NEW a \in Actions,
         NEW justified \in BOOLEAN,
         Record(i, u, a, justified), Justified(i, a, justified),
         status' = [status EXCEPT ![i] = status'[i]],
         pending' = [pending EXCEPT ![i] = pending'[i]],
         status[i] # "DONE",
         \/ /\ status[i] = "PENDING" /\ Gated(i, a)
            /\ status'[i] = "PENDING_SECOND_APPROVAL" /\ pending'[i] = 1
         \/ /\ status'[i] = "DONE" /\ pending'[i] = 0
            /\ Gated(i, a) => /\ status[i] = "PENDING_SECOND_APPROVAL"
                              /\ a = First(i).action /\ u # First(i).reviewer
  PROVE  Inv'
<1>1. /\ log'[i] \in Seq(LogEntry)
      /\ Len(log'[i]) = Len(log[i]) + 1 /\ Len(log[i]) \in Nat
      /\ \A n \in 1..Len(log[i]) : log'[i][n] = log[i][n]
      /\ log'[i][Len(log[i]) + 1] = Entry(u, a, justified)
      /\ \A x \in Items : x # i => log'[x] = log[x]
  BY Recorded DEF Inv
<1>2. /\ status'[i] \in {"PENDING_SECOND_APPROVAL", "DONE"} /\ pending'[i] \in 0..1
      /\ verdict' = verdict /\ queue' = queue
      /\ \A x \in Items : x # i => status'[x] = status[x] /\ pending'[x] = pending[x]
  BY DEF Inv, TypeOK, Record
<1>3. ItemInv(i) /\ status[i] \in {"PENDING", "PENDING_SECOND_APPROVAL"}
  BY DEF Inv, TypeOK
<1>4. Len(log[i]) \in 0..1 /\ (status[i] = "PENDING" => Len(log[i]) = 0)
  BY <1>3 DEF ItemInv
<1>5. TypeOK'
  <2>1. log' \in [Items -> Seq(LogEntry)]
    BY <1>1 DEF Record, Inv, TypeOK
  <2>2. ASSUME NEW x \in Items
        PROVE  Len(log'[x]) <= 2
    <3>1. CASE x = i
      BY <1>1, <1>4, <3>1
    <3>2. CASE x # i
      BY <1>1, <3>2 DEF Inv, TypeOK
    <3> QED
      BY <3>1, <3>2
  <2> QED
    BY <2>1, <2>2, <1>2 DEF Inv, TypeOK, Record, Answers
<1>6. ItemInv(i)'
  <2>1. ASSUME NEW n \in 1..Len(log'[i])
        PROVE  Justified(i, log[i][n].action, log[i][n].justified)'
    <3>1. CASE n = Len(log[i]) + 1
      BY <1>1, <1>2, <3>1 DEF Justified, Entry
    <3>2. CASE n \in 1..Len(log[i])
      BY <1>1, <1>2, <1>3, <3>2 DEF Justified, ItemInv
    <3> QED
      BY <1>1, <3>1, <3>2
  <2>2. CASE status'[i] = "PENDING_SECOND_APPROVAL"
    BY <1>1, <1>2, <1>4, <2>1, <2>2 DEF ItemInv, Gated, Entry
  <2>3. CASE status'[i] = "DONE" /\ ~Gated(i, a)
    BY <1>1, <1>2, <2>1, <2>3 DEF ItemInv, Gated, Entry, Final
  <2>4. CASE status'[i] = "DONE" /\ Gated(i, a)
    <3>1. Len(log[i]) = 1 /\ First(i) = log[i][1]
      BY <1>3, <2>4 DEF ItemInv, First
    <3>2. log'[i][1] = log[i][1] /\ log'[i][2] = Entry(u, a, justified) /\ Len(log'[i]) = 2
      BY <1>1, <3>1
    <3> QED
      BY <1>1, <1>2, <2>1, <2>4, <3>1, <3>2 DEF ItemInv, Gated, Entry, Final
  <2> QED
    BY <2>2, <2>3, <2>4
<1>7. ASSUME NEW x \in Items, x # i PROVE ItemInv(x)'
  BY <1>1, <1>2, <1>7 DEF Inv, ItemInv, Gated, Final, Justified
<1> QED
  BY <1>5, <1>6, <1>7 DEF Inv

(* One step, by the branches of submit_review_action.                      *)
LEMMA StepInv == Inv /\ [Next]_vars => Inv'
<1> SUFFICES ASSUME Inv, [Next]_vars PROVE Inv'
  OBVIOUS
<1>1. ASSUME UNCHANGED <<queue, status, verdict, pending, log>>, answer' \in Answers
      PROVE  Inv'
  BY <1>1 DEF Inv, TypeOK, ItemInv, Gated, Final, Justified
<1>2. ASSUME NEW i \in Items, NEW n \in 0..Len(queue), Enqueue(i, n)
      PROVE  Inv'
  <2>1. TypeOK'
    BY <1>2, EnqueueType DEF Inv
  <2>2. UNCHANGED <<status, verdict, pending, log>>
    BY <1>2 DEF Enqueue
  <2> QED
    BY <2>1, <2>2 DEF Inv, ItemInv, Gated, Final, Justified
<1>3. ASSUME NEW i \in Items, NEW u \in Approvers, NEW a \in Actions,
             NEW justified \in BOOLEAN, SubmitReviewAction(i, u, a, justified)
      PROVE  Inv'
  <2>1. ItemInv(i)
    BY DEF Inv
  <2>2. CASE AlreadyDone(i) \/ RefuseSecond(i, u, a, justified) \/ RefuseFirst(i, a, justified)
    BY <1>1, <2>2 DEF AlreadyDone, RefuseSecond, RefuseFirst, Refuse, Answers
  <2>3. CASE Escalate(i, u, a, justified)
    <3>1. ~Gated(i, a) /\ Justified(i, a, justified)
      BY <2>3 DEF Escalate, Gated, RequiresDualApproval, Approvals, Justified, NeedsOverride
    <3>2. /\ Record(i, u, a, justified) /\ status[i] # "DONE"
          /\ status' = [status EXCEPT ![i] = "DONE"] /\ pending' = [pending EXCEPT ![i] = 0]
      BY <2>3 DEF Escalate
    <3>3. status'[i] = "DONE" /\ pending'[i] = 0
      BY <3>2 DEF Inv, TypeOK
    <3> QED
      BY <3>1, <3>2, <3>3, StepOfItem
  <2>4. CASE SecondApproval(i, u, a, justified)
    <3>1. /\ Record(i, u, a, justified) /\ Justified(i, a, justified)
          /\ status[i] = "PENDING_SECOND_APPROVAL"
          /\ a = First(i).action /\ u # First(i).reviewer
          /\ status' = [status EXCEPT ![i] = "DONE"] /\ pending' = [pending EXCEPT ![i] = 0]
      BY <2>4 DEF SecondApproval
    <3>2. status'[i] = "DONE" /\ pending'[i] = 0
      BY <3>1 DEF Inv, TypeOK
    <3> QED
      BY <3>1, <3>2, StepOfItem
  <2>5. CASE FirstApproval(i, u, a, justified)
    <3>1. /\ Record(i, u, a, justified) /\ Justified(i, a, justified)
          /\ status[i] = "PENDING" /\ Gated(i, a)
          /\ status' = [status EXCEPT ![i] = "PENDING_SECOND_APPROVAL"]
      BY <2>5 DEF FirstApproval, Gated
    <3>2. Len(log[i]) = 0
      BY <2>1, <3>1 DEF ItemInv
    <3>3. pending' = [pending EXCEPT ![i] = 1]
      BY <2>5, <3>2 DEF FirstApproval
    <3>4. status'[i] = "PENDING_SECOND_APPROVAL" /\ pending'[i] = 1
      BY <3>1, <3>3 DEF Inv, TypeOK
    <3> QED
      BY <3>1, <3>3, <3>4, StepOfItem
  <2>6. CASE Finalize(i, u, a, justified)
    <3>1. /\ Record(i, u, a, justified) /\ Justified(i, a, justified)
          /\ status[i] = "PENDING" /\ ~Gated(i, a)
          /\ status' = [status EXCEPT ![i] = "DONE"] /\ pending' = pending
      BY <2>6 DEF Finalize, Gated
    <3>2. pending' = [pending EXCEPT ![i] = 0]
      BY <2>1, <3>1 DEF ItemInv, Inv, TypeOK
    <3>3. status'[i] = "DONE" /\ pending'[i] = 0
      BY <3>1, <3>2 DEF Inv, TypeOK
    <3> QED
      BY <3>1, <3>2, <3>3, StepOfItem
  <2> QED
    BY <1>3, <2>2, <2>3, <2>4, <2>5, <2>6 DEF SubmitReviewAction
<1>4. Queued \subseteq Items
  BY ElementOfSeq DEF Queued, Inv, TypeOK
<1>5. CASE NoItem
  BY <1>1, <1>5 DEF NoItem, Refuse, Answers
<1>6. CASE UNCHANGED vars
  BY <1>1, <1>6 DEF vars, Inv, TypeOK
<1> QED
  BY <1>2, <1>3, <1>4, <1>5, <1>6 DEF Next

THEOREM Invariance == Spec => []Inv
  BY InitInv, StepInv, PTL DEF Spec

(* Types, and no item ever has more than two actions.                      *)
THEOREM TypeCorrect == Spec => []TypeOK
<1>1. Inv => TypeOK
  BY DEF Inv
<1> QED
  BY <1>1, Invariance, PTL

(* The pointer to the first approval is set exactly while the second one   *)
(* is awaited, and points at the only action of the item.                  *)
THEOREM PendingIsFirst == Spec => []PendingIsFirstApproval
<1>1. ASSUME Inv, NEW i \in Items
      PROVE  /\ (pending[i] # 0) <=> (status[i] = "PENDING_SECOND_APPROVAL")
             /\ pending[i] # 0 => /\ pending[i] = 1 /\ Len(log[i]) = 1
                                  /\ RequiresDualApproval(verdict[i], log[i][1].action)
  <2>1. ItemInv(i) /\ status[i] \in {"PENDING", "PENDING_SECOND_APPROVAL", "DONE"}
    BY <1>1 DEF Inv, TypeOK
  <2> QED
    BY <2>1 DEF ItemInv, Gated
<1>2. Inv => PendingIsFirstApproval
  BY <1>1 DEF PendingIsFirstApproval
<1> QED
  BY <1>2, Invariance, PTL

(* Whenever H-10 allows a contest to be submitted, the newest item has     *)
(* been approved by two people if that is required, and every contradiction*)
(* of the model on it is justified.                                        *)
THEOREM SubmitApproved == Spec => []SubmitIsApproved
<1>1. ASSUME Inv, SubmissionAction = "submit"
      PROVE  LET l == log[Newest]  v == verdict[Newest] IN
             /\ RequiresDualApproval(v, "APPROVE_CONTEST") =>
                  \E m, n \in 1..Len(l) : /\ l[m].reviewer # l[n].reviewer
                                          /\ l[m].action = "APPROVE_CONTEST"
                                          /\ l[n].action = "APPROVE_CONTEST"
             /\ \A n \in 1..Len(l) : NeedsOverride(v, l[n].action) => l[n].justified
  <2>1. /\ queue # <<>> /\ status[Newest] = "DONE" /\ Final(Newest).action = "APPROVE_CONTEST"
    BY <1>1 DEF SubmissionAction
  <2>2. Newest \in Items
    BY <1>1, <2>1, EmptySeq, LenProperties, ElementOfSeq DEF Newest, Inv, TypeOK
  <2>3. PICK i \in Items : i = Newest
    BY <2>2
  <2>4. ItemInv(i)
    BY <1>1 DEF Inv
  <2>5. \A n \in 1..Len(log[i]) : NeedsOverride(verdict[i], log[i][n].action) => log[i][n].justified
    BY <2>4 DEF ItemInv, Justified
  <2>6. ASSUME RequiresDualApproval(verdict[i], "APPROVE_CONTEST")
        PROVE  \E m, n \in 1..Len(log[i]) : /\ log[i][m].reviewer # log[i][n].reviewer
                                            /\ log[i][m].action = "APPROVE_CONTEST"
                                            /\ log[i][n].action = "APPROVE_CONTEST"
    <3>1. /\ Len(log[i]) = 2
          /\ log[i][1].action = "APPROVE_CONTEST" /\ log[i][2].action = "APPROVE_CONTEST"
          /\ log[i][1].reviewer # log[i][2].reviewer
      BY <2>1, <2>3, <2>4, <2>6 DEF ItemInv, Gated, Final
    <3> QED
      BY <3>1
  <2> QED
    BY <2>3, <2>5, <2>6
<1>2. Inv => SubmitIsApproved
  BY <1>1 DEF SubmitIsApproved
<1> QED
  BY <1>2, Invariance, PTL

-----------------------------------------------------------------------------
(* An item that is DONE is never touched again.                            *)
LEMMA DoneFrozen ==
  ASSUME TypeOK, [Next]_vars, NEW x \in Items, status[x] = "DONE"
  PROVE  status'[x] = "DONE" /\ log'[x] = log[x]
<1>1. ASSUME NEW i \in Items, NEW u \in Approvers, NEW a \in Actions,
             NEW justified \in BOOLEAN, SubmitReviewAction(i, u, a, justified), x # i
      PROVE  status'[x] = status[x] /\ log'[x] = log[x]
  BY <1>1 DEF SubmitReviewAction, AlreadyDone, Escalate, RefuseSecond, SecondApproval,
              RefuseFirst, FirstApproval, Finalize, Refuse, Record, TypeOK
<1>2. ASSUME NEW u \in Approvers, NEW a \in Actions,
             NEW justified \in BOOLEAN, SubmitReviewAction(x, u, a, justified)
      PROVE  UNCHANGED <<status, log>>
  BY <1>2 DEF SubmitReviewAction, AlreadyDone, Escalate, RefuseSecond, SecondApproval,
              RefuseFirst, FirstApproval, Finalize, Refuse
<1>3. Queued \subseteq Items
  BY ElementOfSeq DEF Queued, TypeOK
<1>4. CASE UNCHANGED <<status, log>>
  BY <1>4
<1> QED
  BY <1>1, <1>2, <1>3, <1>4 DEF Next, Enqueue, NoItem, Refuse, vars

(* The permission to submit is withdrawn by a newer item only.             *)
THEOREM SubmitIsStable == Spec => SubmitStands
<1>1. ASSUME Inv, [Next]_vars, SubmissionAction = "submit", Newest' = Newest
      PROVE  SubmissionAction' = "submit"
  <2>1. /\ queue # <<>> /\ status[Newest] = "DONE" /\ log[Newest] # <<>>
        /\ Final(Newest).action = "APPROVE_CONTEST"
    BY <1>1 DEF SubmissionAction
  <2>2. Newest \in Items
    BY <1>1, <2>1, EmptySeq, LenProperties, ElementOfSeq DEF Newest, Inv, TypeOK
  <2>3. PICK i \in Items : i = Newest
    BY <2>2
  <2>4. status'[i] = "DONE" /\ log'[i] = log[i]
    BY <1>1, <2>1, <2>3, DoneFrozen DEF Inv
  <2>5. queue' # <<>>
    <3>1. ASSUME NEW x \in Items, NEW n \in 0..Len(queue), Enqueue(x, n)
          PROVE  queue' # <<>>
      <4>1. /\ queue \in Seq(Items) /\ n \in Nat /\ n <= Len(queue) /\ Len(queue) \in Nat
        BY <1>1, LenProperties DEF Inv, TypeOK
      <4>0. /\ SubSeq(queue, 1, n) \in Seq(Items)
            /\ SubSeq(queue, n + 1, Len(queue)) \in Seq(Items)
        BY <4>1, SubSeqProperties
      <4>2. PICK s \in Seq(Items) : s = SubSeq(queue, 1, n)
        BY <4>0
      <4>3. PICK t \in Seq(Items) : t = SubSeq(queue, n + 1, Len(queue))
        BY <4>0
      <4>4. queue' = s \o <<x>> \o t
        BY <3>1, <4>2, <4>3 DEF Enqueue
      <4>5. Len(s) \in Nat /\ Len(t) \in Nat
        BY LenProperties
      <4>6. Len(s \o <<x>> \o t) # 0
        BY <4>5, ConcatProperties
      <4>7. Len(<<>>) = 0
        OBVIOUS
      <4> QED
        BY <4>4, <4>6, <4>7
    <3>2. CASE queue' = queue
      BY <2>1, <3>2
    <3> QED
      BY <1>1, <3>1, <3>2
      DEF Next, NoItem, SubmitReviewAction, AlreadyDone, Escalate, RefuseSecond, SecondApproval,
          RefuseFirst, FirstApproval, Finalize, Refuse, Record, vars
  <2> QED
    BY <1>1, <2>1, <2>3, <2>4, <2>5 DEF SubmissionAction, Final
<1>2. Inv /\ [Next]_vars =>
        [SubmissionAction = "submit" => (SubmissionAction' = "submit" \/ Newest' # Newest)]_vars
  BY <1>1
<1> QED
  BY <1>2, Invariance, PTL DEF Spec, SubmitStands
-----------------------------------------------------------------------------
(* Who stands for the last of one and of two actions.                      *)
LEMMA NamesOfLog ==
  ASSUME NEW l \in Seq(LogEntry)
  PROVE  /\ Len(l) = 0 => Names(l) = {}
         /\ Len(l) = 1 => Names(l) = {<<l[1].reviewer, l[1].action>>}
         /\ Len(l) = 2 /\ l[1].action = l[2].action =>
              Names(l) = {<<l[1].reviewer, l[1].action>>} \cup {<<l[2].reviewer, l[2].action>>}
         /\ Len(l) = 2 /\ l[1].action # l[2].action =>
              Names(l) = {<<l[2].reviewer, l[2].action>>}
<1>1. CASE Len(l) = 0
  BY <1>1 DEF Names
<1>2. CASE Len(l) = 1
  <2>1. 1..Len(l) = {1}
    BY <1>2
  <2> QED
    BY <1>2, <2>1 DEF Names
<1>3. CASE Len(l) = 2
  <2>1. 1..Len(l) = {1, 2}
    BY <1>3
  <2>2. CASE l[1].action = l[2].action
    <3>1. { m \in 1..Len(l) : l[m].action = l[Len(l)].action } = {1, 2}
      BY <1>3, <2>1, <2>2
    <3> QED
      BY <1>3, <2>2, <3>1 DEF Names
  <2>3. CASE l[1].action # l[2].action
    <3>1. { m \in 1..Len(l) : l[m].action = l[Len(l)].action } = {2}
      BY <1>3, <2>1, <2>3
    <3> QED
      BY <1>3, <2>3, <3>1 DEF Names
  <2> QED
    BY <2>2, <2>3
<1> QED
  BY <1>1, <1>2, <1>3

(* Every request maps to a step of FourEyes or to no step at all.          *)
LEMMA StepOfEyes ==
  ASSUME Inv, Inv', NEW i \in Items, NEW u \in Approvers, NEW a \in Actions,
         NEW justified \in BOOLEAN, SubmitReviewAction(i, u, a, justified)
  PROVE  Eyes!Next \/ UNCHANGED <<queue, status, verdict, pending, log>>
<1>1. CASE AlreadyDone(i) \/ RefuseSecond(i, u, a, justified) \/ RefuseFirst(i, a, justified)
  BY <1>1 DEF AlreadyDone, RefuseSecond, RefuseFirst, Refuse
<1>2. ASSUME Record(i, u, a, justified), status[i] # "DONE",
             status' = [status EXCEPT ![i] = status'[i]]
      PROVE  /\ log'[i] \in Seq(LogEntry) /\ log[i] \in Seq(LogEntry)
             /\ Len(log'[i]) = Len(log[i]) + 1 /\ Len(log[i]) \in 0..1
             /\ Len(log[i]) = 1 => log'[i][1] = log[i][1]
             /\ log'[i][Len(log'[i])] = Entry(u, a, justified)
             /\ Decision(i) = "open"
             /\ (status'[i] = "DONE" => Decision(i)' = a)
             /\ (status'[i] # "DONE" => Decision(i)' = "open")
             /\ \A x \in Items : x # i => Names(log'[x]) = Names(log[x]) /\ Decision(x)' = Decision(x)
             /\ verdict' = verdict
  <2>1. /\ log'[i] \in Seq(LogEntry)
        /\ Len(log'[i]) = Len(log[i]) + 1 /\ Len(log[i]) \in Nat
        /\ \A n \in 1..Len(log[i]) : log'[i][n] = log[i][n]
        /\ log'[i][Len(log[i]) + 1] = Entry(u, a, justified)
        /\ \A x \in Items : x # i => log'[x] = log[x]
    BY <1>2, Recorded DEF Inv
  <2>2. \A x \in Items : x # i => status'[x] = status[x]
    BY <1>2 DEF Inv, TypeOK
  <2>3. log[i] \in Seq(LogEntry) /\ Len(log'[i]) <= 2
    BY DEF Inv, TypeOK
  <2>4. Len(log[i]) \in 0..1
    <3>1. PICK k \in Nat : k = Len(log[i])
      BY <2>1
    <3>2. Len(log'[i]) = k + 1
      BY <2>1, <3>1
    <3>3. k + 1 <= 2
      BY <2>3, <3>2
    <3>4. k \in 0..1
      BY <3>3
    <3> QED
      BY <3>1, <3>4, Zenon
  <2> QED
    BY <1>2, <2>1, <2>2, <2>3, <2>4 DEF Decision, Final, Entry, Record
<1>3. CASE Escalate(i, u, a, justified) \/ Finalize(i, u, a, justified)
  <2>1. /\ Record(i, u, a, justified) /\ status[i] # "DONE"
        /\ status' = [status EXCEPT ![i] = "DONE"]
        /\ ~Gated(i, a)
        /\ a = "ESCALATE" \/ log[i] = <<>>
    BY <1>3 DEF Escalate, Finalize, Gated, RequiresDualApproval, Approvals, Inv, ItemInv
  <2>2. status'[i] = "DONE"
    BY <2>1 DEF Inv, TypeOK
  <2>3. Len(log[i]) = 1 => log[i][1].action # a
    <3>1. CASE Len(log[i]) = 1 /\ a = "ESCALATE" /\ status[i] = "PENDING_SECOND_APPROVAL"
      BY <3>1 DEF Inv, ItemInv, Gated, RequiresDualApproval, Approvals
    <3>2. status[i] = "PENDING" => Len(log[i]) = 0
      BY DEF Inv, ItemInv
    <3>3. log[i] = <<>> => Len(log[i]) # 1
      OBVIOUS
    <3>4. status[i] \in {"PENDING", "PENDING_SECOND_APPROVAL"}
      BY <2>1 DEF Inv, TypeOK
    <3> QED
      BY <2>1, <3>1, <3>2, <3>3, <3>4
  <2>4. /\ log'[i] \in Seq(LogEntry) /\ Len(log'[i]) = Len(log[i]) + 1 /\ Len(log[i]) \in 0..1
        /\ Len(log[i]) = 1 => log'[i][1] = log[i][1]
        /\ log'[i][Len(log'[i])] = Entry(u, a, justified)
    BY <1>2, <2>1, <2>2
  <2>5. log'[i][Len(log'[i])].action = a /\ log'[i][Len(log'[i])].reviewer = u
    BY <2>4 DEF Entry
  <2>6. Names(log'[i]) = {<<u, a>>}
    <3>1. CASE Len(log[i]) = 0
      <4>1. Len(log'[i]) = 1
        BY <2>4, <3>1
      <4> QED
        BY <2>4, <2>5, <4>1, NamesOfLog
    <3>2. CASE Len(log[i]) = 1
      <4>1. Len(log'[i]) = 2
        BY <2>4, <3>2
      <4>2. log'[i][1].action # log'[i][2].action
        BY <2>3, <2>4, <2>5, <3>2, <4>1
      <4> QED
        BY <2>4, <2>5, <4>1, <4>2, NamesOfLog
    <3> QED
      BY <2>4, <3>1, <3>2
  <2>7. Eyes!Decide(i, u, a)
    BY <1>2, <2>1, <2>2, <2>6 DEF Eyes!Decide, Gated
  <2> QED
    BY <2>7 DEF Eyes!Next
<1>4. CASE SecondApproval(i, u, a, justified)
  <2>1. /\ Record(i, u, a, justified) /\ status[i] = "PENDING_SECOND_APPROVAL"
        /\ status' = [status EXCEPT ![i] = "DONE"]
        /\ a = First(i).action /\ u # First(i).reviewer
    BY <1>4 DEF SecondApproval
  <2>2. /\ status'[i] = "DONE" /\ Len(log[i]) = 1 /\ First(i) = log[i][1]
        /\ log[i][1].reviewer \in Approvers
    <3>1. Len(log[i]) = 1 /\ First(i) = log[i][1] /\ status'[i] = "DONE"
      BY <2>1 DEF Inv, ItemInv, First, TypeOK
    <3>2. log[i] \in Seq(LogEntry)
      BY DEF Inv, TypeOK
    <3>3. log[i][1] \in LogEntry
      BY <3>1, <3>2, ElementOfSeq
    <3> QED
      BY <3>1, <3>3 DEF LogEntry
  <2>3. /\ log'[i] \in Seq(LogEntry) /\ log[i] \in Seq(LogEntry) /\ Len(log'[i]) = 2
        /\ log'[i][1] = log[i][1]
        /\ log'[i][2].action = a /\ log'[i][2].reviewer = u
    <3>1. /\ log'[i] \in Seq(LogEntry) /\ log[i] \in Seq(LogEntry)
          /\ Len(log'[i]) = Len(log[i]) + 1
          /\ log'[i][1] = log[i][1] /\ log'[i][Len(log'[i])] = Entry(u, a, justified)
      BY <1>2, <2>1, <2>2
    <3>2. Len(log'[i]) = 2
      BY <2>2, <3>1
    <3> QED
      BY <3>1, <3>2 DEF Entry
  <2>4. /\ Names(log[i]) = {<<log[i][1].reviewer, a>>}
        /\ Names(log'[i]) = Names(log[i]) \cup {<<u, a>>}
    BY <2>1, <2>2, <2>3, NamesOfLog
  <2>5. Eyes!Confirm(i, u, a)
    BY <1>2, <2>1, <2>2, <2>4 DEF Eyes!Confirm
  <2> QED
    BY <2>5 DEF Eyes!Next
<1>5. CASE FirstApproval(i, u, a, justified)
  <2>1. /\ Record(i, u, a, justified) /\ status[i] = "PENDING" /\ Gated(i, a)
        /\ status' = [status EXCEPT ![i] = "PENDING_SECOND_APPROVAL"]
    BY <1>5 DEF FirstApproval, Gated
  <2>2. Len(log[i]) = 0 /\ status'[i] = "PENDING_SECOND_APPROVAL"
    BY <2>1 DEF Inv, ItemInv, TypeOK
  <2>3. /\ log'[i] \in Seq(LogEntry) /\ log[i] \in Seq(LogEntry) /\ Len(log'[i]) = 1
        /\ log'[i][1].action = a /\ log'[i][1].reviewer = u
    <3>1. /\ log'[i] \in Seq(LogEntry) /\ log[i] \in Seq(LogEntry)
          /\ Len(log'[i]) = Len(log[i]) + 1
          /\ log'[i][Len(log'[i])] = Entry(u, a, justified)
      BY <1>2, <2>1, <2>2
    <3>2. Len(log'[i]) = 1
      BY <2>2, <3>1
    <3> QED
      BY <3>1, <3>2 DEF Entry
  <2>4. Names(log[i]) = {} /\ Names(log'[i]) = {<<u, a>>}
    BY <2>2, <2>3, NamesOfLog
  <2>5. Eyes!Propose(i, u, a)
    BY <1>2, <2>1, <2>2, <2>4 DEF Eyes!Propose, Gated
  <2> QED
    BY <2>5 DEF Eyes!Next
<1> QED
  BY <1>1, <1>3, <1>4, <1>5 DEF SubmitReviewAction

(* The review of a case implements the four-eyes promise, whatever the     *)
(* verdicts, the threshold and the order in which items and requests come. *)
THEOREM Refinement == Spec => KeepsFourEyes
<1>1. Init => Eyes!Init
  <2> SUFFICES ASSUME Init PROVE Eyes!Init
    OBVIOUS
  <2>1. ASSUME NEW x \in Items PROVE Names(log[x]) = {} /\ Decision(x) = "open"
    <3>1. log[x] \in Seq(LogEntry) /\ Len(log[x]) = 0
      BY DEF Init
    <3> QED
      BY <3>1, NamesOfLog DEF Init, Decision
  <2> QED
    BY <2>1 DEF Eyes!Init
<1>2. Inv /\ Inv' /\ [Next]_vars => [Eyes!Next]_(Eyes!vars)
  <2> SUFFICES ASSUME Inv, Inv', [Next]_vars PROVE [Eyes!Next]_(Eyes!vars)
    OBVIOUS
  <2>1. ASSUME UNCHANGED <<status, verdict, log>>
        PROVE  UNCHANGED Eyes!vars
    BY <2>1 DEF Eyes!vars, Decision, Final
  <2>2. Queued \subseteq Items
    BY ElementOfSeq DEF Queued, Inv, TypeOK
  <2>3. ASSUME NEW i \in Queued, NEW u \in Approvers, NEW a \in Actions,
               NEW justified \in BOOLEAN, SubmitReviewAction(i, u, a, justified)
        PROVE  Eyes!Next \/ UNCHANGED Eyes!vars
    BY <2>1, <2>2, <2>3, StepOfEyes
  <2>4. ASSUME NEW i \in Items, NEW n \in 0..Len(queue), Enqueue(i, n)
        PROVE  UNCHANGED Eyes!vars
    BY <2>1, <2>4 DEF Enqueue
  <2>5. CASE NoItem \/ UNCHANGED vars
    BY <2>1, <2>5 DEF NoItem, Refuse, vars
  <2> QED
    BY <2>3, <2>4, <2>5 DEF Next
<1> QED
  BY <1>1, <1>2, Invariance, PTL DEF Spec, KeepsFourEyes, Eyes!Spec
=============================================================================
