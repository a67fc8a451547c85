----------------------- MODULE OutboxDispatch_proofs -----------------------
(***************************************************************************)
(* Theorems about OutboxDispatch for every set of packages, documents and  *)
(* workers and every number of attempts, whichever workers may die.        *)
(*                                                                         *)
(* AtMostOnceApplied is not inductive: what rules out a second application *)
(* is that a row is claimed again only while Razorpay has neither applied  *)
(* its earlier request nor still holds it.  Quiet says that of a row; the  *)
(* invariant Inv ties it to the status of the row and to the state of the  *)
(* one worker that may hold it.                                            *)
(***************************************************************************)
EXTENDS OutboxDispatch, TLAPS

Quiet(r) == applied[r] = 0 /\ \A n \in 1..MaxAttempts : <<r, n>> \notin wire

\* What a worker in the middle of a dispatch may rely on.
HolderInv(w) ==
  LET r == worker[w].row IN
  /\ r \in Rows
  /\ status[r] = "PROCESSING"
  /\ worker[w].no = attemptCount[r]
  /\ worker[w].pc = "claimed" => Quiet(r)
  /\ worker[w].pc = "waiting" => <<r, worker[w].no>> \in wire
  /\ worker[w].pc = "answered" => worker[w].result # "none"
  /\ worker[w].pc = "answered" /\ worker[w].result = "OK" => applied[r] = 1
  /\ worker[w].pc = "answered" /\ worker[w].result \in {"RATE_LIMITED", "REJECTED", "LINK_MISSING"}
       => Quiet(r)

WorkerInv == \A w \in Workers : worker[w].pc # "idle" => HolderInv(w)

\* The claim is exclusive.
Exclusive ==
  \A v, w \in Workers :
    worker[v].pc # "idle" /\ worker[w].pc # "idle" /\ worker[v].row = worker[w].row => v = w

RowInv ==
  \A r \in Rows :
    /\ status[r] \in {"ABSENT", "PENDING"} => attemptCount[r] = 0 /\ Quiet(r)
    /\ status[r] \notin {"ABSENT", "PENDING"} => attemptCount[r] # 0
    /\ status[r] = "FAILED" /\ nextAttemptAt[r] # NULL => Quiet(r)
    /\ status[r] = "SENT" => applied[r] = 1
    /\ applied[r] \in {0, 1}

WireInv == \A q \in wire : applied[q[1]] = 0 /\ q[2] = attemptCount[q[1]]

Inv == TypeOK /\ WorkerInv /\ Exclusive /\ RowInv /\ WireInv

-----------------------------------------------------------------------------
(* The initial states. *)
LEMMA InitInv == Init => Inv
  BY ConstantsAssumption
  DEF Init, Inv, TypeOK, WorkerInv, Exclusive, RowInv, WireInv, Quiet, Idle,
      WorkerState, AttemptRecord, Outcomes

(* An answer leaves a well-typed worker. *)
LEMMA AnsweredType ==
  ASSUME NEW s \in WorkerState, NEW outcome \in Outcomes
  PROVE  [s EXCEPT !.pc = "answered", !.result = outcome] \in WorkerState
<1>1. [s EXCEPT !.pc = "answered"] \in WorkerState
  BY DEF WorkerState
<1>2. ASSUME NEW t \in WorkerState PROVE [t EXCEPT !.result = outcome] \in WorkerState
  BY DEF WorkerState
<1> QED
  BY <1>1, <1>2

LEMMA WaitingType ==
  ASSUME NEW s \in WorkerState
  PROVE  [s EXCEPT !.pc = "waiting"] \in WorkerState
BY DEF WorkerState

(* Type correctness of one step; it needs the invariant where a counter or *)
(* a time is computed.                                                     *)
LEMMA StepTypeOK == Inv /\ [Next]_vars => TypeOK'
<1> SUFFICES ASSUME Inv, [Next]_vars PROVE TypeOK'
  OBVIOUS
<1> USE ConstantsAssumption
<1>0. \A w \in Workers : worker[w].pc # "idle" =>
        /\ worker[w].row \in Rows
        /\ worker[w].no = attemptCount[worker[w].row]
        /\ worker[w].no \in 1..MaxAttempts
  <2> TAKE w \in Workers
  <2> HAVE worker[w].pc # "idle"
  <2>1. HolderInv(w) /\ worker[w].no \in 0..MaxAttempts
    BY DEF Inv, WorkerInv, TypeOK, WorkerState
  <2>2. attemptCount[worker[w].row] # 0
    BY <2>1 DEF Inv, RowInv, HolderInv
  <2> QED
    BY <2>1, <2>2 DEF HolderInv
<1>1. ASSUME NEW p \in Packages, NEW docs \in SUBSET Documents, CreatePackage(p, docs)
      PROVE  TypeOK'
  BY <1>1 DEF Inv, CreatePackage, TypeOK
<1>2. ASSUME NEW p \in Packages, NEW action \in Actions, WriteOutbox(p, action)
      PROVE  TypeOK'
  BY <1>2 DEF Inv, WriteOutbox, TypeOK
<1>3. ASSUME NEW w \in Workers, NEW r \in Rows, NEW t \in 0..now, Claim(w, r, t)
      PROVE  TypeOK'
  <2> DEFINE n == attemptCount[r] + 1
  <2>1. n \in 1..MaxAttempts /\ t \in Nat
    BY <1>3 DEF Inv, Claim, Claimable, TypeOK, RowInv
  <2>2. [startedAt |-> t, code |-> "OPEN"] \in AttemptRecord
    BY <2>1 DEF AttemptRecord
  <2>3. attempts' \in [Rows -> [1..MaxAttempts -> AttemptRecord]]
    BY <1>3, <2>1, <2>2 DEF Inv, Claim, TypeOK
  <2>4. worker' \in [Workers -> WorkerState]
    BY <1>3, <2>1 DEF Inv, Claim, TypeOK, WorkerState
  <2>5. /\ status' \in [Rows -> {"ABSENT", "PENDING", "PROCESSING", "SENT", "FAILED"}]
        /\ attemptCount' \in [Rows -> 0..MaxAttempts]
    BY <1>3, <2>1 DEF Inv, Claim, TypeOK
  <2> QED
    BY <1>3, <2>3, <2>4, <2>5 DEF Inv, Claim, TypeOK
<1>a. ASSUME NEW w \in Workers, NEW outcome \in Outcomes, Answer(w, outcome)
      PROVE  worker' \in [Workers -> WorkerState]
  <2>1. worker[w] \in WorkerState /\ worker \in [Workers -> WorkerState]
    BY DEF Inv, TypeOK
  <2>2. [worker[w] EXCEPT !.pc = "answered", !.result = outcome] \in WorkerState
    BY <2>1, AnsweredType
  <2> QED
    BY <1>a, <2>1, <2>2 DEF Answer
<1>4. ASSUME NEW w \in Workers, RefuseLocally(w)
      PROVE  TypeOK'
  <2>1. worker' \in [Workers -> WorkerState]
    BY <1>4, <1>a DEF RefuseLocally, Outcomes
  <2> QED
    BY <1>4, <2>1 DEF Inv, RefuseLocally, db, TypeOK
<1>5. ASSUME NEW w \in Workers, FindLinkMissing(w)
      PROVE  TypeOK'
  <2>1. worker' \in [Workers -> WorkerState]
    BY <1>5, <1>a DEF FindLinkMissing, Outcomes
  <2> QED
    BY <1>5, <2>1 DEF Inv, FindLinkMissing, db, TypeOK
<1>6. ASSUME NEW w \in Workers, Send(w)
      PROVE  TypeOK'
  <2>1. wire' \subseteq Rows \X (1..MaxAttempts)
    BY <1>0, <1>6 DEF Inv, Send, TypeOK
  <2>2. worker' \in [Workers -> WorkerState]
    <3>1. worker \in [Workers -> WorkerState] /\ [worker[w] EXCEPT !.pc = "waiting"] \in WorkerState
      BY WaitingType DEF Inv, TypeOK
    <3> QED
      BY <1>6, <3>1 DEF Send
  <2> QED
    BY <1>6, <2>1, <2>2 DEF Inv, Send, db, TypeOK
<1>7. ASSUME NEW q \in wire, RazorpayApplies(q)
      PROVE  TypeOK'
  <2>1. q[1] \in Rows
    BY DEF Inv, TypeOK
  <2>2. applied' \in [Rows -> Nat] /\ wire' \subseteq Rows \X (1..MaxAttempts)
    BY <1>7, <2>1 DEF Inv, RazorpayApplies, TypeOK
  <2>3. worker' \in [Workers -> WorkerState]
    <3>1. PICK outcome \in Outcomes : Reply(q, outcome)
      BY <1>7 DEF RazorpayApplies, Outcomes
    <3>2. ASSUME NEW v \in Workers
          PROVE  [worker[v] EXCEPT !.pc = "answered", !.result = outcome] \in WorkerState
      BY AnsweredType DEF Inv, TypeOK
    <3> QED
      BY <3>1, <3>2 DEF Inv, Reply, TypeOK
  <2> QED
    BY <1>7, <2>2, <2>3 DEF Inv, RazorpayApplies, db, TypeOK
<1>8. ASSUME NEW q \in wire, RazorpayRefuses(q)
      PROVE  TypeOK'
  <2>1. wire' \subseteq Rows \X (1..MaxAttempts)
    BY <1>8 DEF Inv, RazorpayRefuses, TypeOK
  <2>2. worker' \in [Workers -> WorkerState]
    <3>1. PICK outcome \in Outcomes : Reply(q, outcome)
      BY <1>8 DEF RazorpayRefuses, Outcomes
    <3>2. ASSUME NEW v \in Workers
          PROVE  [worker[v] EXCEPT !.pc = "answered", !.result = outcome] \in WorkerState
      BY AnsweredType DEF Inv, TypeOK
    <3> QED
      BY <3>1, <3>2 DEF Inv, Reply, TypeOK
  <2> QED
    BY <1>8, <2>1, <2>2 DEF Inv, RazorpayRefuses, db, TypeOK
<1>9. ASSUME NEW w \in Workers, TimeOut(w)
      PROVE  TypeOK'
  <2>1. worker' \in [Workers -> WorkerState]
    BY <1>9, <1>a DEF TimeOut, Outcomes
  <2> QED
    BY <1>9, <2>1 DEF Inv, TimeOut, db, TypeOK
<1>10. ASSUME NEW w \in Workers, CloseAttempt(w)
       PROVE  /\ attempts' \in [Rows -> [1..MaxAttempts -> AttemptRecord]]
              /\ worker' \in [Workers -> WorkerState]
  <2> DEFINE r == worker[w].row
             n == worker[w].no
  <2>1. r \in Rows /\ n \in 1..MaxAttempts /\ worker[w].result \in Outcomes
    BY <1>0, <1>10 DEF Inv, CloseAttempt, TypeOK, WorkerInv, HolderInv, WorkerState
  <2>2. [attempts[r][n] EXCEPT !.code = worker[w].result] \in AttemptRecord
    <3>1. attempts[r][n] \in AttemptRecord
      BY <2>1 DEF Inv, TypeOK
    <3> QED
      BY <2>1, <3>1 DEF AttemptRecord
  <2>3. [attempts[r] EXCEPT ![n] = [attempts[r][n] EXCEPT !.code = worker[w].result]]
          \in [1..MaxAttempts -> AttemptRecord]
    BY <2>1, <2>2 DEF Inv, TypeOK
  <2>4. attempts' = [attempts EXCEPT ![r] =
                       [attempts[r] EXCEPT ![n] =
                          [attempts[r][n] EXCEPT !.code = worker[w].result]]]
    BY <1>10 DEF CloseAttempt
  <2>5. attempts' \in [Rows -> [1..MaxAttempts -> AttemptRecord]]
    BY <2>1, <2>3, <2>4 DEF Inv, TypeOK
  <2> QED
    BY <1>10, <2>5 DEF Inv, CloseAttempt, TypeOK, WorkerState, Idle
<1>11. ASSUME NEW w \in Workers, RecordRetryable(w)
       PROVE  TypeOK'
  <2> DEFINE r == worker[w].row
             n == worker[w].no
  <2>1. r \in Rows /\ n = attemptCount[r] /\ n \in 1..MaxAttempts
    BY <1>0, <1>11 DEF RecordRetryable, CloseAttempt
  <2>2. attempts[r][n].startedAt \in Nat
    BY <2>1 DEF Inv, TypeOK, AttemptRecord
  <2>3. attempts[r][n].startedAt + Backoff(attemptCount[r]) \in Nat
    BY <2>1, <2>2, BackoffAssumption
  <2>4. nextAttemptAt' \in [Rows -> Nat \cup {NULL}]
    BY <1>11, <2>1, <2>3 DEF Inv, RecordRetryable, TypeOK
  <2>5. CloseAttempt(w)
    BY <1>11 DEF RecordRetryable
  <2> QED
    BY <1>10, <1>11, <2>4, <2>5 DEF Inv, RecordRetryable, CloseAttempt, TypeOK
<1>12. ASSUME NEW w \in Workers, RecordTerminal(w)
       PROVE  TypeOK'
  <2>1. CloseAttempt(w)
    BY <1>12 DEF RecordTerminal
  <2> QED
    BY <1>10, <1>12, <2>1 DEF Inv, RecordTerminal, CloseAttempt, TypeOK
<1>13. ASSUME NEW w \in Workers, RecordSent(w)
       PROVE  TypeOK'
  <2>1. CloseAttempt(w) /\ worker[w].row \in Rows
    BY <1>0, <1>13 DEF RecordSent, CloseAttempt
  <2>2. packageStatus' \in [Packages -> {"ABSENT", "DRAFT", "APPROVED", "SUBMITTED"}]
    BY <1>13 DEF Inv, RecordSent, TypeOK
  <2>3. recorded' \in [Rows -> Nat]
    BY <1>13, <2>1 DEF Inv, RecordSent, TypeOK
  <2> QED
    BY <1>10, <1>13, <2>1, <2>2, <2>3 DEF Inv, RecordSent, CloseAttempt, TypeOK
<1>14. ASSUME NEW w \in Workers, Abort(w)
       PROVE  TypeOK'
  BY <1>14 DEF Inv, Abort, db, TypeOK, WorkerState, Idle
<1>15. CASE Tick
  BY <1>15 DEF Inv, Tick, db, TypeOK
<1>16. CASE UNCHANGED vars
  BY <1>16 DEF Inv, vars, db, TypeOK
<1> QED
  BY <1>1, <1>2, <1>3, <1>4, <1>5, <1>6, <1>7, <1>8, <1>9, <1>11, <1>12, <1>13,
     <1>14, <1>15, <1>16 DEF Next

(* A worker that lets go of its row disturbs nobody: no other worker holds *)
(* a claim on that row.                                                    *)
LEMMA Released ==
  ASSUME Inv, NEW w \in Workers, worker[w].pc # "idle",
         worker' = [worker EXCEPT ![w] = Idle],
         UNCHANGED <<attemptCount, wire, applied>>,
         \A x \in Rows : x # worker[w].row => status'[x] = status[x]
  PROVE  WorkerInv' /\ Exclusive'
<1>1. worker'[w] = Idle /\ \A v \in Workers : v # w => worker'[v] = worker[v]
  BY DEF Inv, TypeOK
<1>2. ASSUME NEW v \in Workers, worker'[v].pc # "idle"
      PROVE  v # w /\ worker'[v] = worker[v] /\ worker[v].row # worker[w].row
  BY <1>1, <1>2 DEF Idle, Inv, Exclusive
<1>3. Exclusive'
  BY <1>1, <1>2 DEF Inv, Exclusive
<1>4. ASSUME NEW v \in Workers, worker'[v].pc # "idle"
      PROVE  HolderInv(v)'
  <2>1. HolderInv(v) /\ worker'[v] = worker[v]
    BY <1>2, <1>4 DEF Inv, WorkerInv
  <2>2. status'[worker[v].row] = status[worker[v].row]
    BY <1>2, <1>4, <2>1 DEF HolderInv
  <2> QED
    BY <2>1, <2>2 DEF HolderInv, Quiet
<1> QED
  BY <1>3, <1>4 DEF WorkerInv

-----------------------------------------------------------------------------
(* The invariant of the protocol, one step per action. *)
LEMMA StepInv == Inv /\ [Next]_vars => Inv'
<1> SUFFICES ASSUME Inv, [Next]_vars PROVE Inv'
  OBVIOUS
<1> USE ConstantsAssumption
<1>0. TypeOK'
  BY StepTypeOK
<1>1. ASSUME NEW p \in Packages, NEW docs \in SUBSET Documents, CreatePackage(p, docs)
      PROVE  Inv'
  <2>1. WorkerInv'
    BY <1>1 DEF Inv, CreatePackage, WorkerInv, HolderInv, RowInv, WireInv, Exclusive, Quiet, TypeOK,
             WorkerState, Outcomes, Idle
  <2>2. Exclusive'
    BY <1>1 DEF Inv, CreatePackage, WorkerInv, HolderInv, Exclusive, TypeOK, WorkerState, Idle
  <2>3. RowInv'
    BY <1>1 DEF Inv, CreatePackage, WorkerInv, HolderInv, RowInv, WireInv, Quiet, TypeOK
  <2>4. WireInv'
    BY <1>1 DEF Inv, CreatePackage, WorkerInv, HolderInv, RowInv, WireInv, Quiet, TypeOK
  <2> QED
    BY <1>0, <2>1, <2>2, <2>3, <2>4 DEF Inv
<1>2. ASSUME NEW p \in Packages, NEW action \in Actions, WriteOutbox(p, action)
      PROVE  Inv'
  <2>1. WorkerInv'
    BY <1>2 DEF Inv, WriteOutbox, WorkerInv, HolderInv, RowInv, WireInv, Exclusive, Quiet, TypeOK,
             WorkerState, Outcomes, Idle
  <2>2. Exclusive'
    BY <1>2 DEF Inv, WriteOutbox, WorkerInv, HolderInv, Exclusive, TypeOK, WorkerState, Idle
  <2>3. RowInv'
    BY <1>2 DEF Inv, WriteOutbox, WorkerInv, HolderInv, RowInv, WireInv, Quiet, TypeOK
  <2>4. WireInv'
    BY <1>2 DEF Inv, WriteOutbox, WorkerInv, HolderInv, RowInv, WireInv, Quiet, TypeOK
  <2> QED
    BY <1>0, <2>1, <2>2, <2>3, <2>4 DEF Inv
<1>3. ASSUME NEW w \in Workers, NEW r \in Rows, NEW t \in 0..now, Claim(w, r, t)
      PROVE  Inv'
  <2>1. WorkerInv'
    <3>1. /\ status' = [status EXCEPT ![r] = "PROCESSING"] /\ status \in [Rows -> {"ABSENT", "PENDING", "PROCESSING", "SENT", "FAILED"}]
          /\ attemptCount' = [attemptCount EXCEPT ![r] = attemptCount[r] + 1]
          /\ attemptCount \in [Rows -> 0..MaxAttempts]
          /\ worker' = [worker EXCEPT ![w] =
               [pc |-> "claimed", row |-> r, no |-> attemptCount[r] + 1, result |-> "none"]]
          /\ worker \in [Workers -> WorkerState]
          /\ UNCHANGED <<wire, applied>>
          /\ status[r] # "PROCESSING"
      BY <1>3 DEF Inv, Claim, Claimable, TypeOK
    <3>2. Quiet(r) /\ (\A x \in Rows : Quiet(x)' = Quiet(x))
      BY <1>3, <3>1 DEF Inv, Claim, Claimable, RowInv, Quiet
    <3>3. HolderInv(w)'
      BY <3>1, <3>2 DEF HolderInv
    <3>4. ASSUME NEW v \in Workers, v # w, worker'[v].pc # "idle"
          PROVE  HolderInv(v)'
      <4>1. worker'[v] = worker[v] /\ HolderInv(v)
        BY <3>1, <3>4 DEF Inv, WorkerInv
      <4>2. worker[v].row \in Rows /\ worker[v].row # r
        BY <3>1, <4>1 DEF HolderInv
      <4>3. status'[worker[v].row] = status[worker[v].row] /\ attemptCount'[worker[v].row] = attemptCount[worker[v].row]
        BY <3>1, <4>2
      <4> QED
        BY <3>1, <3>2, <4>1, <4>2, <4>3 DEF HolderInv
    <3> QED
      BY <3>3, <3>4 DEF WorkerInv
  <2>2. Exclusive'
    <3>1. /\ worker' = [worker EXCEPT ![w] =
               [pc |-> "claimed", row |-> r, no |-> attemptCount[r] + 1, result |-> "none"]]
          /\ worker \in [Workers -> WorkerState]
          /\ status[r] # "PROCESSING"
      BY <1>3 DEF Inv, Claim, Claimable, TypeOK
    <3>2. \A v \in Workers : worker[v].pc # "idle" => worker[v].row # r
      BY <3>1 DEF Inv, WorkerInv, HolderInv
    <3>3. worker'[w].row = r /\ \A v \in Workers : v # w => worker'[v] = worker[v]
      BY <3>1
    <3> QED
      BY <3>2, <3>3 DEF Inv, Exclusive
  <2>3. RowInv'
    BY <1>3 DEF Inv, Claim, Claimable, WorkerInv, HolderInv, RowInv, WireInv, Quiet, TypeOK
  <2>4. WireInv'
    BY <1>3 DEF Inv, Claim, Claimable, WorkerInv, HolderInv, RowInv, WireInv, Quiet, TypeOK
  <2> QED
    BY <1>0, <2>1, <2>2, <2>3, <2>4 DEF Inv
<1>4. ASSUME NEW w \in Workers, RefuseLocally(w)
      PROVE  Inv'
  <2>1. WorkerInv'
    BY <1>4 DEF Inv, RefuseLocally, Answer, db, WorkerInv, HolderInv, RowInv, WireInv, Exclusive, Quiet, TypeOK,
             WorkerState, Outcomes, Idle
  <2>2. Exclusive'
    BY <1>4 DEF Inv, RefuseLocally, Answer, db, WorkerInv, HolderInv, Exclusive, TypeOK, WorkerState, Idle
  <2>3. RowInv'
    BY <1>4 DEF Inv, RefuseLocally, Answer, db, WorkerInv, HolderInv, RowInv, WireInv, Quiet, TypeOK
  <2>4. WireInv'
    BY <1>4 DEF Inv, RefuseLocally, Answer, db, WorkerInv, HolderInv, RowInv, WireInv, Quiet, TypeOK
  <2> QED
    BY <1>0, <2>1, <2>2, <2>3, <2>4 DEF Inv
<1>5. ASSUME NEW w \in Workers, FindLinkMissing(w)
      PROVE  Inv'
  <2>1. WorkerInv'
    BY <1>5 DEF Inv, FindLinkMissing, Answer, db, WorkerInv, HolderInv, RowInv, WireInv, Exclusive, Quiet, TypeOK,
             WorkerState, Outcomes, Idle
  <2>2. Exclusive'
    BY <1>5 DEF Inv, FindLinkMissing, Answer, db, WorkerInv, HolderInv, Exclusive, TypeOK, WorkerState, Idle
  <2>3. RowInv'
    BY <1>5 DEF Inv, FindLinkMissing, Answer, db, WorkerInv, HolderInv, RowInv, WireInv, Quiet, TypeOK
  <2>4. WireInv'
    BY <1>5 DEF Inv, FindLinkMissing, Answer, db, WorkerInv, HolderInv, RowInv, WireInv, Quiet, TypeOK
  <2> QED
    BY <1>0, <2>1, <2>2, <2>3, <2>4 DEF Inv
<1>6. ASSUME NEW w \in Workers, Send(w)
      PROVE  Inv'
  <2>1. WorkerInv'
    BY <1>6 DEF Inv, Send, db, WorkerInv, HolderInv, RowInv, WireInv, Exclusive, Quiet, TypeOK,
             WorkerState, Outcomes, Idle
  <2>2. Exclusive'
    BY <1>6 DEF Inv, Send, db, WorkerInv, HolderInv, Exclusive, TypeOK, WorkerState, Idle
  <2>3. RowInv'
    BY <1>6 DEF Inv, Send, db, WorkerInv, HolderInv, RowInv, WireInv, Quiet, TypeOK
  <2>4. WireInv'
    BY <1>6 DEF Inv, Send, db, WorkerInv, HolderInv, RowInv, WireInv, Quiet, TypeOK
  <2> QED
    BY <1>0, <2>1, <2>2, <2>3, <2>4 DEF Inv
<1>7. ASSUME NEW q \in wire, RazorpayApplies(q)
      PROVE  Inv'
  <2>0. /\ q = <<q[1], q[2]>> /\ q[1] \in Rows /\ q[2] \in 1..MaxAttempts
        /\ applied[q[1]] = 0 /\ q[2] = attemptCount[q[1]]
        /\ \A m \in 1..MaxAttempts : <<q[1], m>> \in wire => m = q[2]
        /\ ~Quiet(q[1])
    BY DEF Inv, TypeOK, WireInv, Quiet
  <2>1. applied' = [applied EXCEPT ![q[1]] = 1] /\ wire' = wire \ {q}
    BY <1>7, <2>0 DEF RazorpayApplies
  <2>2. PICK outcome \in {"OK", "UNKNOWN_RESULT"} : Reply(q, outcome)
    BY <1>7 DEF RazorpayApplies
  <2>3. UNCHANGED <<status, attemptCount, nextAttemptAt>>
    BY <1>7 DEF RazorpayApplies, db
  <2>4. ASSUME NEW v \in Workers
        PROVE  \/ worker'[v] = worker[v]
               \/ /\ worker[v].pc = "waiting" /\ worker[v].row = q[1]
                  /\ worker'[v] = [worker[v] EXCEPT !.pc = "answered", !.result = outcome]
    BY <2>2 DEF Reply
  <2>5. \A v \in Workers : /\ worker'[v].row = worker[v].row
                           /\ worker'[v].no = worker[v].no
                           /\ worker'[v].pc # "idle" <=> worker[v].pc # "idle"
    <3> TAKE v \in Workers
    <3>1. worker[v] \in WorkerState
      BY DEF Inv, TypeOK
    <3> QED
      BY <2>4, <3>1 DEF WorkerState
  <2>6. Exclusive'
    BY <2>5 DEF Inv, Exclusive
  <2>7. \A r \in Rows : r # q[1] => applied'[r] = applied[r] /\ (Quiet(r) <=> Quiet(r)')
    BY <2>0, <2>1 DEF Inv, TypeOK, Quiet
  <2>8. applied'[q[1]] = 1
    BY <2>0, <2>1 DEF Inv, TypeOK
  <2>9. RowInv'
    <3> SUFFICES ASSUME NEW r \in Rows PROVE RowInv!(r)'
      BY DEF RowInv
    <3>1. RowInv!(r)
      BY DEF Inv, RowInv
    <3>2. CASE r # q[1]
      BY <2>3, <2>7, <3>1, <3>2
    <3>3. CASE r = q[1]
      BY <2>0, <2>3, <2>8, <3>1, <3>3
    <3> QED
      BY <3>2, <3>3
  <2>10. WireInv'
    <3> SUFFICES ASSUME NEW o \in wire' PROVE applied'[o[1]] = 0 /\ o[2] = attemptCount'[o[1]]
      BY DEF WireInv
    <3>1. o \in wire /\ o # q /\ o = <<o[1], o[2]>> /\ o[1] \in Rows /\ o[2] \in 1..MaxAttempts
      BY <2>1 DEF Inv, TypeOK
    <3>2. applied[o[1]] = 0 /\ o[2] = attemptCount[o[1]]
      BY <3>1 DEF Inv, WireInv
    <3>3. o[1] # q[1]
      BY <2>0, <3>1
    <3> QED
      BY <2>1, <2>3, <2>7, <3>1, <3>2, <3>3
  <2>11. ASSUME NEW v \in Workers, worker'[v].pc # "idle"
         PROVE  HolderInv(v)'
    <3>1. HolderInv(v)
      BY <1>7, <2>5, <2>11 DEF Inv, WorkerInv
    <3>2. CASE worker[v].row # q[1]
      <4>1. worker'[v] = worker[v]
        BY <2>4, <3>2
      <4>2. worker[v].pc = "waiting" => <<worker[v].row, worker[v].no>> \in wire'
        BY <2>0, <2>1, <3>1, <3>2 DEF HolderInv
      <4> QED
        BY <2>3, <2>7, <3>1, <3>2, <4>1, <4>2 DEF HolderInv
    <3>3. CASE worker[v].row = q[1] /\ worker[v].pc = "waiting"
      <4>1. worker[v].no = q[2]
        BY <2>0, <3>1, <3>3 DEF HolderInv
      <4>2. worker'[v].pc = "answered" /\ worker'[v].result = outcome
        BY <2>2, <3>3, <4>1 DEF Reply, Inv, TypeOK, WorkerState
      <4> QED
        BY <2>2, <2>3, <2>5, <2>8, <3>1, <3>3, <4>2 DEF HolderInv
    <3>4. CASE worker[v].row = q[1] /\ worker[v].pc # "waiting"
      <4>1. worker'[v] = worker[v]
        BY <2>4, <3>4
      <4> QED
        BY <2>0, <2>3, <2>8, <2>11, <3>1, <3>4, <4>1 DEF HolderInv, Inv, TypeOK, WorkerState
    <3> QED
      BY <3>2, <3>3, <3>4
  <2> QED
    BY <1>0, <2>6, <2>9, <2>10, <2>11 DEF Inv, WorkerInv
<1>8. ASSUME NEW q \in wire, RazorpayRefuses(q)
      PROVE  Inv'
  <2>0. /\ q = <<q[1], q[2]>> /\ q[1] \in Rows /\ q[2] \in 1..MaxAttempts
        /\ applied[q[1]] = 0 /\ q[2] = attemptCount[q[1]]
        /\ \A m \in 1..MaxAttempts : <<q[1], m>> \in wire => m = q[2]
        /\ ~Quiet(q[1])
    BY DEF Inv, TypeOK, WireInv, Quiet
  <2>1. applied' = applied /\ wire' = wire \ {q}
    BY <1>8, <2>0 DEF RazorpayRefuses
  <2>2. PICK outcome \in {"RATE_LIMITED", "REJECTED", "UNKNOWN_RESULT"} : Reply(q, outcome)
    BY <1>8 DEF RazorpayRefuses
  <2>3. UNCHANGED <<status, attemptCount, nextAttemptAt>>
    BY <1>8 DEF RazorpayRefuses, db
  <2>4. ASSUME NEW v \in Workers
        PROVE  \/ worker'[v] = worker[v]
               \/ /\ worker[v].pc = "waiting" /\ worker[v].row = q[1]
                  /\ worker'[v] = [worker[v] EXCEPT !.pc = "answered", !.result = outcome]
    BY <2>2 DEF Reply
  <2>5. \A v \in Workers : /\ worker'[v].row = worker[v].row
                           /\ worker'[v].no = worker[v].no
                           /\ worker'[v].pc # "idle" <=> worker[v].pc # "idle"
    <3> TAKE v \in Workers
    <3>1. worker[v] \in WorkerState
      BY DEF Inv, TypeOK
    <3> QED
      BY <2>4, <3>1 DEF WorkerState
  <2>6. Exclusive'
    BY <2>5 DEF Inv, Exclusive
  <2>7. \A r \in Rows : r # q[1] => applied'[r] = applied[r] /\ (Quiet(r) <=> Quiet(r)')
    BY <2>0, <2>1 DEF Inv, TypeOK, Quiet
  <2>8. Quiet(q[1])'
    BY <2>0, <2>1 DEF Quiet
  <2>9. RowInv'
    <3> SUFFICES ASSUME NEW r \in Rows PROVE RowInv!(r)'
      BY DEF RowInv
    <3>1. RowInv!(r)
      BY DEF Inv, RowInv
    <3>2. CASE r # q[1]
      BY <2>3, <2>7, <3>1, <3>2
    <3>3. CASE r = q[1]
      BY <2>0, <2>1, <2>3, <2>8, <3>1, <3>3
    <3> QED
      BY <3>2, <3>3
  <2>10. WireInv'
    <3> SUFFICES ASSUME NEW o \in wire' PROVE applied'[o[1]] = 0 /\ o[2] = attemptCount'[o[1]]
      BY DEF WireInv
    <3>1. o \in wire /\ o # q /\ o = <<o[1], o[2]>> /\ o[1] \in Rows /\ o[2] \in 1..MaxAttempts
      BY <2>1 DEF Inv, TypeOK
    <3>2. applied[o[1]] = 0 /\ o[2] = attemptCount[o[1]]
      BY <3>1 DEF Inv, WireInv
    <3>3. o[1] # q[1]
      BY <2>0, <3>1
    <3> QED
      BY <2>1, <2>3, <2>7, <3>1, <3>2, <3>3
  <2>11. ASSUME NEW v \in Workers, worker'[v].pc # "idle"
         PROVE  HolderInv(v)'
    <3>1. HolderInv(v)
      BY <1>8, <2>5, <2>11 DEF Inv, WorkerInv
    <3>2. CASE worker[v].row # q[1]
      <4>1. worker'[v] = worker[v]
        BY <2>4, <3>2
      <4>2. worker[v].pc = "waiting" => <<worker[v].row, worker[v].no>> \in wire'
        BY <2>0, <2>1, <3>1, <3>2 DEF HolderInv
      <4> QED
        BY <2>3, <2>7, <3>1, <3>2, <4>1, <4>2 DEF HolderInv
    <3>3. CASE worker[v].row = q[1] /\ worker[v].pc = "waiting"
      <4>1. worker[v].no = q[2]
        BY <2>0, <3>1, <3>3 DEF HolderInv
      <4>2. worker'[v].pc = "answered" /\ worker'[v].result = outcome
        BY <2>2, <3>3, <4>1 DEF Reply, Inv, TypeOK, WorkerState
      <4> QED
        BY <2>2, <2>3, <2>5, <2>8, <3>1, <3>3, <4>2 DEF HolderInv
    <3>4. CASE worker[v].row = q[1] /\ worker[v].pc # "waiting"
      <4>1. worker'[v] = worker[v]
        BY <2>4, <3>4
      <4> QED
        BY <2>0, <2>3, <2>8, <2>11, <3>1, <3>4, <4>1 DEF HolderInv, Inv, TypeOK, WorkerState
    <3> QED
      BY <3>2, <3>3, <3>4
  <2> QED
    BY <1>0, <2>6, <2>9, <2>10, <2>11 DEF Inv, WorkerInv
<1>9. ASSUME NEW w \in Workers, TimeOut(w)
      PROVE  Inv'
  <2>1. WorkerInv'
    BY <1>9 DEF Inv, TimeOut, Answer, db, WorkerInv, HolderInv, RowInv, WireInv, Exclusive, Quiet, TypeOK,
             WorkerState, Outcomes, Idle
  <2>2. Exclusive'
    BY <1>9 DEF Inv, TimeOut, Answer, db, WorkerInv, HolderInv, Exclusive, TypeOK, WorkerState, Idle
  <2>3. RowInv'
    BY <1>9 DEF Inv, TimeOut, Answer, db, WorkerInv, HolderInv, RowInv, WireInv, Quiet, TypeOK
  <2>4. WireInv'
    BY <1>9 DEF Inv, TimeOut, Answer, db, WorkerInv, HolderInv, RowInv, WireInv, Quiet, TypeOK
  <2> QED
    BY <1>0, <2>1, <2>2, <2>3, <2>4 DEF Inv
<1>10. ASSUME NEW w \in Workers, Record(w)
       PROVE  Inv'
  <2>1. /\ worker[w].pc = "answered" /\ worker' = [worker EXCEPT ![w] = Idle]
        /\ UNCHANGED <<attemptCount, wire, applied>>
    BY <1>10 DEF Record, RecordRetryable, RecordTerminal, RecordSent, CloseAttempt
  <2>2. HolderInv(w)
    BY <2>1 DEF Inv, WorkerInv
  <2>3. PICK r \in Rows : r = worker[w].row
    BY <2>2 DEF HolderInv
  <2>4. ASSUME NEW x \in Rows, x # r
        PROVE  status'[x] = status[x] /\ nextAttemptAt'[x] = nextAttemptAt[x]
    BY <1>10, <2>3, <2>4 DEF Record, RecordRetryable, RecordTerminal, RecordSent, Inv, TypeOK
  <2>5. /\ status'[r] \in {"SENT", "FAILED"}
        /\ status'[r] = "SENT" => worker[w].result = "OK"
        /\ status'[r] = "FAILED" /\ nextAttemptAt'[r] # NULL => worker[w].result = "RATE_LIMITED"
    BY <1>10, <2>3 DEF Record, RecordRetryable, RecordTerminal, RecordSent, Retryable, Inv, TypeOK
  <2>6. /\ status'[r] = "SENT" => applied[r] = 1
        /\ status'[r] = "FAILED" /\ nextAttemptAt'[r] # NULL => Quiet(r)
        /\ status[r] = "PROCESSING"
    BY <2>1, <2>2, <2>3, <2>5 DEF HolderInv
  <2>7. RowInv'
    BY <2>1, <2>4, <2>5, <2>6 DEF Inv, RowInv, Quiet
  <2>8. WireInv'
    BY <2>1 DEF Inv, WireInv
  <2>9. WorkerInv' /\ Exclusive'
    BY <2>1, <2>3, <2>4, Released
  <2> QED
    BY <1>0, <2>7, <2>8, <2>9 DEF Inv
<1>11. ASSUME NEW w \in Workers, Abort(w)
       PROVE  Inv'
  <2>1. worker[w].pc # "idle" /\ worker' = [worker EXCEPT ![w] = Idle] /\ UNCHANGED <<db, wire, applied>>
    BY <1>11 DEF Abort
  <2>2. WorkerInv' /\ Exclusive'
    BY <2>1, Released DEF db
  <2>3. RowInv' /\ WireInv'
    BY <2>1 DEF Inv, RowInv, WireInv, Quiet, db
  <2> QED
    BY <1>0, <2>2, <2>3 DEF Inv
<1>12. CASE Tick
  BY <1>0, <1>12 DEF Inv, Tick, db, WorkerInv, HolderInv, Exclusive, RowInv, WireInv, Quiet
<1>13. CASE UNCHANGED vars
  BY <1>0, <1>13 DEF Inv, vars, db, WorkerInv, HolderInv, Exclusive, RowInv, WireInv, Quiet
<1> QED
  BY <1>1, <1>2, <1>3, <1>4, <1>5, <1>6, <1>7, <1>8, <1>9, <1>10, <1>11, <1>12, <1>13 DEF Next, Record

(* The invariant holds in every reachable state. *)
THEOREM Invariance == Spec => []Inv
  BY InitInv, StepInv, PTL DEF Spec

(* Every variable keeps its type: in particular attempt_count never passes *)
(* MAX_ATTEMPTS, though nothing but the claimability test limits it.       *)
THEOREM TypeCorrect == Spec => []TypeOK
<1>1. Inv => TypeOK
  BY DEF Inv
<1> QED
  BY <1>1, Invariance, PTL

(* Razorpay applies each row's request at most once, whatever is retried,  *)
(* times out, or dies between the two commits.                             *)
THEOREM AtMostOnce == Spec => []AtMostOnceApplied
<1>1. Inv => AtMostOnceApplied
  BY DEF Inv, RowInv, AtMostOnceApplied
<1> QED
  BY <1>1, Invariance, PTL

-----------------------------------------------------------------------------
(* The records in the database, and the evidence a contest request needs.  *)

\* A package without a row has no outbox rows.
PackageInv ==
  \A p \in Packages : packageStatus[p] = "ABSENT" =>
    \A r \in Rows : r[1] = p => status[r] = "ABSENT"

RowTypes == /\ ContestRows \subseteq Rows /\ UploadRows \subseteq Rows
            /\ \A p \in Packages, a \in Actions : <<p, "contest", a>> \in ContestRows
            /\ \A r \in Rows : r[1] \in Packages
            /\ \A r \in ContestRows : r = <<r[1], "contest", r[3]>>

LEMMA RowsTyped == RowTypes
  BY DEF RowTypes, Rows, ContestRows, UploadRows, Actions

LEMMA StepRecords == Inv /\ RecordsAreReal /\ [Next]_vars => RecordsAreReal'
<1> SUFFICES ASSUME Inv, RecordsAreReal, [Next]_vars PROVE RecordsAreReal'
  OBVIOUS
<1>0. Inv' /\ RowTypes
  BY StepInv, RowsTyped
<1> DEFINE Single(r) == recorded[r] = (IF status[r] = "SENT" THEN 1 ELSE 0)
           Backed(p) == packageStatus[p] = "SUBMITTED" =>
                          status[<<p, "contest", "submit">>] = "SENT"
<1>a. \A r \in Rows : Single(r)
  BY DEF RecordsAreReal
<1>b. \A p \in Packages : <<p, "contest", "submit">> \in Rows /\ Backed(p)
  BY <1>0 DEF RecordsAreReal, RowTypes, Actions
<1> DEFINE Goal == (\A r \in Rows : Single(r)) /\ (\A p \in Packages : Backed(p))
<1>c. SUFFICES Goal'
  BY <1>0 DEF RecordsAreReal, Inv, RowInv
<1>1. ASSUME NEW p \in Packages, NEW docs \in SUBSET Documents, CreatePackage(p, docs)
      PROVE  Goal'
  BY <1>1, <1>a, <1>b DEF CreatePackage, Inv, TypeOK
<1>2. ASSUME NEW p \in Packages, NEW action \in Actions, WriteOutbox(p, action)
      PROVE  Goal'
  BY <1>2, <1>a, <1>b DEF WriteOutbox, Inv, TypeOK
<1>3. ASSUME NEW w \in Workers, NEW r \in Rows, NEW t \in 0..now, Claim(w, r, t)
      PROVE  Goal'
  BY <1>3, <1>a, <1>b DEF Claim, Claimable, Inv, TypeOK
<1>4. ASSUME UNCHANGED <<status, recorded, packageStatus>>
      PROVE  Goal'
  BY <1>4, <1>a, <1>b
<1>5. ASSUME NEW w \in Workers, worker[w].pc = "answered"
      PROVE  worker[w].row \in Rows /\ status[worker[w].row] = "PROCESSING"
  BY <1>5 DEF Inv, WorkerInv, HolderInv
<1>6. ASSUME NEW w \in Workers, RecordRetryable(w) \/ RecordTerminal(w)
      PROVE  Goal'
  <2>1. worker[w].row \in Rows /\ status[worker[w].row] = "PROCESSING"
    BY <1>5, <1>6 DEF RecordRetryable, RecordTerminal, CloseAttempt
  <2> QED
    BY <1>6, <1>a, <1>b, <2>1 DEF RecordRetryable, RecordTerminal, Inv, TypeOK
<1>7. ASSUME NEW w \in Workers, RecordSent(w)
      PROVE  Goal'
  <2> DEFINE r == worker[w].row
  <2>1. r \in Rows /\ status[r] = "PROCESSING" /\ recorded[r] = 0
    BY <1>5, <1>7, <1>a DEF RecordSent, CloseAttempt
  <2>2. status' = [status EXCEPT ![r] = "SENT"] /\ recorded' = [recorded EXCEPT ![r] = 1]
    BY <1>7, <2>1 DEF RecordSent
  <2>3. \A x \in Rows : Single(x)'
    BY <1>a, <2>1, <2>2 DEF Inv, TypeOK
  <2>4. ASSUME NEW p \in Packages, packageStatus'[p] = "SUBMITTED"
        PROVE  status'[<<p, "contest", "submit">>] = "SENT"
    <3>1. CASE r = <<p, "contest", "submit">>
      BY <2>1, <2>2, <3>1 DEF Inv, TypeOK
    <3>2. CASE r # <<p, "contest", "submit">>
      <4>1. packageStatus'[p] = packageStatus[p]
        BY <1>7, <2>1, <2>4, <3>2 DEF RecordSent, Inv, TypeOK, Rows, ContestRows, UploadRows
      <4> QED
        BY <1>b, <2>1, <2>2, <2>4, <3>2, <4>1 DEF Inv, TypeOK
    <3> QED
      BY <3>1, <3>2
  <2> QED
    BY <2>3, <2>4
<1> QED
  BY <1>1, <1>2, <1>3, <1>4, <1>6, <1>7
  DEF Next, RefuseLocally, FindLinkMissing, Send, RazorpayApplies, RazorpayRefuses,
      TimeOut, Abort, Tick, db, vars

(* What the database records of external actions has happened at Razorpay. *)
THEOREM RecordsReal == Spec => []RecordsAreReal
<1>1. Init => RecordsAreReal
  BY RowsTyped DEF Init, RecordsAreReal, RowTypes, Actions
<1> QED
  BY <1>1, Invariance, StepRecords, PTL DEF Spec

LEMMA StepPackage == Inv /\ PackageInv /\ [Next]_vars => PackageInv'
<1> SUFFICES ASSUME Inv, PackageInv, [Next]_vars PROVE PackageInv'
  OBVIOUS
<1>1. ASSUME NEW p \in Packages, NEW docs \in SUBSET Documents, CreatePackage(p, docs)
      PROVE  PackageInv'
  BY <1>1 DEF CreatePackage, PackageInv, Inv, TypeOK
<1>2. ASSUME NEW p \in Packages, NEW action \in Actions, WriteOutbox(p, action)
      PROVE  PackageInv'
  BY <1>2 DEF WriteOutbox, OutboxOf, PackageInv, Inv, TypeOK
<1>3. ASSUME NEW w \in Workers, NEW r \in Rows, NEW t \in 0..now, Claim(w, r, t)
      PROVE  PackageInv'
  BY <1>3 DEF Claim, Claimable, PackageInv, Inv, TypeOK
<1>4. CASE UNCHANGED <<status, packageStatus>>
  BY <1>4 DEF PackageInv
<1>5. ASSUME NEW w \in Workers, Record(w)
      PROVE  PackageInv'
  <2>1. worker[w].row \in Rows /\ status[worker[w].row] = "PROCESSING"
    BY <1>5 DEF Record, RecordRetryable, RecordTerminal, RecordSent, CloseAttempt,
                Inv, WorkerInv, HolderInv
  <2>2. \A r \in Rows : status[r] = "ABSENT" => status'[r] = "ABSENT"
    BY <1>5, <2>1 DEF Record, RecordRetryable, RecordTerminal, RecordSent, Inv, TypeOK
  <2>3. \A p \in Packages : packageStatus'[p] = "ABSENT" => packageStatus[p] = "ABSENT"
    BY <1>5 DEF Record, RecordRetryable, RecordTerminal, RecordSent, Inv, TypeOK
  <2> QED
    BY <2>2, <2>3 DEF PackageInv
<1> QED
  BY <1>1, <1>2, <1>3, <1>4, <1>5
  DEF Next, Record, RefuseLocally, FindLinkMissing, Send, RazorpayApplies,
      RazorpayRefuses, TimeOut, Abort, Tick, db, vars

LEMMA StepEvidence ==
  Inv /\ RecordsAreReal /\ PackageInv /\ EvidenceBeforeContest /\ [Next]_vars
    => EvidenceBeforeContest'
<1> SUFFICES ASSUME Inv, RecordsAreReal, PackageInv, EvidenceBeforeContest, [Next]_vars
             PROVE  EvidenceBeforeContest'
  OBVIOUS
<1> DEFINE Requested(r) == applied[r] > 0 \/ \E q \in wire : q[1] = r
           Uploaded(d) == \E u \in UploadRows : u[3] = d /\ applied[u] = 1
           Evidenced(r) == \A d \in packageDocs[r[1]] : Uploaded(d)
<1>a. \A r \in ContestRows : Requested(r) => Evidenced(r)
  BY DEF EvidenceBeforeContest
<1>b. ASSUME \A r \in ContestRows : Requested(r)' => Evidenced(r)'
      PROVE  EvidenceBeforeContest'
  BY <1>b DEF EvidenceBeforeContest
<1>c. RowTypes
  BY RowsTyped
<1>1. ASSUME UNCHANGED <<packageDocs, applied>>,
             \A r \in ContestRows : (\E q \in wire' : q[1] = r) => Requested(r)
      PROVE  EvidenceBeforeContest'
  BY <1>1, <1>a, <1>b
<1>2. ASSUME NEW p \in Packages, NEW docs \in SUBSET Documents, CreatePackage(p, docs)
      PROVE  EvidenceBeforeContest'
  <2>1. ASSUME NEW r \in ContestRows, Requested(r)'
        PROVE  Evidenced(r)'
    <3>1. Requested(r)
      BY <1>2, <2>1 DEF CreatePackage
    <3>2. r \in Rows /\ ~Quiet(r)
      BY <1>c, <3>1 DEF RowTypes, Quiet, Inv, TypeOK
    <3>3. r[1] # p
      BY <1>2, <3>2 DEF CreatePackage, PackageInv, Inv, RowInv
    <3>4. packageDocs'[r[1]] = packageDocs[r[1]]
      BY <1>2, <1>c, <3>2, <3>3 DEF CreatePackage, RowTypes, Inv, TypeOK
    <3> QED
      BY <1>2, <1>a, <3>1, <3>4 DEF CreatePackage
  <2> QED
    BY <1>b, <2>1
<1>3. ASSUME NEW w \in Workers, Send(w)
      PROVE  EvidenceBeforeContest'
  <2> DEFINE s == worker[w].row
  <2>1. UNCHANGED <<packageDocs, applied>> /\ wire' = wire \cup {<<s, worker[w].no>>}
    BY <1>3 DEF Send, db
  <2>2. ASSUME NEW r \in ContestRows, Requested(r)', r # s
        PROVE  Evidenced(r)'
    BY <1>a, <2>1, <2>2
  <2>3. ASSUME s \in ContestRows, NEW d \in packageDocs[s[1]]
        PROVE  Uploaded(d)'
    <3>1. PICK u \in UploadRows : u[3] = d /\ recorded[u] > 0
      BY <1>3, <2>3 DEF Send, EvidenceLinked, Linked
    <3>2. applied[u] = 1
      BY <1>c, <3>1 DEF RecordsAreReal, RowTypes
    <3> QED
      BY <2>1, <3>1, <3>2
  <2> QED
    BY <1>b, <2>1, <2>2, <2>3
<1>4. ASSUME NEW q \in wire, RazorpayApplies(q)
      PROVE  EvidenceBeforeContest'
  <2>1. q[1] \in Rows /\ applied[q[1]] = 0
    BY DEF Inv, WireInv, TypeOK
  <2>2. /\ packageDocs' = packageDocs /\ wire' \subseteq wire
        /\ applied' = [applied EXCEPT ![q[1]] = 1]
    BY <1>4, <2>1 DEF RazorpayApplies, db
  <2>3. \A d : Uploaded(d) => Uploaded(d)'
    BY <1>c, <2>1, <2>2 DEF RowTypes, Inv, TypeOK
  <2>4. ASSUME NEW r \in ContestRows, Requested(r)'
        PROVE  Requested(r)
    BY <1>c, <2>1, <2>2, <2>4 DEF RowTypes, Inv, TypeOK
  <2>5. \A r \in ContestRows : Requested(r)' => Evidenced(r)'
    BY <1>a, <2>2, <2>3, <2>4
  <2> QED
    BY <1>b, <2>5
<1> QED
  BY <1>1, <1>2, <1>3, <1>4
  DEF Next, WriteOutbox, Claim, RefuseLocally, FindLinkMissing, RazorpayRefuses, TimeOut,
      RecordRetryable, RecordTerminal, RecordSent, CloseAttempt, Abort, Tick, db, vars

(* No contest request reaches Razorpay before the evidence of its package. *)
THEOREM EvidenceFirst == Spec => []EvidenceBeforeContest
<1>1. Init => RecordsAreReal /\ PackageInv /\ EvidenceBeforeContest
  BY RowsTyped DEF Init, RecordsAreReal, PackageInv, EvidenceBeforeContest, RowTypes, Actions
<1> QED
  BY <1>1, Invariance, StepRecords, StepPackage, StepEvidence, PTL DEF Spec

-----------------------------------------------------------------------------
(* The attempt rows.  A scheduled retry remembers the attempt before it.   *)

ScheduledInv ==
  \A r \in Rows : status[r] = "FAILED" /\ nextAttemptAt[r] # NULL =>
    LET last == attempts[r][attemptCount[r]] IN
    /\ last.code = "RATE_LIMITED"
    /\ nextAttemptAt[r] = last.startedAt + Backoff(attemptCount[r])

\* One attempt row, as AttemptLedger wants it.
EntryOK(r, n) ==
  LET a == attempts[r][n] IN
  /\ (a.code = "UNMADE") <=> (n > attemptCount[r])
  /\ (a.code = "OPEN") <=> (n = attemptCount[r] /\ status[r] = "PROCESSING")
  /\ n < attemptCount[r] =>
       /\ a.code = "RATE_LIMITED"
       /\ attempts[r][n + 1].startedAt >= a.startedAt + Backoff(n)

LedgerInv == ScheduledInv /\ \A r \in Rows, n \in 1..MaxAttempts : EntryOK(r, n)

\* What closing an attempt does to the attempt rows.
LEMMA ClosedAttempts ==
  ASSUME Inv, NEW w \in Workers, CloseAttempt(w)
  PROVE  LET r == worker[w].row  n == attemptCount[r] IN
         /\ r \in Rows /\ n \in 1..MaxAttempts /\ n = worker[w].no
         /\ status[r] = "PROCESSING"
         /\ worker[w].result \in Outcomes
         /\ attempts'[r][n].code = worker[w].result
         /\ attempts'[r][n].startedAt = attempts[r][n].startedAt
         /\ \A m \in 1..MaxAttempts : m # n => attempts'[r][m] = attempts[r][m]
         /\ \A x \in Rows : x # r => attempts'[x] = attempts[x]
<1> DEFINE r == worker[w].row
           n == attemptCount[r]
<1>1. /\ r \in Rows /\ status[r] = "PROCESSING" /\ n = worker[w].no
      /\ worker[w].result \in Outcomes
  BY DEF CloseAttempt, Inv, WorkerInv, HolderInv, TypeOK, WorkerState
<1>2. n \in 1..MaxAttempts
  <2>1. n # 0
    BY <1>1 DEF Inv, RowInv
  <2>2. n \in 0..MaxAttempts
    BY <1>1 DEF Inv, TypeOK
  <2> QED
    BY <2>1, <2>2, ConstantsAssumption
<1>3. attempts[r] \in [1..MaxAttempts -> AttemptRecord] /\ attempts[r][n] \in AttemptRecord
  BY <1>1, <1>2 DEF Inv, TypeOK
<1>4. attempts' = [attempts EXCEPT ![r] =
                     [attempts[r] EXCEPT ![n] =
                        [attempts[r][n] EXCEPT !.code = worker[w].result]]]
  BY <1>1 DEF CloseAttempt
<1>5. attempts'[r] = [attempts[r] EXCEPT ![n] =
                        [attempts[r][n] EXCEPT !.code = worker[w].result]]
  BY <1>1, <1>4 DEF Inv, TypeOK
<1>6. attempts'[r][n] = [attempts[r][n] EXCEPT !.code = worker[w].result]
  BY <1>2, <1>3, <1>5
<1>7. /\ attempts'[r][n].code = worker[w].result
      /\ attempts'[r][n].startedAt = attempts[r][n].startedAt
  BY <1>3, <1>6 DEF AttemptRecord
<1> QED
  BY <1>1, <1>2, <1>3, <1>4, <1>5, <1>7 DEF Inv, TypeOK

LEMMA StepLedger == Inv /\ LedgerInv /\ [Next]_vars => LedgerInv'
<1> SUFFICES ASSUME Inv, LedgerInv, [Next]_vars PROVE LedgerInv'
  OBVIOUS
<1> USE ConstantsAssumption
<1>1. ASSUME NEW p \in Packages, NEW action \in Actions, WriteOutbox(p, action)
      PROVE  LedgerInv'
  <2>1. UNCHANGED <<attempts, attemptCount, nextAttemptAt>>
    BY <1>1 DEF WriteOutbox
  <2>2. ASSUME NEW r \in Rows
        PROVE  /\ (status'[r] = "PROCESSING") <=> (status[r] = "PROCESSING")
               /\ (status'[r] = "FAILED") <=> (status[r] = "FAILED")
    BY <1>1 DEF WriteOutbox
  <2> QED
    BY <2>1, <2>2 DEF LedgerInv, ScheduledInv, EntryOK
<1>2. ASSUME NEW w \in Workers, NEW r \in Rows, NEW t \in 0..now, Claim(w, r, t)
      PROVE  LedgerInv'
  <2> DEFINE c == attemptCount[r]
  <2>1. /\ c \in Nat /\ c + 1 \in 1..MaxAttempts /\ t \in Nat
        /\ status[r] # "PROCESSING"
        /\ c # 0 => status[r] = "FAILED" /\ nextAttemptAt[r] # NULL /\ nextAttemptAt[r] <= t
    BY <1>2 DEF Claim, Claimable, Inv, RowInv, TypeOK
  <2>2. /\ status' = [status EXCEPT ![r] = "PROCESSING"]
        /\ attemptCount' = [attemptCount EXCEPT ![r] = c + 1]
        /\ attempts' = [attempts EXCEPT ![r] =
             [attempts[r] EXCEPT ![c + 1] = [startedAt |-> t, code |-> "OPEN"]]]
        /\ nextAttemptAt' = nextAttemptAt
    BY <1>2 DEF Claim
  <2>3. /\ attempts'[r][c + 1] = [startedAt |-> t, code |-> "OPEN"]
        /\ \A m \in 1..MaxAttempts : m # c + 1 => attempts'[r][m] = attempts[r][m]
        /\ attemptCount'[r] = c + 1 /\ status'[r] = "PROCESSING"
    BY <2>1, <2>2 DEF Inv, TypeOK
  <2>4. ASSUME NEW x \in Rows, x # r
        PROVE  /\ attempts'[x] = attempts[x] /\ attemptCount'[x] = attemptCount[x]
               /\ status'[x] = status[x]
    BY <2>2, <2>4 DEF Inv, TypeOK
  <2>5. ScheduledInv'
    BY <2>2, <2>3, <2>4 DEF LedgerInv, ScheduledInv
  <2>6. ASSUME NEW m \in 1..MaxAttempts
        PROVE  EntryOK(r, m)'
    <3>1. EntryOK(r, m)
      BY DEF LedgerInv
    <3>2. CASE m > c + 1
      BY <2>1, <2>3, <3>1, <3>2 DEF EntryOK
    <3>3. CASE m = c + 1
      BY <2>1, <2>3, <3>3 DEF EntryOK
    <3>4. CASE m = c
      <4>1. /\ attempts[r][c].code = "RATE_LIMITED"
            /\ nextAttemptAt[r] = attempts[r][c].startedAt + Backoff(c)
        BY <2>1, <3>4 DEF LedgerInv, ScheduledInv
      <4>2. attempts'[r][c] = attempts[r][c] /\ attempts'[r][c + 1].startedAt = t
        BY <2>1, <2>3, <3>4
      <4> QED
        BY <2>1, <2>3, <3>4, <4>1, <4>2 DEF EntryOK
    <3>5. CASE m < c
      <4>1. m + 1 \in 1..MaxAttempts /\ m + 1 # c + 1 /\ m # c + 1
        BY <2>1, <3>5
      <4>2. attempts'[r][m] = attempts[r][m] /\ attempts'[r][m + 1] = attempts[r][m + 1]
        BY <2>3, <4>1
      <4> QED
        BY <2>1, <2>3, <3>1, <3>5, <4>2 DEF EntryOK
    <3> QED
      BY <2>1, <3>2, <3>3, <3>4, <3>5
  <2>7. ASSUME NEW x \in Rows, x # r, NEW m \in 1..MaxAttempts
        PROVE  EntryOK(x, m)'
    BY <2>4, <2>7 DEF LedgerInv, EntryOK
  <2> QED
    BY <2>5, <2>6, <2>7 DEF LedgerInv
<1>3. ASSUME NEW w \in Workers, Record(w)
      PROVE  LedgerInv'
  <2>0. CloseAttempt(w) /\ attemptCount' = attemptCount
    BY <1>3 DEF Record, RecordRetryable, RecordTerminal, RecordSent, CloseAttempt
  <2>p. PICK r \in Rows, n \in 1..MaxAttempts : r = worker[w].row /\ n = attemptCount[r]
    BY <2>0, ClosedAttempts
  <2>1. /\ r \in Rows /\ n \in 1..MaxAttempts /\ n = worker[w].no
        /\ status[r] = "PROCESSING"
        /\ attempts'[r][n].code = worker[w].result
        /\ attempts'[r][n].code \in Outcomes
        /\ attempts'[r][n].startedAt = attempts[r][n].startedAt
        /\ \A m \in 1..MaxAttempts : m # n => attempts'[r][m] = attempts[r][m]
        /\ \A x \in Rows : x # r => attempts'[x] = attempts[x]
    BY <2>0, <2>p, ClosedAttempts
  <2>2. /\ status'[r] \in {"SENT", "FAILED"}
        /\ \A x \in Rows : x # r => /\ status'[x] = status[x]
                                    /\ nextAttemptAt'[x] = nextAttemptAt[x]
    <3>1. PICK s \in {"SENT", "FAILED"} : status' = [status EXCEPT ![r] = s]
      BY <1>3, <2>p DEF Record, RecordRetryable, RecordTerminal, RecordSent
    <3>2. PICK at : nextAttemptAt' = [nextAttemptAt EXCEPT ![r] = at]
      BY <1>3, <2>p DEF Record, RecordRetryable, RecordTerminal, RecordSent
    <3> QED
      BY <2>1, <3>1, <3>2 DEF Inv, TypeOK
  <2>3. status'[r] = "FAILED" /\ nextAttemptAt'[r] # NULL =>
          /\ attempts'[r][n].code = "RATE_LIMITED"
          /\ nextAttemptAt'[r] = attempts'[r][n].startedAt + Backoff(n)
    <3>1. nextAttemptAt \in [Rows -> Nat \cup {NULL}]
      BY DEF Inv, TypeOK
    <3>2. CASE RecordRetryable(w)
      BY <2>p, <2>1, <3>1, <3>2 DEF RecordRetryable, Retryable
    <3>3. CASE RecordTerminal(w) \/ RecordSent(w)
      BY <2>p, <3>1, <3>3 DEF RecordTerminal, RecordSent
    <3> QED
      BY <1>3, <3>2, <3>3 DEF Record
  <2>4. ScheduledInv'
    <3> SUFFICES ASSUME NEW x \in Rows, status'[x] = "FAILED", nextAttemptAt'[x] # NULL
                 PROVE  LET last == attempts'[x][attemptCount'[x]] IN
                        /\ last.code = "RATE_LIMITED"
                        /\ nextAttemptAt'[x] = last.startedAt + Backoff(attemptCount'[x])
      BY DEF ScheduledInv
    <3>1. CASE x = r
      BY <2>0, <2>p, <2>3, <3>1
    <3>2. CASE x # r
      BY <2>0, <2>1, <2>2, <3>2 DEF LedgerInv, ScheduledInv
    <3> QED
      BY <3>1, <3>2
  <2>5. ASSUME NEW m \in 1..MaxAttempts
        PROVE  EntryOK(r, m)'
    <3>1. EntryOK(r, m) /\ attemptCount[r] = n /\ attemptCount'[r] = n
      BY <2>0, <2>p DEF LedgerInv
    <3>2. CASE m > n
      <4>1. attempts'[r][m] = attempts[r][m]
        BY <2>1, <3>2
      <4> QED
        BY <2>1, <2>2, <3>1, <3>2, <4>1 DEF EntryOK
    <3>3. CASE m = n
      BY <2>1, <2>2, <3>1, <3>3 DEF EntryOK, Outcomes
    <3>4. CASE m < n
      <4>1. m + 1 \in 1..MaxAttempts /\ attempts'[r][m] = attempts[r][m]
        BY <2>1, <3>4
      <4>2. attempts'[r][m + 1].startedAt = attempts[r][m + 1].startedAt
        BY <2>1, <4>1
      <4> QED
        BY <2>1, <2>2, <3>1, <3>4, <4>1, <4>2 DEF EntryOK
    <3> QED
      BY <2>1, <3>2, <3>3, <3>4
  <2>6. ASSUME NEW x \in Rows, x # r, NEW m \in 1..MaxAttempts
        PROVE  EntryOK(x, m)'
    <3>1. EntryOK(x, m)
      BY DEF LedgerInv
    <3>2. attempts'[x] = attempts[x] /\ attemptCount'[x] = attemptCount[x] /\ status'[x] = status[x]
      BY <2>0, <2>1, <2>2, <2>6
    <3> QED
      BY <3>1, <3>2 DEF EntryOK
  <2> QED
    BY <2>4, <2>5, <2>6 DEF LedgerInv
<1>4. CASE UNCHANGED <<status, attemptCount, attempts, nextAttemptAt>>
  BY <1>4 DEF LedgerInv, ScheduledInv, EntryOK
<1> QED
  BY <1>1, <1>2, <1>3, <1>4
  DEF Next, Record, CreatePackage, RefuseLocally, FindLinkMissing, Send, RazorpayApplies,
      RazorpayRefuses, TimeOut, Abort, Tick, db, vars

(* The attempt rows are a gapless history: only 429s are followed by a     *)
(* further attempt, and never before the backoff is over.                  *)
THEOREM LedgerComplete == Spec => []AttemptLedger
<1>1. Init => LedgerInv
  BY ConstantsAssumption DEF Init, LedgerInv, ScheduledInv, EntryOK
<1>2. LedgerInv => AttemptLedger
  BY DEF LedgerInv, EntryOK, AttemptLedger
<1> QED
  BY <1>1, <1>2, Invariance, StepLedger, PTL DEF Spec

-----------------------------------------------------------------------------
(* The dispatch implements ExternalAction.  What the database reports of a *)
(* row changes only when an outcome is recorded: creating a row, claiming  *)
(* it and scheduling its next attempt all leave its report open.           *)

Reports == [r \in Rows |-> Report(r)]

PromiseNext == [Promise!Next]_<<applied, Reports, recorded>>

LEMMA PromiseInit == Init => Promise!Init
  BY DEF Init, Promise!Init, Report

LEMMA ReportsStutter ==
  ASSUME applied' = applied, recorded' = recorded,
         \A r \in Rows : Report(r)' = Report(r)
  PROVE  PromiseNext
  BY DEF PromiseNext, Reports

(* Recording an outcome settles the report of one row.                     *)
LEMMA ReportOf ==
  ASSUME Inv, NEW w \in Workers, Record(w)
  PROVE  /\ worker[w].row \in Rows
         /\ Report(worker[w].row) = "open"
         /\ applied' = applied
         /\ \A x \in Rows : x # worker[w].row => Report(x)' = Report(x)
<1>1. worker[w].pc = "answered" /\ applied' = applied
  BY DEF Record, RecordRetryable, RecordTerminal, RecordSent, CloseAttempt
<1>2. worker[w].row \in Rows /\ status[worker[w].row] = "PROCESSING"
  BY <1>1 DEF Inv, WorkerInv, HolderInv
<1>3. ASSUME NEW x \in Rows, x # worker[w].row
      PROVE  status'[x] = status[x] /\ nextAttemptAt'[x] = nextAttemptAt[x]
  BY <1>2, <1>3 DEF Record, RecordRetryable, RecordTerminal, RecordSent, Inv, TypeOK
<1> QED
  BY <1>1, <1>2, <1>3 DEF Report

LEMMA PromiseStep == Inv /\ RecordsAreReal /\ [Next]_vars => PromiseNext
<1> SUFFICES ASSUME Inv, RecordsAreReal, [Next]_vars PROVE PromiseNext
  OBVIOUS
<1> USE ConstantsAssumption
<1>1. ASSUME NEW p \in Packages, NEW action \in Actions, WriteOutbox(p, action)
      PROVE  PromiseNext
  <2>1. ASSUME NEW r \in Rows PROVE Report(r)' = Report(r)
    BY <1>1 DEF WriteOutbox, Report
  <2> QED
    BY <1>1, <2>1, ReportsStutter DEF WriteOutbox
<1>2. ASSUME NEW w \in Workers, NEW r \in Rows, NEW t \in 0..now, Claim(w, r, t)
      PROVE  PromiseNext
  <2>1. ASSUME NEW x \in Rows PROVE Report(x)' = Report(x)
    BY <1>2 DEF Claim, Claimable, Report, Inv, TypeOK
  <2> QED
    BY <1>2, <2>1, ReportsStutter DEF Claim
<1>3. ASSUME NEW q \in wire, RazorpayApplies(q)
      PROVE  PromiseNext
  <2>1. q[1] \in Rows /\ applied[q[1]] = 0
    BY <1>3 DEF Inv, TypeOK, WireInv
  <2>2. Report(q[1]) # "sent"
    BY <2>1 DEF Inv, RowInv, Report
  <2>3. /\ applied' = [applied EXCEPT ![q[1]] = 1]
        /\ UNCHANGED <<status, nextAttemptAt, recorded>>
    BY <1>3, <2>1 DEF RazorpayApplies, db, Inv, TypeOK
  <2>4. Reports' = Reports
    BY <2>3 DEF Reports, Report
  <2>5. Reports[q[1]] # "sent"
    BY <2>1, <2>2 DEF Reports
  <2>6. Promise!TakeEffect(q[1])
    BY <2>1, <2>3, <2>4, <2>5 DEF Promise!TakeEffect, Reports
  <2> QED
    BY <2>1, <2>6 DEF PromiseNext, Promise!Next
<1>4. ASSUME NEW w \in Workers, Record(w)
      PROVE  PromiseNext
  <2>1. PICK r \in Rows : /\ r = worker[w].row
                          /\ Report(r) = "open"
                          /\ applied' = applied
                          /\ \A x \in Rows : x # r => Report(x)' = Report(x)
    BY <1>4, ReportOf
  <2>2. CASE RecordSent(w)
    <3>1. status[r] # "SENT" /\ recorded[r] = 0 /\ applied[r] = 1
      BY <2>1, <2>2 DEF Report, RecordSent, CloseAttempt, RecordsAreReal, Inv, WorkerInv, HolderInv
    <3>2. recorded' = [recorded EXCEPT ![r] = 1] /\ status'[r] = "SENT"
      BY <2>1, <2>2, <3>1 DEF RecordSent, Inv, TypeOK
    <3>3. Report(r)' = "sent"
      BY <3>2 DEF Report
    <3>4. Reports' = [Reports EXCEPT ![r] = "sent"] /\ Reports[r] = "open"
      BY <2>1, <3>3 DEF Reports
    <3>5. Promise!ReportSent(r)
      BY <2>1, <3>1, <3>2, <3>4 DEF Promise!ReportSent, Reports
    <3> QED
      BY <3>5 DEF PromiseNext, Promise!Next
  <2>3. CASE RecordRetryable(w) \/ RecordTerminal(w)
    <3>1. recorded' = recorded /\ status'[r] = "FAILED"
      BY <2>1, <2>3 DEF RecordRetryable, RecordTerminal, Inv, TypeOK
    <3>2. CASE nextAttemptAt'[r] # NULL
      <4>1. Report(r)' = "open"
        BY <3>1, <3>2 DEF Report
      <4> QED
        BY <2>1, <3>1, <4>1, ReportsStutter
    <3>3. CASE nextAttemptAt'[r] = NULL
      <4>1. Report(r)' = "failed"
        BY <3>1, <3>3 DEF Report
      <4>2. Reports' = [Reports EXCEPT ![r] = "failed"] /\ Reports[r] = "open"
        BY <2>1, <4>1 DEF Reports
      <4>3. Promise!ReportFailed(r)
        BY <2>1, <3>1, <4>2 DEF Promise!ReportFailed, Reports
      <4> QED
        BY <4>3 DEF PromiseNext, Promise!Next
    <3> QED
      BY <3>2, <3>3
  <2> QED
    BY <1>4, <2>2, <2>3 DEF Record
<1>5. CASE UNCHANGED <<status, nextAttemptAt, applied, recorded>>
  BY <1>5, ReportsStutter DEF Report
<1> QED
  BY <1>1, <1>2, <1>3, <1>4, <1>5
  DEF Next, Record, CreatePackage, RefuseLocally, FindLinkMissing, Send,
      RazorpayRefuses, TimeOut, Abort, Tick, db, vars

(* The outbox keeps its promise: each external action is applied at most   *)
(* once, is reported SENT only after it was applied and then has exactly   *)
(* one domain row, and a final report is never revised.                    *)
THEOREM Refinement == Spec => KeepsPromise
<1>1. Inv /\ RecordsAreReal /\ [Next]_vars => [Promise!Next]_<<applied, Reports, recorded>>
  BY PromiseStep DEF PromiseNext
<1>2. Init => Promise!Init
  BY PromiseInit
<1> QED
  BY <1>1, <1>2, Invariance, RecordsReal, PTL DEF Spec, KeepsPromise, Promise!Spec, Reports
=============================================================================
