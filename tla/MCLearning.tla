----------------------------- MODULE MCLearning -----------------------------
(* Learning for TLC: six examples of four customers, three training runs,  *)
(* a worker on the training machine and one that is not, an event delivered *)
(* twice, a second one and one that is no outcome, two curations.           *)
EXTENDS Learning

CONSTANTS won, closed, created

MCDeliveries == 1..4
MCEventOf == <<won, won, closed, created>>

Quiet == operator = Idle /\ \A w \in Scorers : scorer[w] = Idle
Started == disk.models > 0
Scoring == predictions # <<>> \/ \E w \in Scorers : scorer[w] # Idle
Contesting == known
Strong == "STRONG_CONTESTABLE"

\* Every scenario and reason once; for the split the customers of strong and
\* weak cases of one reason, in order.
Benchmarked ==
  \A n \in DOMAIN examples :
    /\ n = 1 => examples[n].group = 1
    /\ n > 1 => /\ examples[n].scenario \in {Strong, "WEAK_EVIDENCE"} /\ examples[n].reason = "10.4"
                /\ examples[n-1].group <= examples[n].group
                /\ examples[1].scenario = Strong /\ examples[1].reason = "10.4"

\* Training starts from one dataset, dealt to all three splits.
Typical ==
  /\ \A n \in DOMAIN examples : examples[n].scenario = Strong
  /\ In({1}) = {1, 2, 3} /\ Members("validation") = {3} /\ Members("test_holdout") = {4}

\* Seven runs behind two models that are calibrated once each, six with other
\* costs, a death or a rollback, five with other calibrations.  What an upload
\* leaves out matters to workers: while there are evaluations it leaves nothing out.
Special == history \cup {"costs" : n \in {k \in DOMAIN disk.policies : disk.policies[k].config # 1}}

Tidy == IsPrefix(disk.calibrations, <<1, 2>>)

Piped ==
  /\ Len(disk.calibrations) + Len(disk.policies) + Len(disk.evaluations)
       <= IF ~Tidy THEN 5 ELSE IF Special = {} THEN 7 ELSE 6
  /\ Len(disk.evaluations) <= 2
  /\ Cardinality(Special) <= 1
  /\ disk.evaluations # <<>> => \A m \in Models : objects[m] = NoObjects \/ Complete(objects[m])

\* One prediction of one worker, in races with promotion and rollback of models
\* that were not evaluated.
Scored ==
  /\ disk.evaluations = <<>>
  /\ Len(disk.calibrations) + Len(disk.policies) <= IF history = {} THEN 4 ELSE 2
  /\ \A n \in DOMAIN disk.policies : disk.policies[n].config = 1
  /\ Len(predictions) <= 1
  /\ \E w \in Scorers : \A x \in Scorers \ {w} : scorer[x] = Idle

\* Contests are explored with one champion, promoted unharmed, and its worker.
Contested ==
  /\ disk = [models |-> 1, calibrations |-> <<1>>, policies |-> <<[calibration |-> 1, config |-> 1]>>,
             evaluations |-> <<>>]
  /\ history = {} /\ operator = Idle /\ Len(policies) = 1 /\ objects[1] = NoObjects
  /\ \A w \in Scorers \ Local : scorer[w] = Idle

Explored ==
  /\ Benchmarked
  /\ Started => Typical /\ Piped
  /\ Scoring => Contesting \/ Scored
  /\ Contesting => Contested

MCNext ==
  /\ Next
  /\ disk' # disk => Quiet
  /\ Explored'

MCSpec == Init /\ [][MCNext]_vars
=============================================================================
