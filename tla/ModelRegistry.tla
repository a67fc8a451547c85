--------------------------- MODULE ModelRegistry ---------------------------
(***************************************************************************)
(* The model that scores live traffic: the artifacts the offline pipeline   *)
(* leaves on the training machine, their promotion and rollback            *)
(* (src/backend/app/services/mlops/model_registry.py, run by an operator,   *)
(* one script at a time), and the workers that load the champion            *)
(* (champion_loader.py), on the training machine and on others.            *)
(*                                                                         *)
(* Runs of a step are numbered in the order of their directories' names; a *)
(* version of the registry is known by the run its artifact_uri names.     *)
(***************************************************************************)
EXTENDS Integers, Sequences, FiniteSets, SequencesExt, FiniteSetsExt

CONSTANTS Models,     \* the training runs there may be: 1..n
          MaxRuns,    \* bound on the runs of every other step
          Configs,    \* cost configurations
          Costs,      \* what an evaluation may find
          Scorers,    \* workers
          Local,      \* those on the training machine
          MaxRows,    \* bound on the policy rows
          MaxScored   \* bound on the predictions

\* Costs are compared.
ASSUME RegistryAssumption == Models \subseteq Nat \ {0} /\ Costs \subseteq Int

VARIABLES disk,        \* artifacts/ of the training machine
          version,     \* model run -> its row, and what was offered under it
          policies,    \* Seq of the policy rows
          objects,     \* model run -> what object storage holds of its version
          operator, scorer, cache,
          predictions, \* Seq of what each was made with
          history      \* "died", "rolled back"

registryVars == <<disk, version, policies, objects, operator, scorer, cache, predictions, history>>

NoVersion == [status |-> "absent", calibrator |-> 0, costs |-> {}, offered |-> {}]
NoObjects == [model |-> FALSE, calibrator |-> 0]
Idle == [pc |-> "idle"]

RegistryInit ==
  /\ disk = [models |-> 0, calibrations |-> <<>>, policies |-> <<>>, evaluations |-> <<>>]
  /\ version = [m \in Models |-> NoVersion]
  /\ policies = <<>>
  /\ objects = [m \in Models |-> NoObjects]
  /\ operator = Idle
  /\ scorer = [w \in Scorers |-> Idle]
  /\ cache = [w \in Scorers |-> objects]
  /\ predictions = <<>> /\ history = {}

Trained == {m \in Models : version[m].status # "absent"}
Champions == {m \in Models : version[m].status = "champion"}
Retired == {m \in Models : version[m].status = "retired"}
RowsOf(m) == {r \in DOMAIN policies : policies[r].model = m}
ActiveOf(m) == {r \in RowsOf(m) : policies[r].active}
-----------------------------------------------------------------------------
\* The offline pipeline.  A step takes the newest run of the one before it.
unscored == <<version, policies, objects, operator, scorer, cache, predictions, history>>

Train ==
  /\ disk.models + 1 \in Models
  /\ disk' = [disk EXCEPT !.models = @ + 1]
  /\ UNCHANGED unscored

Calibrate ==
  /\ disk.models > 0 /\ Len(disk.calibrations) < MaxRuns
  /\ disk' = [disk EXCEPT !.calibrations = Append(@, disk.models)]
  /\ UNCHANGED unscored

OptimizeThresholds(config) ==
  /\ disk.calibrations # <<>> /\ Len(disk.policies) < MaxRuns
  /\ disk' = [disk EXCEPT !.policies = Append(@, [calibration |-> Len(disk.calibrations), config |-> config])]
  /\ UNCHANGED unscored

\* Refused unless the calibrator is of this model and the policy of this calibrator.
EvaluateHoldout(cost) ==
  /\ disk.policies # <<>> /\ Len(disk.evaluations) < MaxRuns
  /\ Last(disk.calibrations) = disk.models
  /\ Last(disk.policies).calibration = Len(disk.calibrations)
  /\ disk' = [disk EXCEPT !.evaluations =
                Append(@, [model |-> disk.models, policy |-> Len(disk.policies), cost |-> cost])]
  /\ UNCHANGED unscored
-----------------------------------------------------------------------------
\* Mutant: an evaluation of this model counts, under whatever policy it was made.
HoldoutOfModel(m, p) ==
  IF disk.evaluations # <<>> /\ Last(disk.evaluations).model = m
  THEN {Last(disk.evaluations).cost} ELSE {}

\* The newest evaluation, if it names this model run and this policy run.
HoldoutMetrics(m, p) ==
  IF disk.evaluations # <<>> /\ Last(disk.evaluations).model = m /\ Last(disk.evaluations).policy = p
  THEN {Last(disk.evaluations).cost} ELSE {}

OnDisk == disk.models > 0 /\ disk.calibrations # <<>> /\ disk.policies # <<>>

Candidate ==
  [model |-> disk.models, calibrator |-> Len(disk.calibrations), policy |-> Len(disk.policies),
   config |-> Last(disk.policies).config, costs |-> HoldoutMetrics(disk.models, Len(disk.policies))]

\* Several costs may be recorded of a version, and several of its policies be
\* active: any of them may be read.
Evaluated(c, champion) ==
  \/ version[champion].costs = {}
  \/ /\ \E r \in ActiveOf(champion) : policies[r].config = c.config
     /\ \E recorded \in version[champion].costs : \A x \in c.costs : x <= recorded
     /\ c.costs # {}

Refused(c, champion) ==
  /\ version[champion].costs # {}
  /\ \/ c.costs = {}
     \/ ActiveOf(champion) = {}
     \/ \E r \in ActiveOf(champion) : policies[r].config # c.config
     \/ \E recorded \in version[champion].costs : \E x \in c.costs : x > recorded

\* The row of the candidate, which keeps the calibrator of the first time.
Registered(c, status) ==
  [status |-> status, costs |-> version[c.model].costs \cup c.costs,
   calibrator |-> IF c.model \in Trained THEN version[c.model].calibrator ELSE c.calibrator,
   offered |-> version[c.model].offered \cup {<<c.calibrator, c.policy>>}]

\* mark_champion
Marked(m) ==
  [n \in Models |-> IF n \in Champions \ {m} THEN [version[n] EXCEPT !.status = "retired"] ELSE version[n]]

Reject ==
  /\ operator = Idle /\ OnDisk
  /\ Candidate.model \notin Champions
  /\ \E champion \in Champions : Refused(Candidate, champion)
  /\ version' = [version EXCEPT ![Candidate.model] = Registered(Candidate, "rejected_regression")]
  /\ UNCHANGED <<disk, policies, objects, operator, scorer, cache, predictions, history>>

\* Already the champion: nothing is done, whatever is missing of it.
Promote ==
  /\ operator = Idle /\ OnDisk /\ Len(policies) < MaxRows
  /\ Candidate.model \notin Champions
  /\ Champions # {} => \E champion \in Champions : Evaluated(Candidate, champion)
  /\ version' = [Marked(Candidate.model) EXCEPT ![Candidate.model] = Registered(Candidate, "champion")]
  /\ operator' = [pc |-> "uploading", candidate |-> Candidate, old |-> Champions]
  /\ UNCHANGED <<disk, policies, objects, scorer, cache, predictions, history>>

\* Best effort: none, the model, or both get through.
Upload(through) ==
  /\ operator.pc = "uploading"
  /\ objects' = [objects EXCEPT ![operator.candidate.model] =
                   [model |-> @.model \/ through > 0,
                    calibrator |-> IF through > 1 THEN operator.candidate.calibrator ELSE @.calibrator]]
  /\ operator' = [operator EXCEPT !.pc = "uploaded"]
  /\ UNCHANGED <<disk, version, policies, scorer, cache, predictions, history>>

Deactivated(old) ==
  [r \in DOMAIN policies |-> IF policies[r].model \in old THEN [policies[r] EXCEPT !.active = FALSE] ELSE policies[r]]

ActivatePolicy ==
  /\ operator.pc = "uploaded"
  /\ policies' = Append(Deactivated(operator.old),
                   [model |-> operator.candidate.model, run |-> operator.candidate.policy,
                    config |-> operator.candidate.config, active |-> TRUE])
  /\ operator' = Idle
  /\ UNCHANGED <<disk, version, objects, scorer, cache, predictions, history>>

\* To the retired version created last, and any of its policies: ids are random.
Rollback(m, r) ==
  /\ operator = Idle
  /\ Retired # {} /\ m = Max(Retired)
  /\ r \in RowsOf(m)
  /\ version' = [Marked(m) EXCEPT ![m].status = "champion"]
  /\ operator' = [pc |-> "rolling back", row |-> r, old |-> Champions]
  /\ history' = history \cup {"rolled back"}
  /\ UNCHANGED <<disk, policies, objects, scorer, cache, predictions>>

ReactivatePolicy ==
  /\ operator.pc = "rolling back"
  /\ policies' = [Deactivated(operator.old) EXCEPT ![operator.row].active = TRUE]
  /\ operator' = Idle
  /\ UNCHANGED <<disk, version, objects, scorer, cache, predictions, history>>

OperatorDies ==
  /\ operator # Idle
  /\ operator' = Idle
  /\ history' = history \cup {"died"}
  /\ UNCHANGED <<disk, version, policies, objects, scorer, cache, predictions>>
-----------------------------------------------------------------------------
\* load_champion_artifacts, query by query, and the prediction.
unregistered == <<disk, version, policies, objects, operator, history>>

ReadChampion(w) ==
  /\ scorer[w] = Idle /\ Len(predictions) < MaxScored
  /\ \E m \in Champions :
       scorer' = [scorer EXCEPT ![w] = [pc |-> "version", model |-> m, calibrator |-> version[m].calibrator]]
  /\ UNCHANGED <<unregistered, cache, predictions>>

ReadPolicy(w) ==
  /\ scorer[w].pc = "version"
  /\ \E r \in ActiveOf(scorer[w].model) :
       scorer' = [scorer EXCEPT ![w] = [pc |-> "policy", model |-> scorer[w].model,
                                        calibrator |-> scorer[w].calibrator, policy |-> policies[r].run]]
  /\ UNCHANGED <<unregistered, cache, predictions>>

\* What worker w has of version m once it has fetched what it had not.
Fetched(w, m) ==
  [model |-> cache[w][m].model \/ objects[m].model,
   calibrator |-> IF cache[w][m].calibrator # 0 THEN cache[w][m].calibrator ELSE objects[m].calibrator]

Complete(o) == o.model /\ o.calibrator # 0

Score(w) ==
  LET m == scorer[w].model IN
  /\ scorer[w].pc = "policy"
  /\ w \in Local \/ Complete(Fetched(w, m))
  /\ cache' = IF w \in Local THEN cache ELSE [cache EXCEPT ![w][m] = Fetched(w, m)]
  /\ predictions' = Append(predictions,
       [model |-> m, policy |-> scorer[w].policy,
        calibrator |-> IF w \in Local THEN scorer[w].calibrator ELSE Fetched(w, m).calibrator])
  /\ scorer' = [scorer EXCEPT ![w] = Idle]
  /\ UNCHANGED unregistered

\* ChampionArtifactsUnavailable, because the storage is or an object is missing: the
\* case is not scored.  The model may have been fetched.
Unavailable(w) ==
  /\ \/ scorer[w].pc = "version" /\ ActiveOf(scorer[w].model) = {} /\ UNCHANGED cache
     \/ /\ scorer[w].pc = "policy" /\ w \notin Local
        /\ ~Complete(cache[w][scorer[w].model])
        /\ \E got \in {cache[w][scorer[w].model].model, Fetched(w, scorer[w].model).model} :
             cache' = [cache EXCEPT ![w][scorer[w].model].model = got]
  /\ scorer' = [scorer EXCEPT ![w] = Idle]
  /\ UNCHANGED <<unregistered, predictions>>

PipelineStep ==
  \/ Train \/ Calibrate
  \/ \E config \in Configs : OptimizeThresholds(config)
  \/ \E cost \in Costs : EvaluateHoldout(cost)

OperatorStep ==
  \/ Reject \/ Promote \/ ActivatePolicy \/ ReactivatePolicy \/ OperatorDies
  \/ \E through \in 0..2 : Upload(through)
  \/ \E m \in Models : \E r \in RowsOf(m) : Rollback(m, r)

ScorerStep == \E w \in Scorers : ReadChampion(w) \/ ReadPolicy(w) \/ Score(w) \/ Unavailable(w)

RegistryStep == PipelineStep \/ OperatorStep \/ ScorerStep
-----------------------------------------------------------------------------
\* One model serves, and never a worse one: whatever is trained, calibrated,
\* offered, refused or rolled back, and wherever the operator dies,
\*  - once there is a champion there is exactly one, and between the scripts,
\*    if none died, its policy is the only active one;
\*  - a prediction is made with a policy of the very version that made it and,
\*    if only one form of that version was ever offered, with that form;
\*  - without a rollback, a champion is not worse than those retired before it,
\*    if no version was evaluated with two results, and serves what was evaluated.
EvaluatedOnce == \A m \in Models : \A x, y \in version[m].costs : x = y

RegistryIsSound ==
  /\ Cardinality(Champions) <= 1
  /\ policies # <<>> => Champions # {}
  /\ operator = Idle /\ "died" \notin history =>
       \A m \in Champions : \E r \in RowsOf(m) : {n \in DOMAIN policies : policies[n].active} = {r}
  /\ \A n \in DOMAIN predictions :
       LET p == predictions[n] IN
       /\ \E r \in RowsOf(p.model) : policies[r].run = p.policy
       /\ Cardinality(version[p.model].offered) = 1 => <<p.calibrator, p.policy>> \in version[p.model].offered
  /\ "rolled back" \notin history =>
       /\ EvaluatedOnce =>
            \A a \in Retired, c \in Champions : \A x \in version[a].costs, y \in version[c].costs : y <= x
       /\ \A r \in DOMAIN policies :
            version[policies[r].model].costs # {} =>
              \E n \in DOMAIN disk.evaluations : /\ disk.evaluations[n].model = policies[r].model
                                                /\ disk.evaluations[n].policy = policies[r].run
=============================================================================
