------------------------------ MODULE FourEyes ------------------------------
(***************************************************************************)
(* What the review of a case promises of each queue item (H-05): a gated   *)
(* decision carries the names of two different approvers, any other that   *)
(* of one, and a decision once taken stands.                               *)
(***************************************************************************)
CONSTANTS Items, Approvers, Actions

VARIABLES
  gated,            \* the <<item, action>> that take two approvers, for good
  decision,         \* the action decided on each item, "open" before that
  names             \* who stands for which action on each item

Init ==
  /\ gated \subseteq Items \X Actions
  /\ decision = [i \in Items |-> "open"]
  /\ names = [i \in Items |-> {}]

\* The first name under a gated action decides nothing.
Propose(i, u, a) ==
  /\ decision[i] = "open"
  /\ names[i] = {}
  /\ <<i, a>> \in gated
  /\ names' = [names EXCEPT ![i] = {<<u, a>>}]
  /\ UNCHANGED <<gated, decision>>

\* The second name under the same action decides it.
Confirm(i, u, a) ==
  /\ decision[i] = "open"
  /\ \E v \in Approvers \ {u} : names[i] = {<<v, a>>}
  /\ decision' = [decision EXCEPT ![i] = a]
  /\ names' = [names EXCEPT ![i] = @ \cup {<<u, a>>}]
  /\ UNCHANGED gated

\* An action one approver may take alone; it supersedes what was proposed.
Decide(i, u, a) ==
  /\ decision[i] = "open"
  /\ <<i, a>> \notin gated
  /\ decision' = [decision EXCEPT ![i] = a]
  /\ names' = [names EXCEPT ![i] = {<<u, a>>}]
  /\ UNCHANGED gated

Next ==
  \E i \in Items, u \in Approvers, a \in Actions :
    Propose(i, u, a) \/ Confirm(i, u, a) \/ Decide(i, u, a)

vars == <<gated, decision, names>>

Spec == Init /\ [][Next]_vars
=============================================================================
