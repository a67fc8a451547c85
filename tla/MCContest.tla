------------------------------ MODULE MCContest ------------------------------
(* Contest for TLC.  Two documents of one global identity, and one of a     *)
(* merchant with a reason code, in two versions and brought twice; a clean  *)
(* proof of delivery and an invoice; two draft requests, two assemblies,    *)
(* two writers and a case with two queue items.                             *)
EXTENDS Contest

CONSTANTS overview, processing, guideline, again, revised, delivery, invoice

MCIngests == {overview, processing, guideline, again, revised}
MCIdentityOf == [k \in MCIngests |-> IF k \in {overview, processing} THEN "general" ELSE "merchant 13.1"]
MCTextOf == [k \in MCIngests |-> IF k = again THEN guideline ELSE k]
MCSections == [t \in MCIngests |-> IF t = overview THEN 2 ELSE 1]
MCSimilarity == [t \in MCIngests |-> [n \in 1..2 |-> IF t = overview THEN IF n = 1 THEN 80 ELSE 30 ELSE 50]]
MCRecommended == [g \in Requests |-> "CONTEST"]

Claim(known, cited) == [facts |-> known, sources |-> cited]
Stated == Claim(TRUE, {})
Answered(amount, length, claims) ==
  [form |-> "valid", recommendation |-> "CONTEST", amount |-> amount, length |-> length, claims |-> claims]

\* What a model answers as a rule, and what the checks are there for.
Citing == Answered({2}, 1, <<Stated, Claim(FALSE, {<<overview, 1>>})>>)
Typical == {Citing, Answered({2}, 1, <<Stated>>)}
Probes ==
  {Answered({3}, 1, <<Stated>>), Answered({0}, 1, <<Stated>>), Answered({2}, 2, <<Stated>>),
   Answered({2}, 0, <<Stated>>), Answered({2}, 1, <<>>), Answered({2}, 1, <<Stated, Claim(FALSE, {})>>),
   Answered({2}, 1, <<Claim(FALSE, {})>>), Answered({2}, 1, <<Claim(FALSE, {<<processing, 1>>})>>),
   [Answered({2}, 1, <<Stated>>) EXCEPT !.recommendation = "ACCEPT"],
   [Answered({2}, 1, <<Stated>>) EXCEPT !.form = "invalid"],
   [Answered({2}, 1, <<Stated>>) EXCEPT !.form = "broken"]}
MCReplies == Typical \cup Probes

MCInit ==
  /\ Init
  /\ scan[invoice] = "CLEAN" /\ scan[delivery] = "PENDING"
  /\ \E hard \in BOOLEAN : verdict = [i \in Items |-> [recommendation |-> "CONTEST", hardBlock |-> hard]]

Studying == \E k \in Ingests : ingest[k].pc # "waiting"
Contesting == queue # <<>> \/ \E d \in Documents : scan[d] # IF d = invoice THEN "CLEAN" ELSE "PENDING"
Shown(g) == [form |-> "valid", recommendation |-> drafts[g].recommendation, amount |-> drafts[g].amount,
             length |-> drafts[g].length, claims |-> drafts[g].claims]
Probed(g) == Shown(g) \notin Typical \cup {Fallback("CONTEST")}
Probing == \E g \in Written : Probed(g)

Busy == {k \in Ingests : ingest[k].pc \notin {"waiting", "done", "failed"}}
        \cup {g \in Requests : request[g].pc \notin {"waiting", "done"}}
        \cup {a \in Assemblers : assembler[a].pc \notin {"waiting", "done"}}
        \cup {w \in Writers : writer[w].pc \notin {"waiting", "done"}}

Calls == {g \in Requests : request[g].pc # "waiting"} \cup {a \in Assemblers : assembler[a].pc # "waiting"}
         \cup {w \in Writers : writer[w].pc # "waiting"}

\* Knowledge and contest are explored with the drafts between them, but apart,
\* and so are the two identities.
Studied ==
  /\ ~Contesting
  /\ \A g \in Written : drafts[g].claims # <<Stated>> \/ Shown(g) = Fallback("CONTEST")
  /\ \A g \in Written : Probed(g) => Shown(g).claims = <<Claim(FALSE, {<<processing, 1>>})>>
  /\ (\E k \in {guideline, again, revised} : ingest[k].pc # "waiting") =>
       Calls = {} /\ \A k \in {overview, processing} : ingest[k].pc = "waiting"

Special == {x \in {"odd answer", "second item", "hard block", "second request"} :
              CASE x = "odd answer"  -> Probing
                [] x = "second item" -> Len(queue) = 2
                [] x = "hard block"  -> verdict[31].hardBlock
                [] OTHER             -> Requests \subseteq Calls}

\* Three calls, or a second writer unless the case is special already.  Of the review only what
\* approves or cancels, and of the moves of the dispute those between calls:
\* whoever asks for it asks once.
Contested ==
  /\ threshold = Configured /\ runs = {}
  /\ Cardinality(Calls) <= IF Writers \subseteq Calls /\ Special = {} THEN 4 ELSE 3
  /\ queue # <<>> => Cardinality(Special) <= 1
  /\ log[31] # <<>> => log[31][1].reviewer = 41
  /\ \A g \in Written : Shown(g) # Citing
  /\ \A i \in Items : \A n \in DOMAIN log[i] :
       log[i][n].justified /\ log[i][n].action \in {"APPROVE_CONTEST", "ESCALATE"}
  /\ scan[delivery] # "FAILED"

\* At most two calls run at once, and with an odd answer one after the other.
Explored ==
  /\ IF Studying THEN Studied ELSE Contested
  /\ Cardinality(Busy) <= IF Probing THEN 1 ELSE 2
  /\ actionable \/ Busy = {}
  /\ answer \in {"none", "created"}
  /\ \A x, y \in Requests \cup Assemblers \cup Writers : y = x + 1 /\ y \in Calls => x \in Calls
  /\ \A y \in Review!Queued : y - 1 \in Items => y - 1 \in Review!Queued

MCNext == Next /\ Explored'

MCSpec == MCInit /\ [][MCNext]_vars
=============================================================================
