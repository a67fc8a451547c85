----------------------------- MODULE Contest_proofs -----------------------------
(***************************************************************************)
(* The contest of a dispute, for any number of ingestions, draft requests, *)
(* assemblies, writers, documents, queue items and approvers, and whatever *)
(* the language model answers.                                             *)
(***************************************************************************)
EXTENDS Contest, FiniteSetTheorems, SequenceTheorems, TLAPS

-----------------------------------------------------------------------------
(*                            The knowledge base                           *)

\* What a call has read is of the identity it writes, and no newer than what it
\* takes for the highest version.
ReadBefore(k) ==
  /\ ingest[k].pc \in {"waiting", "read", "versioned"} => sources[k].status = "none"
  /\ ingest[k].pc = "waiting" => ingest[k].active = None
  /\ ingest[k].pc \in {"read", "versioned"} /\ ingest[k].active # None =>
       ingest[k].active \in Versions(IdentityOf[k])
  /\ ingest[k].pc = "versioned" /\ ingest[k].active # None =>
       sources[ingest[k].active].version <= ingest[k].highest

\* A call embeds all sections of a source or none.
CutWhole(k) ==
  /\ ingest[k].pc \in {"stored", "cut"} => ingest[k].source \in Ingests
  /\ ingest[k].pc = "cut" => ingest[k].missing \in {{}, SectionsOf(ingest[k].source)}

\* An identity has a highest version.
Numbers(i) == {0} \cup {sources[k].version : k \in Versions(i)}
HasHighest == \A i : \E x \in Numbers(i) : \A y \in Numbers(i) : x >= y

KInv ==
  /\ KnowledgeTypeOK
  /\ \A k \in Ingests : ReadBefore(k) /\ CutWhole(k)
  /\ HasHighest
  /\ KnowledgeIsSound

IngestState ==
  [pc : {"waiting", "read", "versioned", "stored", "cut", "done", "failed"},
   active : Ingests \cup {None}, highest : Nat,
   source : Ingests \cup {None}, missing : SUBSET Chunks]

LEMMA KInvInit == KnowledgeInit => KInv
<1> SUFFICES ASSUME KnowledgeInit PROVE KInv
  OBVIOUS
<1>1. KnowledgeTypeOK
  BY DEF KnowledgeInit, KnowledgeTypeOK, NotIngested, NoSource
<1>2. \A i : Versions(i) = {}
  BY DEF KnowledgeInit, Versions, NoSource
<1>3. HasHighest
  BY <1>2 DEF HasHighest, Numbers
<1>4. KnowledgeIsSound
  BY <1>2 DEF KnowledgeInit, KnowledgeIsSound, NoSource
<1>5. \A k \in Ingests : ReadBefore(k) /\ CutWhole(k)
  BY DEF KnowledgeInit, ReadBefore, CutWhole, NotIngested, NoSource
<1> QED
  BY <1>1, <1>3, <1>4, <1>5 DEF KInv

\* A call that moves and stores nothing.
LEMMA KMoves ==
  ASSUME KInv, NEW k \in Ingests, UNCHANGED <<sources, chunks>>,
         NEW n \in IngestState,
         ingest' = [ingest EXCEPT ![k] = n],
         ReadBefore(k)', CutWhole(k)'
  PROVE  KInv'
<1>1. \A j \in Ingests : j # k => ingest'[j] = ingest[j]
  BY DEF KInv, KnowledgeTypeOK
<1>2. KnowledgeTypeOK'
  BY DEF KInv, KnowledgeTypeOK, IngestState
<1>3. \A j \in Ingests : ReadBefore(j)' /\ CutWhole(j)'
  BY <1>1 DEF KInv, ReadBefore, CutWhole, Versions
<1>4. \A i : Versions(i)' = Versions(i) /\ Active(i)' = Active(i) /\ Numbers(i)' = Numbers(i)
  BY DEF Versions, Active, Numbers
<1>5. HasHighest' /\ KnowledgeIsSound'
  BY <1>4 DEF KInv, HasHighest, KnowledgeIsSound
<1> QED
  BY <1>2, <1>3, <1>5 DEF KInv

LEMMA HighestIsHighest ==
  ASSUME KInv, NEW i
  PROVE  Highest(i) \in Nat /\ \A k \in Versions(i) : sources[k].version <= Highest(i)
<1>1. Highest(i) = CHOOSE x \in Numbers(i) : \A y \in Numbers(i) : x >= y
  BY DEF Highest, Max, Numbers
<1>2. Highest(i) \in Numbers(i) /\ \A y \in Numbers(i) : Highest(i) >= y
  BY <1>1 DEF KInv, HasHighest
<1>3. \A k \in Versions(i) : sources[k].version \in Nat
  BY DEF KInv, KnowledgeTypeOK, Versions
<1> QED
  BY <1>2, <1>3 DEF Numbers

LEMMA StepReadActive ==
  ASSUME KInv, NEW k \in Ingests, ReadActive(k)
  PROVE  KInv'
<1>1. UNCHANGED <<sources, chunks>>
  BY DEF ReadActive
<1>2. ingest[k].pc = "waiting" /\ sources[k].status = "none" /\ ingest[k].active = None
  BY DEF ReadActive, KInv, ReadBefore
<1>3. ingest[k] \in IngestState
  BY DEF KInv, KnowledgeTypeOK, IngestState
<1>4. PICK n \in IngestState :
        /\ ingest' = [ingest EXCEPT ![k] = n]
        /\ \/ n.pc = "read" /\ n.active \in {None} \cup Versions(IdentityOf[k])
           \/ n.pc = "stored" /\ n.source \in Ingests
  <2>1. CASE ingest' = [ingest EXCEPT ![k].pc = "read"]
    <3> DEFINE n == [ingest[k] EXCEPT !.pc = "read"]
    <3>1. n \in IngestState /\ n.pc = "read" /\ n.active = None
      BY <1>2, <1>3 DEF IngestState
    <3>2. ingest' = [ingest EXCEPT ![k] = n]
      BY <2>1
    <3> HIDE DEF n
    <3> QED
      BY <3>1, <3>2
  <2>2. ASSUME NEW a \in Active(IdentityOf[k]),
               ingest' = [ingest EXCEPT ![k] =
                 IF TextOf[a] = TextOf[k] THEN [@ EXCEPT !.pc = "stored", !.source = a]
                                          ELSE [@ EXCEPT !.pc = "read", !.active = a]]
        PROVE  \E n \in IngestState :
                 /\ ingest' = [ingest EXCEPT ![k] = n]
                 /\ \/ n.pc = "read" /\ n.active \in {None} \cup Versions(IdentityOf[k])
                    \/ n.pc = "stored" /\ n.source \in Ingests
    <3>1. a \in Ingests /\ a \in Versions(IdentityOf[k])
      BY DEF Active, Versions
    <3> DEFINE m == [ingest[k] EXCEPT !.pc = "stored", !.source = a]
               n == [ingest[k] EXCEPT !.pc = "read", !.active = a]
    <3>2. m \in IngestState /\ m.pc = "stored" /\ m.source = a
      BY <1>3, <3>1 DEF IngestState
    <3>3. n \in IngestState /\ n.pc = "read" /\ n.active = a
      BY <1>3, <3>1 DEF IngestState
    <3>4. ingest' = [ingest EXCEPT ![k] = IF TextOf[a] = TextOf[k] THEN m ELSE n]
      BY <2>2
    <3> HIDE DEF m, n
    <3>5. CASE TextOf[a] = TextOf[k]
      BY <3>1, <3>2, <3>4, <3>5
    <3>6. CASE TextOf[a] # TextOf[k]
      BY <3>1, <3>3, <3>4, <3>6
    <3> QED
      BY <3>5, <3>6
  <2> QED
    BY <2>1, <2>2 DEF ReadActive
<1>5. ingest'[k] = n
  BY <1>4 DEF KInv, KnowledgeTypeOK
<1>6. ReadBefore(k)' /\ CutWhole(k)'
  BY <1>1, <1>2, <1>4, <1>5 DEF ReadBefore, CutWhole, Versions
<1> QED
  BY <1>1, <1>4, <1>6, KMoves

LEMMA StepReadVersion ==
  ASSUME KInv, NEW k \in Ingests, ReadVersion(k)
  PROVE  KInv'
<1> DEFINE h == Highest(IdentityOf[k])
           n == [ingest[k] EXCEPT !.pc = "versioned", !.highest = h]
<1>1. UNCHANGED <<sources, chunks>> /\ ingest[k].pc = "read"
  BY DEF ReadVersion
<1>2. h \in Nat /\ \A j \in Versions(IdentityOf[k]) : sources[j].version <= h
  BY HighestIsHighest
<1>3. ingest' = [ingest EXCEPT ![k] = n]
  BY DEF ReadVersion
<1> HIDE DEF h
<1>4. /\ n \in IngestState /\ n.pc = "versioned" /\ n.highest = h
      /\ n.active = ingest[k].active
  BY <1>2 DEF KInv, KnowledgeTypeOK, IngestState
<1> HIDE DEF n
<1>5. ingest'[k] = n
  BY <1>3 DEF KInv, KnowledgeTypeOK
<1>6. ReadBefore(k)' /\ CutWhole(k)'
  BY <1>1, <1>2, <1>4, <1>5 DEF KInv, ReadBefore, CutWhole, Versions
<1> QED
  BY <1>1, <1>3, <1>4, <1>6, KMoves

LEMMA StepCut ==
  ASSUME KInv, NEW k \in Ingests, Cut(k)
  PROVE  KInv'
<1>1. UNCHANGED <<sources, chunks>> /\ ingest[k].pc = "stored"
  BY DEF Cut
<1>2. PICK s \in Ingests : s = ingest[k].source
  BY <1>1 DEF KInv, CutWhole
<1>x. PICK x \in IngestState : x = ingest[k]
  BY DEF KInv, KnowledgeTypeOK, IngestState
<1> DEFINE m == SectionsOf(s) \ chunks
           n == [x EXCEPT !.pc = "cut", !.missing = m]
<1>3. m \in {{}, SectionsOf(s)} /\ m \subseteq Chunks
  BY DEF KInv, KnowledgeIsSound, SectionsOf, Chunks
<1>4. ingest' = [ingest EXCEPT ![k] = n]
  BY <1>2, <1>x DEF Cut
<1> HIDE DEF m
<1>5. n \in IngestState /\ n.pc = "cut" /\ n.missing = m /\ n.source = s
  <2>1. n.pc = "cut" /\ n.missing = m /\ n.source = x.source
    BY DEF IngestState
  <2>2. n \in IngestState
    BY <1>3 DEF IngestState
  <2> QED
    BY <1>2, <1>x, <2>1, <2>2
<1> HIDE DEF n
<1>6. ingest'[k] = n
  BY <1>4 DEF KInv, KnowledgeTypeOK
<1>7. ReadBefore(k)' /\ CutWhole(k)'
  BY <1>3, <1>5, <1>6 DEF ReadBefore, CutWhole, SectionsOf
<1> QED
  BY <1>1, <1>4, <1>5, <1>7, KMoves

LEMMA StepIngestFails ==
  ASSUME KInv, NEW k \in Ingests, IngestFails(k)
  PROVE  KInv'
<1> DEFINE n == [ingest[k] EXCEPT !.pc = "failed", !.missing = {}]
<1>1. UNCHANGED <<sources, chunks>>
  BY DEF IngestFails
<1>2. ingest' = [ingest EXCEPT ![k] = n]
  BY DEF IngestFails
<1>3. n \in IngestState /\ n.pc = "failed"
  BY DEF KInv, KnowledgeTypeOK, IngestState
<1> HIDE DEF n
<1>4. ingest'[k] = n
  BY <1>2 DEF KInv, KnowledgeTypeOK
<1>5. ReadBefore(k)' /\ CutWhole(k)'
  BY <1>3, <1>4 DEF ReadBefore, CutWhole
<1> QED
  BY <1>1, <1>2, <1>3, <1>5, KMoves

\* The sections of different sources are different.
LEMMA StepEmbed ==
  ASSUME KInv, NEW k \in Ingests, Embed(k)
  PROVE  KInv'
<1> DEFINE n == [ingest[k] EXCEPT !.pc = "done", !.missing = {}]
<1>1. UNCHANGED sources /\ chunks' = chunks \cup ingest[k].missing
  BY DEF Embed
<1>2. ingest' = [ingest EXCEPT ![k] = n]
  BY DEF Embed
<1>3. n \in IngestState /\ n.pc = "done"
  BY DEF KInv, KnowledgeTypeOK, IngestState
<1> HIDE DEF n
<1>4. ingest'[k] = n /\ \A j \in Ingests : j # k => ingest'[j] = ingest[j]
  BY <1>2 DEF KInv, KnowledgeTypeOK
<1>5. PICK s \in Ingests : /\ ingest[k].missing \in {{}, SectionsOf(s)}
                           /\ ingest[k].missing \cap chunks = {}
  BY DEF Embed, KInv, CutWhole
<1>6. \A j \in Ingests : ReadBefore(j)' /\ CutWhole(j)'
  BY <1>1, <1>3, <1>4 DEF KInv, ReadBefore, CutWhole, Versions, SectionsOf
<1>7. ingest[k].missing \subseteq Chunks
  BY DEF KInv, KnowledgeTypeOK
<1>8. KnowledgeTypeOK'
  BY <1>1, <1>2, <1>3, <1>7 DEF KInv, KnowledgeTypeOK, IngestState
<1>9. \A j \in Ingests : SectionsOf(j) \subseteq chunks' \/ SectionsOf(j) \cap chunks' = {}
  <2> SUFFICES ASSUME NEW j \in Ingests
               PROVE  SectionsOf(j) \subseteq chunks' \/ SectionsOf(j) \cap chunks' = {}
    OBVIOUS
  <2>1. SectionsOf(j) \subseteq chunks \/ SectionsOf(j) \cap chunks = {}
    BY DEF KInv, KnowledgeIsSound
  <2>2. CASE j = s
    BY <1>1, <1>5, <2>1, <2>2
  <2>3. CASE j # s
    <3>1. SectionsOf(j) \cap SectionsOf(s) = {}
      BY <2>3 DEF SectionsOf
    <3> QED
      BY <1>1, <1>5, <2>1, <3>1
  <2> QED
    BY <2>2, <2>3
<1>10. \A i : Versions(i)' = Versions(i) /\ Active(i)' = Active(i) /\ Numbers(i)' = Numbers(i)
  BY <1>1 DEF Versions, Active, Numbers
<1>11. HasHighest' /\ KnowledgeIsSound'
  BY <1>1, <1>9, <1>10 DEF KInv, HasHighest, KnowledgeIsSound, SectionsOf
<1> QED
  BY <1>6, <1>8, <1>11 DEF KInv

LEMMA StepStoreSource ==
  ASSUME KInv, NEW k \in Ingests, StoreSource(k)
  PROVE  KInv'
<1> DEFINE n == [ingest[k] EXCEPT !.pc = "stored", !.source = k]
<1>1. PICK v \in Nat : v = ingest[k].highest + 1
  BY DEF KInv, KnowledgeTypeOK
<1>2. PICK a \in Ingests \cup {None} : a = ingest[k].active
  BY DEF KInv, KnowledgeTypeOK
<1>3. /\ sources[k].status = "none" /\ a # k
      /\ a \in Ingests => /\ a \in Versions(IdentityOf[k])
                          /\ sources[a].version \in Nat /\ sources[a].version < v
  BY <1>1, <1>2, KnowledgeAssumption
     DEF StoreSource, KInv, ReadBefore, KnowledgeTypeOK, Versions
<1>4. UNCHANGED chunks
  BY DEF StoreSource
<1>5. ingest' = [ingest EXCEPT ![k] = n]
  BY DEF StoreSource
<1>6. n \in IngestState /\ n.pc = "stored" /\ n.source = k
  BY DEF KInv, KnowledgeTypeOK, IngestState
<1> HIDE DEF n
<1>7. ingest'[k] = n /\ \A j \in Ingests : j # k => ingest'[j] = ingest[j]
  BY <1>5 DEF KInv, KnowledgeTypeOK
<1>8. /\ sources'[k].version = v /\ sources'[k].status = "ACTIVE"
      /\ a \in Ingests => sources'[a].version = sources[a].version /\ sources'[a].status = "DEPRECATED"
      /\ \A j \in Ingests \ {k, a} : sources'[j] = sources[j]
      /\ sources' \in [Ingests -> [version : Nat, status : {"none", "ACTIVE", "DEPRECATED"}]]
  <2> DEFINE new(s) == CASE s = k -> [version |-> v, status |-> "ACTIVE"]
                         [] s = a -> [sources[s] EXCEPT !.status = "DEPRECATED"]
                         [] OTHER -> sources[s]
  <2>1. sources' = [s \in Ingests |-> new(s)]
    BY <1>1, <1>2 DEF StoreSource
  <2>2. \A s \in Ingests : sources[s] \in [version : Nat, status : {"none", "ACTIVE", "DEPRECATED"}]
    BY DEF KInv, KnowledgeTypeOK
  <2>3. new(k) = [version |-> v, status |-> "ACTIVE"]
    BY <1>3
  <2>4. a \in Ingests => new(a) = [sources[a] EXCEPT !.status = "DEPRECATED"]
    BY <1>3
  <2>5. \A j \in Ingests \ {k, a} : new(j) = sources[j]
    OBVIOUS
  <2>6. \A s \in Ingests : new(s) \in [version : Nat, status : {"none", "ACTIVE", "DEPRECATED"}]
    BY <2>2, <2>3, <2>4, <2>5
  <2> HIDE DEF new
  <2> QED
    BY <2>1, <2>2, <2>3, <2>4, <2>5, <2>6
<1>9. \A i : \A j \in Ingests : j \in Versions(i)' <=>
        j \in Versions(i) \/ (j = k /\ i = IdentityOf[k])
  BY <1>3, <1>8 DEF Versions
<1>10. \A j \in Ingests : j # k => sources'[j].version = sources[j].version
  BY <1>8
<1>11. KnowledgeTypeOK'
  BY <1>4, <1>5, <1>6, <1>8 DEF KInv, KnowledgeTypeOK, IngestState
<1>12. \A j \in Ingests : ReadBefore(j)' /\ CutWhole(j)'
  <2> SUFFICES ASSUME NEW j \in Ingests PROVE ReadBefore(j)' /\ CutWhole(j)'
    OBVIOUS
  <2>1. CASE j = k
    BY <1>6, <1>7, <2>1 DEF ReadBefore, CutWhole
  <2>2. CASE j # k
    <3>1. ReadBefore(j) /\ CutWhole(j)
      BY DEF KInv
    <3>2. ingest'[j] = ingest[j]
      BY <1>7, <2>2
    <3>3. sources[j].status = "none" => sources'[j].status = "none"
      BY <1>3, <1>8, <2>2 DEF Versions
    <3>4. \A b \in Versions(IdentityOf[j]) : /\ b \in Versions(IdentityOf[j])'
                                            /\ sources'[b].version = sources[b].version
      BY <1>3, <1>9, <1>10 DEF Versions
    <3> QED
      BY <3>1, <3>2, <3>3, <3>4 DEF ReadBefore, CutWhole, SectionsOf
  <2> QED
    BY <2>1, <2>2
<1>13. HasHighest'
  <2> SUFFICES ASSUME NEW i PROVE \E x \in Numbers(i)' : \A y \in Numbers(i)' : x >= y
    BY DEF HasHighest
  <2>1. PICK x \in Numbers(i) : \A y \in Numbers(i) : x >= y
    BY DEF KInv, HasHighest
  <2>2. \A j \in Versions(i) : j # k /\ sources'[j].version = sources[j].version
    BY <1>3, <1>10 DEF Versions
  <2>3. x \in Nat
    BY DEF KInv, KnowledgeTypeOK, Numbers, Versions
  <2>4. CASE i # IdentityOf[k]
    <3>1. Numbers(i)' = Numbers(i)
      BY <1>9, <2>2, <2>4 DEF Numbers, Versions
    <3> QED
      BY <2>1, <3>1
  <2>5. CASE i = IdentityOf[k]
    <3>1. Numbers(i)' = Numbers(i) \cup {v}
      <4>1. \A j \in Versions(i)' : sources'[j].version \in Numbers(i) \cup {v}
        BY <1>8, <1>9, <2>2 DEF Numbers, Versions
      <4>2. \A j \in Versions(i) : j \in Versions(i)' /\ sources'[j].version = sources[j].version
        BY <1>9, <2>2 DEF Versions
      <4>3. k \in Versions(i)' /\ sources'[k].version = v
        BY <1>8, <1>9, <2>5
      <4>4. Numbers(i)' = {0} \cup {sources'[j].version : j \in Versions(i)'}
        BY DEF Numbers
      <4>5. Numbers(i) = {0} \cup {sources[j].version : j \in Versions(i)}
        BY DEF Numbers
      <4>6. Numbers(i)' \subseteq Numbers(i) \cup {v}
        BY <4>1, <4>4, <4>5
      <4>7. Numbers(i) \cup {v} \subseteq Numbers(i)'
        BY <4>2, <4>3, <4>4, <4>5
      <4> QED
        BY <4>6, <4>7
    <3>2. \A y \in Numbers(i) : y \in Nat
      BY DEF KInv, KnowledgeTypeOK, Numbers, Versions
    <3>3. CASE v >= x
      <4>1. \A y \in Numbers(i) : v >= y
        BY <2>1, <2>3, <3>2, <3>3
      <4>2. v \in Numbers(i)' /\ \A y \in Numbers(i)' : v >= y
        BY <3>1, <4>1
      <4> QED
        BY <4>2
    <3>4. CASE x >= v
      BY <1>1, <2>1, <2>3, <3>1, <3>2, <3>4
    <3> QED
      BY <1>1, <2>3, <3>3, <3>4
  <2> QED
    BY <2>4, <2>5
<1>14. KnowledgeIsSound'
  <2>1. ASSUME NEW j \in Ingests, sources'[j].status = "DEPRECATED"
        PROVE  \E w \in Active(IdentityOf[j])' : sources'[w].version > sources'[j].version
    <3>1. k \in Active(IdentityOf[k])' /\ j # k
      BY <1>8, <1>9, <2>1 DEF Active
    <3>2. CASE j = a
      BY <1>1, <1>3, <1>8, <2>1, <3>1, <3>2 DEF Versions
    <3>3. CASE j # a
      <4>1. sources'[j] = sources[j]
        BY <1>8, <3>1, <3>3
      <4>2. PICK w \in Active(IdentityOf[j]) : sources[w].version > sources[j].version
        BY <2>1, <4>1 DEF KInv, KnowledgeIsSound
      <4>3. w # k /\ w \in Versions(IdentityOf[j]) /\ w \in Ingests
        BY <1>3, <4>2 DEF Active, Versions
      <4>4. CASE w = a
        <5>1. IdentityOf[j] = IdentityOf[k]
          BY <1>3, <4>3, <4>4 DEF Versions
        <5>2. sources[j].version \in Nat /\ v > sources[j].version
          BY <1>1, <1>3, <4>2, <4>3, <4>4 DEF KInv, KnowledgeTypeOK
        <5> QED
          BY <1>8, <3>1, <4>1, <5>1, <5>2
      <4>5. CASE w # a
        <5>1. sources'[w] = sources[w]
          BY <1>8, <4>3, <4>5
        <5>2. w \in Active(IdentityOf[j])'
          BY <1>9, <4>2, <4>3, <5>1 DEF Active
        <5> QED
          BY <4>1, <4>2, <5>1, <5>2
      <4> QED
        BY <4>4, <4>5
    <3> QED
      BY <3>2, <3>3
  <2>2. ASSUME NEW i \in Unique, NEW x \in Versions(i)', NEW y \in Versions(i)',
               sources'[x].version = sources'[y].version
        PROVE  x = y
    <3>1. x \in Ingests /\ y \in Ingests
      BY DEF Versions
    <3>2. i = IdentityOf[k] => \A w \in Versions(i) : sources[w].version # v
      BY <1>1 DEF StoreSource, VersionFree
    <3>3. \A w \in Versions(i) : w # k /\ w \in Ingests /\ sources'[w].version = sources[w].version
      BY <1>3, <1>10 DEF Versions
    <3>4. \A p, q \in Versions(i) : sources[p].version = sources[q].version => p = q
      BY DEF KInv, KnowledgeIsSound
    <3> QED
      BY <1>8, <1>9, <2>2, <3>1, <3>2, <3>3, <3>4
  <2>3. \A j \in Ingests : SectionsOf(j) \subseteq chunks' \/ SectionsOf(j) \cap chunks' = {}
    BY <1>4 DEF KInv, KnowledgeIsSound
  <2> QED
    BY <2>1, <2>2, <2>3 DEF KnowledgeIsSound, SectionsOf
<1> QED
  BY <1>11, <1>12, <1>13, <1>14 DEF KInv

LEMMA KInvStep ==
  ASSUME KInv, [Next]_vars
  PROVE  KInv'
<1>1. CASE UNCHANGED knowledgeVars
  BY <1>1 DEF knowledgeVars, KInv, KnowledgeTypeOK, ReadBefore, CutWhole, HasHighest, Numbers,
              KnowledgeIsSound, Versions, Active, SectionsOf
<1>2. ASSUME NEW k \in Ingests, KnowledgeStep(k)
      PROVE  KInv'
  BY <1>2, StepReadActive, StepReadVersion, StepStoreSource, StepCut, StepEmbed, StepIngestFails
     DEF KnowledgeStep
<1> QED
  BY <1>1, <1>2 DEF Next, vars, Assemble, Decide

\* The newest version of an identity is the valid one, and a source is
\* searchable as a whole or not at all, whichever calls run at once and fail.
THEOREM KnowledgeSound == Spec => []KnowledgeIsSound
<1>1. Init => KInv
  BY KInvInit DEF Init
<1>2. KInv /\ [Next]_vars => KInv'
  BY KInvStep
<1>3. KInv => KnowledgeIsSound
  BY DEF KInv
<1> QED
  BY <1>1, <1>2, <1>3, PTL DEF Spec
-----------------------------------------------------------------------------
(*                                The drafts                               *)

Claims == {a.claims : a \in Replies} \cup {Fallback("").claims, <<>>}

RequestState ==
  [pc : {"waiting", "lowered", "found", "ready", "updating", "locked", "done"},
   saved : {0, Configured}, given : SUBSET Chunks, old : SUBSET Requests]

DraftRow ==
  [status : {"none", "PASS", "REVIEW", "FAIL"}, current : BOOLEAN, given : SUBSET Chunks,
   recommendation : {Recommended[g] : g \in Requests} \cup {""}, amount : SUBSET Int,
   claims : Claims, length : Nat]

\* A request writes once, and makes not current only what is written.
DInv ==
  /\ threshold \in {0, Configured} /\ runs \subseteq SUBSET Chunks
  /\ request \in [Requests -> RequestState]
  /\ drafts \in [Requests -> DraftRow]
  /\ newest \in Requests \cup {None}
  /\ \A g \in Requests : /\ request[g].pc # "done" => g \notin Written
                         /\ request[g].old \subseteq Written
  /\ DraftsStand

\* What a PASS promises.
PassOK(d) ==
  d.status = "PASS" =>
    /\ d.length <= MaxSummary /\ d.claims # <<>>
    /\ UNION {d.claims[n].sources : n \in DOMAIN d.claims} \subseteq d.given
    /\ 2 * Cardinality(UnsupportedClaims(d.claims)) <= Len(d.claims)

LEMMA DInvInit == DraftInit => DInv
<1> SUFFICES ASSUME DraftInit PROVE DInv
  OBVIOUS
<1>1. NoRequest \in RequestState /\ NoDraft \in DraftRow /\ NoDraft.status = "none"
  BY DEF NoRequest, NoDraft, RequestState, DraftRow, Claims
<1>2. Written = {}
  BY DEF DraftInit, Written, NoDraft
<1>3. /\ request \in [Requests -> RequestState] /\ drafts \in [Requests -> DraftRow]
      /\ \A g \in Requests : request[g].old = {} /\ drafts[g].status = "none"
  BY <1>1 DEF DraftInit, NoRequest
<1> QED
  BY <1>2, <1>3 DEF DraftInit, DInv, DraftsStand, Written

\* A request that moves and writes no draft.
LEMMA DMoves ==
  ASSUME DInv, NEW g \in Requests, UNCHANGED <<drafts, newest>>,
         threshold' \in {0, Configured}, runs' \subseteq SUBSET Chunks,
         NEW n \in RequestState,
         request' = [request EXCEPT ![g] = n],
         request[g].pc # "done", n.old \subseteq Written
  PROVE  DInv'
<1>1. Written' = Written /\ Current' = Current
  BY DEF Written, Current
<1>2. request' \in [Requests -> RequestState]
  BY DEF DInv
<1>3. request'[g] = n /\ \A h \in Requests : h # g => request'[h] = request[h]
  BY DEF DInv
<1>4. DraftsStand'
  BY <1>1 DEF DInv, DraftsStand
<1> QED
  BY <1>1, <1>2, <1>3, <1>4 DEF DInv
LEMMA DraftMoves ==
  ASSUME KInv, DInv, NEW g \in Requests,
         \/ NameRun(g) \/ EmbeddingFails(g) \/ LowerThreshold(g) \/ RetrievalFails(g)
         \/ RestoreThreshold(g) \/ StartUpdate(g) \/ LockDrafts(g) \/ AbandonDraft(g)
  PROVE  DInv'
<1>0. PICK q \in RequestState : q = request[g]
  BY DEF DInv
<1>1. /\ q.pc \in {"waiting", "lowered", "found", "ready", "updating", "locked", "done"}
      /\ q.saved \in {0, Configured} /\ q.given \subseteq Chunks
      /\ q.old \subseteq Requests /\ q.old \subseteq Written
  BY <1>0 DEF RequestState, DInv
<1>2. Current \subseteq Written /\ Written \subseteq Requests
  BY DEF Current, Written
<1>3. ASSUME NEW found \in SUBSET Chunks, q.pc # "done", Ready(g, found), UNCHANGED <<threshold, runs, drafts, newest>>
      PROVE  DInv'
  <2> DEFINE n == [q EXCEPT !.pc = "ready", !.saved = 0, !.given = found]
  <2>1. n \in RequestState /\ n.old = q.old
    BY <1>1 DEF RequestState
  <2>2. request' = [request EXCEPT ![g] = n]
    BY <1>0, <1>3 DEF Ready
  <2>3. threshold' \in {0, Configured} /\ runs' \subseteq SUBSET Chunks /\ UNCHANGED <<drafts, newest>>
    BY <1>3 DEF DInv
  <2> HIDE DEF n
  <2> QED
    BY <1>0, <1>1, <1>3, <2>1, <2>2, <2>3, DMoves
<1>4. CASE NameRun(g)
  BY <1>0, <1>3, <1>4 DEF NameRun, DInv
<1>5. CASE EmbeddingFails(g) \/ RetrievalFails(g)
  BY <1>0, <1>3, <1>5 DEF EmbeddingFails, RetrievalFails
<1>6. CASE LowerThreshold(g)
  <2> DEFINE n == [q EXCEPT !.pc = "lowered", !.saved = threshold]
  <2>1. n \in RequestState /\ n.old = q.old
    BY <1>1 DEF RequestState, DInv
  <2>2. request' = [request EXCEPT ![g] = n]
    BY <1>0, <1>6 DEF LowerThreshold
  <2>3. /\ threshold' \in {0, Configured} /\ runs' \subseteq SUBSET Chunks /\ UNCHANGED <<drafts, newest>>
        /\ request[g].pc # "done"
    BY <1>6 DEF DInv, LowerThreshold
  <2> HIDE DEF n
  <2> QED
    BY <1>1, <2>1, <2>2, <2>3, DMoves
<1>7. CASE RestoreThreshold(g)
  <2> DEFINE n == [q EXCEPT !.pc = "ready", !.saved = 0]
  <2>1. n \in RequestState /\ n.old = q.old
    BY <1>1 DEF RequestState
  <2>2. request' = [request EXCEPT ![g] = n]
    BY <1>0, <1>7 DEF RestoreThreshold
  <2>3. /\ threshold' \in {0, Configured} /\ runs' \subseteq SUBSET Chunks /\ UNCHANGED <<drafts, newest>>
        /\ request[g].pc # "done"
    BY <1>0, <1>1, <1>7 DEF DInv, RestoreThreshold
  <2> HIDE DEF n
  <2> QED
    BY <1>1, <2>1, <2>2, <2>3, DMoves
<1>8. CASE StartUpdate(g)
  <2> DEFINE n == [q EXCEPT !.pc = "updating", !.old = Current]
  <2>1. n \in RequestState /\ n.old = Current
    BY <1>1, <1>2 DEF RequestState
  <2>2. request' = [request EXCEPT ![g] = n]
    BY <1>0, <1>8 DEF StartUpdate
  <2>3. /\ threshold' \in {0, Configured} /\ runs' \subseteq SUBSET Chunks /\ UNCHANGED <<drafts, newest>>
        /\ request[g].pc # "done"
    BY <1>8 DEF DInv, StartUpdate
  <2> HIDE DEF n
  <2> QED
    BY <1>2, <2>1, <2>2, <2>3, DMoves
<1>9. CASE LockDrafts(g)
  <2> DEFINE n == [q EXCEPT !.pc = "locked", !.old = q.old \cap Current]
  <2>1. n \in RequestState /\ n.old \subseteq Current
    BY <1>1, <1>2 DEF RequestState
  <2>2. request' = [request EXCEPT ![g] = n]
    BY <1>0, <1>9 DEF LockDrafts
  <2>3. /\ threshold' \in {0, Configured} /\ runs' \subseteq SUBSET Chunks /\ UNCHANGED <<drafts, newest>>
        /\ request[g].pc # "done"
    BY <1>9 DEF DInv, LockDrafts
  <2> HIDE DEF n
  <2> QED
    BY <1>2, <2>1, <2>2, <2>3, DMoves
<1>10. CASE AbandonDraft(g)
  <2> DEFINE n == [q EXCEPT !.pc = "done", !.old = {}, !.given = {}]
  <2>1. n \in RequestState /\ n.old = {}
    BY <1>1 DEF RequestState
  <2>2. request' = [request EXCEPT ![g] = n]
    BY <1>0, <1>10 DEF AbandonDraft
  <2>3. /\ threshold' \in {0, Configured} /\ runs' \subseteq SUBSET Chunks /\ UNCHANGED <<drafts, newest>>
        /\ request[g].pc # "done"
    BY <1>10 DEF DInv, AbandonDraft
  <2> HIDE DEF n
  <2> QED
    BY <1>2, <2>1, <2>2, <2>3, DMoves
<1> QED
  BY <1>4, <1>5, <1>6, <1>7, <1>8, <1>9, <1>10

LEMMA FoundState ==
  ASSUME NEW q \in RequestState, NEW found \in SUBSET Chunks
  PROVE  LET n == [q EXCEPT !.pc = "found", !.given = found] IN n \in RequestState /\ n.old = q.old
<1>1. ASSUME NEW x \in RequestState
      PROVE  LET n == [x EXCEPT !.pc = "found"] IN n \in RequestState /\ n.old = x.old
  BY DEF RequestState
<1>2. ASSUME NEW x \in RequestState
      PROVE  LET n == [x EXCEPT !.given = found] IN n \in RequestState /\ n.old = x.old
  BY DEF RequestState
<1>3. [q EXCEPT !.pc = "found"] \in RequestState
  BY <1>1
<1> QED
  BY <1>1, <1>2, <1>3

\* What a retrieval finds are chunks that are there.
LEMMA DraftRetrieves ==
  ASSUME KInv, DInv, NEW g \in Requests, Retrieve(g)
  PROVE  DInv'
<1>1. PICK found \in BestOf(Candidates(threshold)) :
        /\ request' = [request EXCEPT ![g].pc = "found", ![g].given = found]
        /\ runs' = runs \cup {found}
  BY DEF Retrieve
<1>2. found \subseteq Chunks
  BY DEF KInv, KnowledgeTypeOK, BestOf, Candidates
<1>3. PICK q \in RequestState : q = request[g]
  BY DEF DInv
<1> DEFINE n == [q EXCEPT !.pc = "found", !.given = found]
<1>4. n \in RequestState /\ n.old = q.old
  BY <1>2, FoundState
<1>5. request' = [request EXCEPT ![g] = n]
  BY <1>1, <1>3
<1>6. q.old \subseteq Written /\ q.pc = "lowered"
  BY <1>3 DEF DInv, Retrieve
<1>7. runs' \subseteq SUBSET Chunks /\ threshold' \in {0, Configured} /\ UNCHANGED <<drafts, newest>>
  BY <1>1, <1>2 DEF DInv, Retrieve
<1> QED
  BY <1>3, <1>4, <1>5, <1>6, <1>7, DMoves
\* An answer the checks can look at.
ReplyOK(a) ==
  /\ a.length \in Nat /\ a.amount \in SUBSET Int
  /\ a.claims \in Claims /\ a.claims \in Seq({a.claims[n] : n \in DOMAIN a.claims})

LEMMA Singleton ==
  ASSUME NEW x
  PROVE  <<x>> \in Seq({<<x>>[n] : n \in DOMAIN <<x>>})
<1>1. {<<x>>[n] : n \in DOMAIN <<x>>} = {x}
  OBVIOUS
<1> QED
  BY <1>1

LEMMA RepliesOK ==
  /\ \A a \in Replies : ReplyOK(a)
  /\ \A r : ReplyOK(Fallback(r))
<1>1. \A a \in Replies : ReplyOK(a)
  BY ReplyAssumption DEF ReplyOK, Claims
<1>2. ASSUME NEW r PROVE ReplyOK(Fallback(r))
  <2>1. KnownAmount = {}
    BY DEF KnownAmount, Facts, SnapshotFields, Allowlist
  <2>2. Fallback(r).claims \in Claims
    BY DEF Fallback, Claims
  <2>3. /\ Fallback(r).length = 1 /\ Fallback(r).amount = KnownAmount
        /\ Fallback(r).claims = <<[facts |-> TRUE, sources |-> {}]>>
    BY DEF Fallback
  <2>4. Fallback(r).claims \in Seq({Fallback(r).claims[n] : n \in DOMAIN Fallback(r).claims})
    BY <2>3, Singleton
  <2> QED
    BY <2>1, <2>2, <2>3, <2>4 DEF ReplyOK
<1> QED
  BY <1>1, <1>2

\* At least half of the claims grounded, at most half unsupported.
LEMMA HalfUnsupported ==
  ASSUME NEW claims, claims \in Seq({claims[n] : n \in DOMAIN claims}), CoversClaims(claims)
  PROVE  2 * Cardinality(UnsupportedClaims(claims)) <= Len(claims)
<1> DEFINE D == DOMAIN claims
           G == {n \in D : Grounded(claims[n])}
           U == {n \in D : ~Grounded(claims[n])}
<1>1. Len(claims) \in Nat /\ D = 1..Len(claims)
  OBVIOUS
<1>2. IsFiniteSet(D) /\ Cardinality(D) = Len(claims)
  <2> HIDE DEF D
  <2>1. IsFiniteSet(1..Len(claims)) /\ Cardinality(1..Len(claims)) = Len(claims)
    BY <1>1, FS_Interval
  <2> QED
    BY <1>1, <2>1
<1>3. G \subseteq D /\ U = D \ G
  OBVIOUS
<1>4. IsFiniteSet(G) /\ Cardinality(U) = Cardinality(D) - Cardinality(D \cap G)
  <2> HIDE DEF D, G, U
  <2>1. IsFiniteSet(G)
    BY <1>2, <1>3, FS_Subset
  <2>2. Cardinality(D \ G) = Cardinality(D) - Cardinality(D \cap G)
    BY <1>2, FS_Difference
  <2> QED
    BY <1>3, <2>1, <2>2
<1>5. Cardinality(G) \in Nat
  BY <1>4, FS_CardinalityType
<1>6. 2 * Cardinality(G) >= Len(claims)
  BY DEF CoversClaims
<1>7. Cardinality(U) = Len(claims) - Cardinality(G)
  <2> HIDE DEF D, G, U
  <2>1. D \cap G = G
    BY <1>3
  <2> QED
    BY <1>2, <1>4, <2>1
<1>8. 2 * Cardinality(U) <= Len(claims)
  <2> HIDE DEF D, G, U
  <2> QED
    BY <1>1, <1>5, <1>6, <1>7
<1> QED
  BY <1>8 DEF UnsupportedClaims

\* What the checks make of an answer.
LEMMA DraftOK ==
  ASSUME NEW a, ReplyOK(a), NEW given, NEW r
  PROVE  LET d == Drafted(a, given, r) IN
         /\ d.status \in {"PASS", "REVIEW", "FAIL"} /\ d.recommendation = r
         /\ d.amount \in SUBSET Int /\ d.claims \in Claims /\ d.length \in Nat
         /\ d.status = "PASS" =>
              /\ d.length <= MaxSummary /\ d.claims # <<>>
              /\ UNION {d.claims[n].sources : n \in DOMAIN d.claims} \subseteq given
              /\ 2 * Cardinality(UnsupportedClaims(d.claims)) <= Len(d.claims)
<1> DEFINE status == GuardrailStatus(a, given, r)
           kept == IF a.form = "invalid" THEN Fallback(r) ELSE a
           d == Drafted(a, given, r)
<1>1. /\ d.status = IF a.form = "invalid" THEN "FAIL" ELSE status
      /\ d.recommendation = r /\ d.amount = kept.amount /\ d.claims = kept.claims
      /\ d.length = IF kept.length > MaxSummary THEN MaxSummary ELSE kept.length
  BY DEF Drafted, Validated
<1>2. ReplyOK(kept)
  BY RepliesOK
<1>3. status \in {"PASS", "REVIEW", "FAIL"}
  BY DEF GuardrailStatus
<1>4. ASSUME d.status = "PASS"
      PROVE  kept = a /\ status = "PASS"
  BY <1>1, <1>4
<1>5. ASSUME status = "PASS"
      PROVE  CitesOnly(a.claims, given) /\ CoversClaims(a.claims)
  BY <1>5 DEF GuardrailStatus
<1>6. d.length \in Nat /\ d.length <= MaxSummary
  <2> HIDE DEF kept, d, status
  <2>1. kept.length \in Nat /\ MaxSummary \in Nat
    BY <1>2, ReplyAssumption DEF ReplyOK
  <2> QED
    BY <1>1, <2>1
<1>7. d.amount \in SUBSET Int /\ d.claims \in Claims
  BY <1>1, <1>2 DEF ReplyOK
<1>8. ASSUME d.status = "PASS"
      PROVE  /\ d.claims # <<>>
             /\ UNION {d.claims[n].sources : n \in DOMAIN d.claims} \subseteq given
             /\ 2 * Cardinality(UnsupportedClaims(d.claims)) <= Len(d.claims)
  <2>1. d.claims = a.claims /\ CitesOnly(a.claims, given) /\ CoversClaims(a.claims)
    BY <1>1, <1>4, <1>5, <1>8
  <2>2. 2 * Cardinality(UnsupportedClaims(a.claims)) <= Len(a.claims)
    BY <2>1, HalfUnsupported DEF ReplyOK
  <2>3. a.claims # <<>>
    BY <2>1 DEF CoversClaims
  <2>4. UNION {a.claims[n].sources : n \in DOMAIN a.claims} \subseteq given
    BY <2>1 DEF CitesOnly
  <2> HIDE DEF d
  <2> QED
    BY <2>1, <2>2, <2>3, <2>4
<1> QED
  <2> HIDE DEF status, kept
  <2> SUFFICES /\ d.status \in {"PASS", "REVIEW", "FAIL"} /\ d.recommendation = r
               /\ d.amount \in SUBSET Int /\ d.claims \in Claims /\ d.length \in Nat
               /\ d.status = "PASS" =>
                    /\ d.length <= MaxSummary /\ d.claims # <<>>
                    /\ UNION {d.claims[n].sources : n \in DOMAIN d.claims} \subseteq given
                    /\ 2 * Cardinality(UnsupportedClaims(d.claims)) <= Len(d.claims)
    OBVIOUS
  <2>1. d.status \in {"PASS", "REVIEW", "FAIL"} /\ d.recommendation = r
    BY <1>1, <1>3
  <2> HIDE DEF d
  <2> QED
    BY <1>6, <1>7, <1>8, <2>1
\* The draft of a request is the newest and current, and makes not current what
\* was written before.
LEMMA DraftCommits ==
  ASSUME DInv, NEW g \in Requests, CommitDraft(g)
  PROVE  DInv'
<1>1. PICK a \in Replies \cup {Fallback(Recommended[g])} : Commit(g, Draft(g, a))
  BY DEF CommitDraft
<1>2. request[g].pc = "locked" /\ g \notin Written /\ request[g].old \subseteq Written
  BY DEF CommitDraft, DInv
<1>3. PICK q \in RequestState : q = request[g]
  BY DEF DInv
<1>4. PICK d : d = Draft(g, a)
  OBVIOUS
<1>5. /\ d.status \in {"PASS", "REVIEW", "FAIL"} /\ d.current = TRUE /\ d.given = q.given
      /\ d.recommendation = Recommended[g] /\ d \in DraftRow
      /\ PassOK(d)
  <2> DEFINE made == Drafted(a, q.given, Recommended[g])
  <2>1. ReplyOK(a)
    BY RepliesOK
  <2>2. /\ made.status \in {"PASS", "REVIEW", "FAIL"} /\ made.recommendation = Recommended[g]
        /\ made.amount \in SUBSET Int /\ made.claims \in Claims /\ made.length \in Nat
        /\ made.status = "PASS" =>
             /\ made.length <= MaxSummary /\ made.claims # <<>>
             /\ UNION {made.claims[n].sources : n \in DOMAIN made.claims} \subseteq q.given
             /\ 2 * Cardinality(UnsupportedClaims(made.claims)) <= Len(made.claims)
    BY <2>1, DraftOK
  <2>3. d = [status |-> made.status, current |-> TRUE, given |-> q.given,
             recommendation |-> made.recommendation, amount |-> made.amount,
             claims |-> made.claims, length |-> made.length]
    BY <1>3, <1>4 DEF Draft
  <2> HIDE DEF made
  <2>4. q.given \in SUBSET Chunks
    BY DEF RequestState
  <2>5. d \in DraftRow
    BY <2>2, <2>3, <2>4 DEF DraftRow
  <2> QED
    BY <2>2, <2>3, <2>5 DEF PassOK
<1>6. /\ drafts'[g] = d
      /\ \A h \in Requests : h # g =>
           drafts'[h] = IF h \in q.old THEN [drafts[h] EXCEPT !.current = FALSE] ELSE drafts[h]
  BY <1>1, <1>2, <1>3, <1>4 DEF Commit
<1>7. \A h \in Requests : h # g =>
        /\ drafts'[h] \in DraftRow
        /\ drafts'[h].status = drafts[h].status /\ drafts'[h].recommendation = drafts[h].recommendation
        /\ drafts'[h].claims = drafts[h].claims /\ drafts'[h].given = drafts[h].given
        /\ drafts'[h].length = drafts[h].length
  <2>1. SUFFICES ASSUME NEW h \in Requests, h # g
                 PROVE  /\ drafts'[h] \in DraftRow
                        /\ drafts'[h].status = drafts[h].status
                        /\ drafts'[h].recommendation = drafts[h].recommendation
                        /\ drafts'[h].claims = drafts[h].claims /\ drafts'[h].given = drafts[h].given
                        /\ drafts'[h].length = drafts[h].length
    OBVIOUS
  <2>2. PICK x \in DraftRow : x = drafts[h]
    BY DEF DInv
  <2>3. LET y == [x EXCEPT !.current = FALSE] IN
        /\ y \in DraftRow /\ y.status = x.status /\ y.recommendation = x.recommendation
        /\ y.claims = x.claims /\ y.given = x.given /\ y.length = x.length
    BY DEF DraftRow
  <2>4. drafts'[h] = x \/ drafts'[h] = [x EXCEPT !.current = FALSE]
    BY <1>6, <2>1, <2>2
  <2> QED
    BY <2>2, <2>3, <2>4
<1>8. drafts' \in [Requests -> DraftRow]
  <2>1. \A h \in Requests : drafts'[h] \in DraftRow
    BY <1>5, <1>6, <1>7
  <2>2. drafts' = [h \in Requests |-> drafts'[h]]
    BY <1>1 DEF Commit
  <2> QED
    BY <2>1, <2>2
<1>9. Written' = Written \cup {g} /\ g \in Current' /\ newest' = g
  <2>1. drafts'[g].status # "none" /\ drafts'[g].current
    BY <1>5, <1>6
  <2>2. \A h \in Requests : h # g => drafts'[h].status = drafts[h].status
    BY <1>7
  <2>3. Written' = Written \cup {g}
    BY <2>1, <2>2 DEF Written
  <2>4. g \in Current'
    BY <2>1 DEF Written, Current
  <2>5. newest' = g
    BY <1>1 DEF Commit
  <2> QED
    BY <2>3, <2>4, <2>5
<1>10. request' \in [Requests -> RequestState] /\ request'[g].pc = "done" /\ request'[g].old = {}
       /\ \A h \in Requests : h # g => request'[h] = request[h]
  <2> DEFINE n == [q EXCEPT !.pc = "done", !.old = {}, !.given = {}]
  <2>1. n \in RequestState /\ n.pc = "done" /\ n.old = {}
    BY DEF RequestState
  <2>2. request' = [request EXCEPT ![g] = n]
    BY <1>1, <1>3 DEF Commit
  <2> HIDE DEF n
  <2> QED
    BY <2>1, <2>2 DEF DInv
<1>11. DraftsStand'
  <2>1. \A h \in Written' : drafts'[h].recommendation = Recommended[h]
    BY <1>5, <1>6, <1>7, <1>9 DEF DInv, DraftsStand, Written
  <2>2. ASSUME NEW h \in Written, PassOK(drafts[h]), h # g
        PROVE  PassOK(drafts'[h])
    BY <1>7, <2>2 DEF PassOK, Written
  <2>3. \A h \in Written' : PassOK(drafts'[h])
    BY <1>2, <1>5, <1>6, <1>9, <2>2 DEF DInv, DraftsStand, PassOK
  <2> QED
    BY <1>9, <2>1, <2>3 DEF DraftsStand, PassOK
<1>12. threshold' \in {0, Configured} /\ runs' \subseteq SUBSET Chunks
  BY <1>1 DEF Commit, DInv
<1>13. newest' \in Requests \cup {None}
  BY <1>9
<1> QED
  BY <1>8, <1>9, <1>10, <1>11, <1>12, <1>13 DEF DInv

LEMMA DInvStep ==
  ASSUME KInv, DInv, [Next]_vars
  PROVE  DInv'
<1>1. CASE UNCHANGED draftVars
  BY <1>1 DEF draftVars, DInv, DraftsStand, Written, Current
<1>2. ASSUME NEW g \in Requests, DraftStep(g)
      PROVE  DInv'
  BY <1>2, DraftMoves, DraftRetrieves, DraftCommits DEF DraftStep
<1>3. CASE UNCHANGED vars
  BY <1>1, <1>3 DEF vars, draftVars
<1>4. CASE Next
  BY <1>1, <1>2, <1>4 DEF Next, Assemble, Decide
<1> QED
  BY <1>3, <1>4

\* A case that has a draft has a current one, the newest, and what passes the
\* guardrails keeps what they promise, whatever the model answers and however
\* requests overlap and break off.
THEOREM DraftsSound == Spec => []DraftsStand
<1>1. Init => KInv /\ DInv
  BY KInvInit, DInvInit DEF Init
<1>2. KInv /\ DInv /\ [Next]_vars => (KInv /\ DInv)'
  BY KInvStep, DInvStep
<1>3. DInv => DraftsStand
  BY DEF DInv
<1> QED
  BY <1>1, <1>2, <1>3, PTL DEF Spec
-----------------------------------------------------------------------------
(*                                The review                               *)

Dual(i, a) == Review!RequiresDualApproval(verdict[i], a)

\* What an item is decided by is known from its whole history.
History(i) ==
  /\ itemStatus[i] = "PENDING" => log[i] = <<>>
  /\ itemStatus[i] = "PENDING_SECOND_APPROVAL" => pending[i] = 1 /\ Len(log[i]) = 1
  /\ itemStatus[i] = "DONE" =>
       /\ log[i] # <<>>
       /\ Review!Final(i).action = "APPROVE_CONTEST" /\ Dual(i, "APPROVE_CONTEST") =>
            /\ Len(log[i]) = 2
            /\ log[i][1].action = log[i][2].action
            /\ log[i][1].reviewer # log[i][2].reviewer

RInv ==
  /\ queue \in Seq(Items)
  /\ itemStatus \in [Items -> {"PENDING", "PENDING_SECOND_APPROVAL", "DONE"}]
  /\ pending \in [Items -> Nat]
  /\ log \in [Items -> Seq(Review!LogEntry)]
  /\ \A i \in Items : History(i)

\* A decision is not touched again.
Frozen ==
  /\ verdict' = verdict
  /\ \A i \in Items : itemStatus[i] = "DONE" => itemStatus'[i] = "DONE" /\ log'[i] = log[i]

LEMMA RInvInit == Review!Init => RInv
<1> SUFFICES ASSUME Review!Init PROVE RInv
  OBVIOUS
<1>1. queue \in Seq(Items) /\ \A i \in Items : log[i] \in Seq(Review!LogEntry)
  BY DEF Review!Init
<1> QED
  BY <1>1 DEF Review!Init, RInv, History

LEMMA Recorded ==
  ASSUME RInv, NEW i \in Items, NEW u \in Approvers, NEW a \in Review!Actions,
         NEW j \in BOOLEAN, Review!Record(i, u, a, j)
  PROVE  /\ log' \in [Items -> Seq(Review!LogEntry)]
         /\ Len(log[i]) \in Nat /\ Len(log'[i]) = Len(log[i]) + 1
         /\ \A n \in 1..Len(log[i]) : log'[i][n] = log[i][n]
         /\ log'[i][Len(log[i]) + 1].action = a /\ log'[i][Len(log[i]) + 1].reviewer = u
         /\ \A x \in Items : x # i => log'[x] = log[x]
         /\ queue' = queue /\ verdict' = verdict
<1>1. PICK e \in Review!LogEntry : e = Review!Entry(u, a, j)
  BY DEF Review!Entry, Review!LogEntry
<1>2. e.action = a /\ e.reviewer = u
  BY <1>1 DEF Review!Entry
<1>3. PICK l \in Seq(Review!LogEntry) : l = log[i]
  BY DEF RInv
<1>4. log' = [log EXCEPT ![i] = Append(l, e)]
  BY <1>1, <1>3 DEF Review!Record
<1>5. /\ Append(l, e) \in Seq(Review!LogEntry) /\ Len(l) \in Nat
      /\ Len(Append(l, e)) = Len(l) + 1 /\ Append(l, e)[Len(l) + 1] = e
      /\ \A n \in 1..Len(l) : Append(l, e)[n] = l[n]
  BY AppendProperties, LenProperties
<1>6. log'[i] = Append(l, e) /\ \A x \in Items : x # i => log'[x] = log[x]
  BY <1>4 DEF RInv
<1>7. log' \in [Items -> Seq(Review!LogEntry)]
  BY <1>4, <1>5 DEF RInv
<1> QED
  BY <1>2, <1>3, <1>5, <1>6, <1>7 DEF Review!Record

\* An action that is recorded on an item, which goes on to state s.
Advances(i, u, a, j, s, p) ==
  /\ Review!Record(i, u, a, j)
  /\ itemStatus' = [itemStatus EXCEPT ![i] = s]
  /\ pending' = [pending EXCEPT ![i] = p]
  /\ \/ itemStatus[i] = "PENDING" /\ s = "PENDING_SECOND_APPROVAL" /\ p = 1
     \/ itemStatus[i] = "PENDING" /\ s = "DONE" /\ ~Dual(i, a)
     \/ /\ itemStatus[i] = "PENDING_SECOND_APPROVAL" /\ s = "DONE"
        /\ a = "ESCALATE" \/ (a = Review!First(i).action /\ u # Review!First(i).reviewer)

LEMMA ItemAdvances ==
  ASSUME RInv, NEW i \in Items, NEW u \in Approvers, NEW a \in Review!Actions, NEW j \in BOOLEAN,
         NEW s \in {"PENDING_SECOND_APPROVAL", "DONE"}, NEW p \in Nat, Advances(i, u, a, j, s, p)
  PROVE  RInv' /\ Frozen
<1> USE DEF Advances
<1>1. /\ log' \in [Items -> Seq(Review!LogEntry)]
      /\ Len(log[i]) \in Nat /\ Len(log'[i]) = Len(log[i]) + 1
      /\ \A n \in 1..Len(log[i]) : log'[i][n] = log[i][n]
      /\ log'[i][Len(log[i]) + 1].action = a /\ log'[i][Len(log[i]) + 1].reviewer = u
      /\ \A x \in Items : x # i => log'[x] = log[x]
      /\ queue' = queue /\ verdict' = verdict
  BY Recorded
<1>2. /\ itemStatus'[i] = s /\ pending'[i] = p /\ itemStatus[i] # "DONE"
      /\ \A x \in Items : x # i => itemStatus'[x] = itemStatus[x] /\ pending'[x] = pending[x]
      /\ itemStatus' \in [Items -> {"PENDING", "PENDING_SECOND_APPROVAL", "DONE"}]
      /\ pending' \in [Items -> Nat]
  BY DEF RInv
<1>3. History(i)
  BY DEF RInv
<1>4. log'[i] # <<>>
  BY <1>1
<1>5. ASSUME itemStatus[i] = "PENDING"
      PROVE  History(i)'
  <2>1. Len(log[i]) = 0
    BY <1>3, <1>5 DEF History
  <2>2. Len(log'[i]) = 1 /\ Review!Final(i)'.action = a
    BY <1>1, <2>1 DEF Review!Final
  <2>3. CASE s = "DONE"
    BY <1>1, <1>2, <1>4, <1>5, <2>2, <2>3 DEF History, Dual
  <2>4. CASE s = "PENDING_SECOND_APPROVAL"
    BY <1>2, <1>5, <2>2, <2>4 DEF History
  <2> QED
    BY <2>3, <2>4
<1>6. ASSUME itemStatus[i] = "PENDING_SECOND_APPROVAL"
      PROVE  History(i)'
  <2>1. Len(log[i]) = 1 /\ pending[i] = 1
    BY <1>3, <1>6 DEF History
  <2>2. /\ Len(log'[i]) = 2 /\ log'[i][1] = log[i][1]
        /\ log'[i][2].action = a /\ log'[i][2].reviewer = u
        /\ Review!Final(i)'.action = a
    BY <1>1, <2>1 DEF Review!Final
  <2>3. Review!First(i) = log[i][1]
    BY <2>1 DEF Review!First
  <2> QED
    BY <1>2, <1>4, <1>6, <2>2, <2>3 DEF History
<1>7. \A x \in Items : History(x)'
  <2>1. ASSUME NEW x \in Items, x # i
        PROVE  History(x)'
    <3>1. History(x)
      BY DEF RInv
    <3>2. /\ log'[x] = log[x] /\ itemStatus'[x] = itemStatus[x]
          /\ pending'[x] = pending[x] /\ verdict' = verdict
      BY <1>1, <1>2, <2>1
    <3> QED
      BY <3>1, <3>2 DEF History, Dual, Review!Final
  <2> QED
    BY <1>5, <1>6, <2>1, <1>2 DEF RInv
<1> QED
  BY <1>1, <1>2, <1>7 DEF RInv, Frozen
\* A new item sorts in anywhere.
LEMMA ItemArrives ==
  ASSUME RInv, NEW i \in Items, NEW n \in 0..Len(queue), Review!Enqueue(i, n)
  PROVE  RInv' /\ Frozen
<1>1. queue \in Seq(Items) /\ Len(queue) \in Nat /\ n \in Nat /\ n <= Len(queue)
  BY LenProperties DEF RInv
<1>2. SubSeq(queue, 1, n) \in Seq(Items) /\ SubSeq(queue, n + 1, Len(queue)) \in Seq(Items)
  BY <1>1, SubSeqProperties
<1>3. <<i>> \in Seq(Items)
  OBVIOUS
<1>4. queue' \in Seq(Items)
  BY <1>2, <1>3, ConcatProperties DEF Review!Enqueue
<1>5. UNCHANGED <<itemStatus, verdict, pending, log>>
  BY DEF Review!Enqueue
<1> QED
  BY <1>4, <1>5 DEF RInv, History, Dual, Review!Final, Frozen

LEMMA ReviewKeeps ==
  ASSUME RInv, UNCHANGED <<queue, itemStatus, verdict, pending, log>>
  PROVE  RInv' /\ Frozen
BY DEF RInv, History, Dual, Review!Final, Frozen

\* The review of the case: each request is one branch of submit_review_action.
LEMMA ReviewStep ==
  ASSUME RInv, Review!Next
  PROVE  RInv' /\ Frozen
<1>1. Review!Queued \subseteq Items
  BY ElementOfSeq DEF Review!Queued, RInv
<1>2. ASSUME NEW i \in Items, NEW u \in Approvers, NEW a \in Review!Actions,
             NEW j \in BOOLEAN, Review!SubmitReviewAction(i, u, a, j)
      PROVE  RInv' /\ Frozen
  <2>1. CASE Review!AlreadyDone(i) \/ Review!RefuseSecond(i, u, a, j) \/ Review!RefuseFirst(i, a, j)
    <3>1. UNCHANGED <<queue, itemStatus, verdict, pending, log>>
      BY <2>1 DEF Review!AlreadyDone, Review!RefuseSecond, Review!RefuseFirst, Review!Refuse
    <3> QED
      BY <3>1, ReviewKeeps
  <2>2. CASE Review!Escalate(i, u, a, j)
    <3>1. Advances(i, u, a, j, "DONE", 0)
      BY <2>2 DEF Review!Escalate, Advances
    <3> QED
      BY <3>1, ItemAdvances
  <2>3. CASE Review!SecondApproval(i, u, a, j)
    <3>1. Advances(i, u, a, j, "DONE", 0)
      BY <2>3 DEF Review!SecondApproval, Advances
    <3> QED
      BY <3>1, ItemAdvances
  <2>4. CASE Review!FirstApproval(i, u, a, j)
    <3>1. Len(log[i]) + 1 = 1
      BY <2>4 DEF Review!FirstApproval, RInv, History
    <3>2. Advances(i, u, a, j, "PENDING_SECOND_APPROVAL", 1)
      BY <2>4, <3>1 DEF Review!FirstApproval, Advances
    <3> QED
      BY <3>2, ItemAdvances
  <2>5. CASE Review!Finalize(i, u, a, j)
    <3>1. pending[i] \in Nat /\ pending' = [pending EXCEPT ![i] = pending[i]]
      BY <2>5 DEF Review!Finalize, RInv
    <3>2. Advances(i, u, a, j, "DONE", pending[i])
      BY <2>5, <3>1 DEF Review!Finalize, Dual, Advances
    <3> QED
      BY <3>1, <3>2, ItemAdvances
  <2> QED
    BY <1>2, <2>1, <2>2, <2>3, <2>4, <2>5 DEF Review!SubmitReviewAction
<1>3. CASE Review!NoItem
  BY <1>3, ReviewKeeps DEF Review!NoItem, Review!Refuse
<1> QED
  BY <1>1, <1>2, <1>3, ItemArrives DEF Review!Next

\* What H-10 lets through was decided so, by two approvers where it takes two.
LEMMA SubmitIsApproved ==
  ASSUME RInv, Review!SubmissionAction = "submit"
  PROVE  \E i \in Items : Approved(i)
<1>1. /\ queue # <<>> /\ itemStatus[Review!Newest] = "DONE" /\ log[Review!Newest] # <<>>
      /\ Review!Final(Review!Newest).action = "APPROVE_CONTEST"
  BY DEF Review!SubmissionAction
<1>2. Review!Newest \in Items
  BY <1>1, EmptySeq, LenProperties, ElementOfSeq DEF Review!Newest, RInv
<1>3. PICK i \in Items : i = Review!Newest
  BY <1>2
<1>4. History(i)
  BY DEF RInv
<1>5. ASSUME Dual(i, "APPROVE_CONTEST")
      PROVE  \E m, n \in DOMAIN log[i] : /\ log[i][m].action = "APPROVE_CONTEST"
                                         /\ log[i][n].action = "APPROVE_CONTEST"
                                         /\ log[i][m].reviewer # log[i][n].reviewer
  <2>1. /\ Len(log[i]) = 2 /\ log[i][2].action = "APPROVE_CONTEST"
        /\ log[i][1].action = "APPROVE_CONTEST" /\ log[i][1].reviewer # log[i][2].reviewer
    BY <1>1, <1>3, <1>4, <1>5 DEF History, Review!Final
  <2>2. 1 \in DOMAIN log[i] /\ 2 \in DOMAIN log[i]
    BY <2>1 DEF RInv
  <2> QED
    BY <2>1, <2>2
<1>6. Approved(i)
  BY <1>1, <1>3, <1>5 DEF Approved, Dual
<1> QED
  BY <1>6

LEMMA ApprovalStands ==
  ASSUME Frozen, NEW i \in Items, Approved(i)
  PROVE  Approved(i)'
BY DEF Frozen, Approved, Review!Final
-----------------------------------------------------------------------------
(*                        Packages, writers and rows                       *)

AssemblerRow ==
  [pc : {"waiting", "looked", "read", "done"}, approval : (Items \X Nat) \cup {None},
   draft : Requests \cup {None}, docs : SUBSET Documents]

PackageRow ==
  [status : {"ABSENT", "DRAFT", "APPROVED"}, approval : (Items \X Nat) \cup {None},
   amount : Int, length : Nat, docs : SUBSET Documents]

WriterRow ==
  [pc : {"waiting", "checked", "decided", "flushed", "done"}, package : Assemblers \cup {None},
   action : {"draft", "submit"}, inserted : SUBSET (UploadKeys \cup ContestKeys)]

\* What the gates let through goes on being so: a package does not change, a
\* clean document stays clean and a decision stands.
Examined(p) == p \in Packages /\ H07(p) /\ package[p].length \in 1..MaxSummary

Released(p, action) ==
  /\ Examined(p)
  /\ package[p].docs \subseteq EligibleDocuments
  /\ action = "submit" => package[p].docs # {} /\ \E i \in Items : Approved(i)

WriterOK(x) ==
  /\ x.pc \in {"checked", "decided", "flushed"} => Examined(x.package)
  /\ x.pc \in {"decided", "flushed"} => Released(x.package, x.action)
  /\ x.pc = "flushed" => /\ x.inserted \subseteq KeysOf(x.package, x.action)
                         /\ KeysOf(x.package, x.action) \subseteq rows \cup x.inserted

AssemblerOK(a) ==
  /\ assembler[a].pc = "read" => assembler[a].draft \in Written /\ drafts[assembler[a].draft].amount # {}
  /\ a \in Packages => assembler[a].pc = "done"

PInv ==
  /\ scan \in [Documents -> {"PENDING", "CLEAN", "INFECTED", "FAILED"}]
  /\ assembler \in [Assemblers -> AssemblerRow]
  /\ package \in [Assemblers -> PackageRow]
  /\ writer \in [Writers -> WriterRow]
  /\ rows \subseteq UploadKeys \cup ContestKeys
  /\ \A a \in Assemblers : AssemblerOK(a)
  /\ \A w \in Writers : WriterOK(writer[w])
  /\ \A r \in rows \cap ContestKeys : Released(r[1], r[3])

LEMMA PInvInit == PipelineInit => PInv
<1> SUFFICES ASSUME PipelineInit PROVE PInv
  OBVIOUS
<1>1. NoAssembly \in AssemblerRow /\ NoPackage \in PackageRow /\ NoWriter \in WriterRow
  BY DEF NoAssembly, NoPackage, NoWriter, AssemblerRow, PackageRow, WriterRow
<1>2. \A a \in Assemblers : assembler[a].pc = "waiting" /\ a \notin Packages
  BY DEF PipelineInit, NoAssembly, NoPackage, Packages
<1>3. \A w \in Writers : writer[w].pc = "waiting"
  BY DEF PipelineInit, NoWriter
<1> QED
  BY <1>1, <1>2, <1>3 DEF PipelineInit, PInv, AssemblerOK, WriterOK

\* Nothing the gates looked at is taken back.
Kept ==
  /\ \A p \in Packages : /\ p \in Packages' /\ package'[p].amount = package[p].amount
                         /\ package'[p].length = package[p].length /\ package'[p].docs = package[p].docs
  /\ EligibleDocuments \subseteq EligibleDocuments' /\ rows \subseteq rows'
  /\ \A i \in Items : Approved(i) => Approved(i)'

LEMMA ReleaseStands ==
  ASSUME Kept
  PROVE  /\ \A p : Examined(p) => Examined(p)'
         /\ \A p, action : Released(p, action) => Released(p, action)'
         /\ \A p, action : Examined(p) => KeysOf(p, action)' = KeysOf(p, action)
         /\ \A x : WriterOK(x) => WriterOK(x)'
<1>1. ASSUME NEW p, Examined(p)
      PROVE  Examined(p)'
  BY <1>1 DEF Kept, Examined, H07
<1>2. ASSUME NEW p, NEW action, Released(p, action)
      PROVE  Released(p, action)'
  <2>1. Examined(p)' /\ package'[p].docs = package[p].docs
    BY <1>1, <1>2 DEF Released, Examined, Kept
  <2>2. package'[p].docs \subseteq EligibleDocuments'
    BY <1>2, <2>1 DEF Released, Kept
  <2>3. (\E i \in Items : Approved(i)) => \E i \in Items : Approved(i)'
    BY DEF Kept
  <2> QED
    BY <1>2, <2>1, <2>2, <2>3 DEF Released
<1>3. ASSUME NEW p, NEW action, Examined(p)
      PROVE  KeysOf(p, action)' = KeysOf(p, action)
  BY <1>3 DEF Examined, Kept, KeysOf
<1>4. ASSUME NEW x, WriterOK(x)
      PROVE  WriterOK(x)'
  <2>1. x.pc = "flushed" => KeysOf(x.package, x.action)' = KeysOf(x.package, x.action)
    BY <1>3, <1>4 DEF WriterOK
  <2>2. rows \subseteq rows'
    BY DEF Kept
  <2> QED
    BY <1>1, <1>2, <1>4, <2>1, <2>2 DEF WriterOK
<1> QED
  BY <1>1, <1>2, <1>3, <1>4

\* A step that moves no writer.
LEMMA PKeeps ==
  ASSUME PInv, Kept, UNCHANGED <<writer, rows>>,
         scan' \in [Documents -> {"PENDING", "CLEAN", "INFECTED", "FAILED"}],
         assembler' \in [Assemblers -> AssemblerRow], package' \in [Assemblers -> PackageRow],
         \A a \in Assemblers : AssemblerOK(a)'
  PROVE  PInv'
<1>1. \A w \in Writers : WriterOK(writer[w])'
  BY ReleaseStands DEF PInv
<1>2. \A r \in rows' \cap ContestKeys : Released(r[1], r[3])'
  BY ReleaseStands DEF PInv
<1> QED
  BY <1>1, <1>2 DEF PInv, ContestKeys, UploadKeys

\* A step that moves one writer.
LEMMA PWrites ==
  ASSUME PInv, Kept, UNCHANGED <<scan, assembler, rows>>,
         package' \in [Assemblers -> PackageRow],
         \A a \in Assemblers : AssemblerOK(a)',
         NEW w \in Writers, NEW x \in WriterRow, WriterOK(x)',
         writer' = [writer EXCEPT ![w] = x]
  PROVE  PInv'
<1>1. \A v \in Writers : WriterOK(writer[v])'
  BY ReleaseStands DEF PInv
<1>2. \A r \in rows' \cap ContestKeys : Released(r[1], r[3])'
  BY ReleaseStands DEF PInv
<1>3. writer' \in [Writers -> WriterRow]
  BY DEF PInv
<1> QED
  BY <1>1, <1>2, <1>3 DEF PInv, ContestKeys, UploadKeys
DraftsKept == \A g \in Written : g \in Written' /\ drafts'[g].amount = drafts[g].amount

LEMMA DraftStepKeeps ==
  ASSUME DInv, NEW g \in Requests, DraftStep(g)
  PROVE  DraftsKept
<1>1. CASE UNCHANGED drafts
  BY <1>1 DEF DraftsKept, Written
<1>2. CASE CommitDraft(g)
  <2>1. PICK a : Commit(g, Draft(g, a)) /\ request[g].pc = "locked"
    BY <1>2 DEF CommitDraft
  <2>2. g \notin Written
    BY <2>1 DEF DInv
  <2>3. ASSUME NEW h \in Written
        PROVE  drafts'[h].status = drafts[h].status /\ drafts'[h].amount = drafts[h].amount
    <3>1. PICK x \in DraftRow : x = drafts[h]
      BY DEF DInv, Written
    <3>2. drafts'[h] = x \/ drafts'[h] = [x EXCEPT !.current = FALSE]
      BY <2>1, <2>2, <3>1 DEF Commit, Written
    <3> QED
      BY <3>1, <3>2 DEF DraftRow
  <2> QED
    BY <2>3 DEF DraftsKept, Written
<1> QED
  BY <1>1, <1>2 DEF DraftStep, NameRun, EmbeddingFails, LowerThreshold, Retrieve, RetrievalFails,
                    RestoreThreshold, StartUpdate, LockDrafts, AbandonDraft

\* Steps of the knowledge base, the drafts and the review.
LEMMA PFrame ==
  ASSUME PInv, UNCHANGED pipelineVars, Frozen, DraftsKept
  PROVE  PInv'
<1>1. Kept
  BY ApprovalStands DEF Kept, pipelineVars, Packages, EligibleDocuments
<1>2. \A a \in Assemblers : AssemblerOK(a)'
  BY DEF PInv, AssemblerOK, pipelineVars, DraftsKept, Packages
<1> QED
  BY <1>1, <1>2, PKeeps DEF PInv, pipelineVars

Rest == UNCHANGED <<knowledgeVars, draftVars, reviewVars>>

LEMMA RestKeeps ==
  ASSUME Rest
  PROVE  /\ Written' = Written /\ Current' = Current /\ drafts' = drafts
         /\ \A i \in Items : Approved(i) => Approved(i)'
BY DEF Rest, draftVars, reviewVars, Written, Current, Approved, Review!Final

LEMMA StepScan ==
  ASSUME PInv, Rest, NEW d \in Documents, ScanDocument(d)
  PROVE  PInv'
<1>1. EligibleDocuments \subseteq EligibleDocuments'
  BY PipelineAssumption DEF ScanDocument, EligibleDocuments, PInv
<1>2. UNCHANGED <<assembler, package, writer, rows>>
  BY DEF ScanDocument
<1>3. Kept
  BY <1>1, <1>2, RestKeeps DEF Kept, Packages
<1>4. \A a \in Assemblers : AssemblerOK(a)'
  BY <1>2, RestKeeps DEF PInv, AssemblerOK, Packages
<1>5. scan' \in [Documents -> {"PENDING", "CLEAN", "INFECTED", "FAILED"}]
  BY DEF ScanDocument, PInv
<1> QED
  BY <1>2, <1>3, <1>4, <1>5, PKeeps DEF PInv

\* An assembly that moves and writes no package.
LEMMA AssemblyMoves ==
  ASSUME PInv, Rest, UNCHANGED <<scan, package, writer, rows>>,
         NEW a \in Assemblers, NEW x \in AssemblerRow,
         assembler' = [assembler EXCEPT ![a] = x], assembler[a].pc # "done",
         x.pc = "read" => x.draft \in Written /\ drafts[x.draft].amount # {}
  PROVE  PInv'
<1>1. /\ assembler' \in [Assemblers -> AssemblerRow] /\ assembler'[a] = x
      /\ \A b \in Assemblers : b # a => assembler'[b] = assembler[b]
  BY DEF PInv
<1>2. Kept
  BY RestKeeps DEF Kept, Packages, EligibleDocuments
<1>3. Packages' = Packages /\ a \notin Packages
  BY DEF PInv, AssemblerOK, Packages
<1>4. \A b \in Assemblers : AssemblerOK(b)'
  BY <1>1, <1>3, RestKeeps DEF PInv, AssemblerOK
<1> QED
  BY <1>1, <1>2, <1>4, PKeeps DEF PInv

LEMMA StepLookUp ==
  ASSUME PInv, Rest, RInv, NEW a \in Assemblers, NEW i \in Items, NEW n \in DOMAIN log[i],
         LookUp(a, <<i, n>>, log[i][n].action)
  PROVE  PInv'
<1>1. PICK q \in AssemblerRow : q = assembler[a]
  BY DEF PInv
<1>2. n \in Nat
  BY DEF RInv
<1> DEFINE x == [q EXCEPT !.pc = "looked", !.approval = <<i, n>>]
<1>3. x \in AssemblerRow /\ x.pc = "looked"
  BY <1>2 DEF AssemblerRow
<1>4. /\ assembler' = [assembler EXCEPT ![a] = x] /\ assembler[a].pc # "done"
      /\ UNCHANGED <<scan, package, writer, rows>>
  BY <1>1 DEF LookUp
<1> HIDE DEF x
<1> QED
  BY <1>3, <1>4, AssemblyMoves

LEMMA StepReadDraft ==
  ASSUME PInv, Rest, NEW a \in Assemblers, ReadDraft(a)
  PROVE  PInv'
<1>1. PICK q \in AssemblerRow : q = assembler[a]
  BY DEF PInv
<1>2. PICK g \in Current : /\ drafts[g].amount # {}
                           /\ assembler' = [assembler EXCEPT ![a] =
                                [@ EXCEPT !.pc = "read", !.draft = g, !.docs = EligibleDocuments]]
  BY DEF ReadDraft
<1> DEFINE x == [q EXCEPT !.pc = "read", !.draft = g, !.docs = EligibleDocuments]
<1>3. g \in Written /\ g \in Requests /\ EligibleDocuments \subseteq Documents
  BY PipelineAssumption DEF Current, Written, EligibleDocuments
<1>4. x \in AssemblerRow /\ x.draft = g
  BY <1>3 DEF AssemblerRow
<1>5. /\ assembler' = [assembler EXCEPT ![a] = x] /\ assembler[a].pc # "done"
      /\ UNCHANGED <<scan, package, writer, rows>>
  BY <1>1, <1>2 DEF ReadDraft
<1> HIDE DEF x
<1> QED
  BY <1>2, <1>3, <1>4, <1>5, AssemblyMoves

LEMMA StepAbandonAssembly ==
  ASSUME PInv, Rest, NEW a \in Assemblers, AbandonAssembly(a)
  PROVE  PInv'
<1>1. PICK q \in AssemblerRow : q = assembler[a]
  BY DEF PInv
<1> DEFINE x == [q EXCEPT !.pc = "done"]
<1>2. x \in AssemblerRow /\ x.pc = "done"
  BY DEF AssemblerRow
<1>3. /\ assembler' = [assembler EXCEPT ![a] = x] /\ assembler[a].pc # "done"
      /\ UNCHANGED <<scan, package, writer, rows>>
  BY <1>1 DEF AbandonAssembly
<1> HIDE DEF x
<1> QED
  BY <1>2, <1>3, AssemblyMoves
LEMMA StepCommitPackage ==
  ASSUME PInv, DInv, Rest, NEW a \in Assemblers, CommitPackage(a)
  PROVE  PInv'
<1>1. PICK q \in AssemblerRow : q = assembler[a]
  BY DEF PInv
<1>2. q.pc = "read" /\ q.draft \in Written /\ drafts[q.draft].amount # {} /\ a \notin Packages
  BY <1>1 DEF CommitPackage, PInv, AssemblerOK
<1>3. PICK d \in DraftRow : d = drafts[q.draft]
  BY <1>2 DEF DInv, Written
<1>4. PICK n \in Int : n = CHOOSE m \in d.amount : TRUE
  BY <1>2, <1>3 DEF DraftRow
<1> DEFINE p == [status |-> "DRAFT", approval |-> q.approval, length |-> d.length,
                 amount |-> n, docs |-> q.docs]
           x == [q EXCEPT !.pc = "done"]
<1>5. p \in PackageRow /\ p.status = "DRAFT"
  BY DEF AssemblerRow, DraftRow, PackageRow
<1>6. x \in AssemblerRow /\ x.pc = "done"
  BY DEF AssemblerRow
<1>7. /\ package' = [package EXCEPT ![a] = p] /\ assembler' = [assembler EXCEPT ![a] = x]
      /\ UNCHANGED <<scan, actionable, writer, rows>>
  BY <1>1, <1>3, <1>4 DEF CommitPackage
<1> HIDE DEF p, x
<1>8. /\ package' \in [Assemblers -> PackageRow] /\ package'[a] = p
      /\ assembler' \in [Assemblers -> AssemblerRow] /\ assembler'[a] = x
      /\ \A b \in Assemblers : b # a => package'[b] = package[b] /\ assembler'[b] = assembler[b]
  BY <1>5, <1>6, <1>7 DEF PInv
<1>9. Packages \subseteq Packages' /\ Packages' \subseteq Packages \cup {a}
  BY <1>2, <1>8 DEF Packages
<1>10. Kept
  BY <1>2, <1>7, <1>8, <1>9, RestKeeps DEF Kept, Packages, EligibleDocuments
<1>11. \A b \in Assemblers : AssemblerOK(b)'
  BY <1>6, <1>8, <1>9, RestKeeps DEF PInv, AssemblerOK
<1>12. scan' \in [Documents -> {"PENDING", "CLEAN", "INFECTED", "FAILED"}]
  BY <1>7 DEF PInv
<1> QED
  BY <1>7, <1>8, <1>10, <1>11, <1>12, PKeeps

\* A writer that moves and commits nothing.
LEMMA WriterMoves ==
  ASSUME PInv, Rest, UNCHANGED <<scan, assembler, package, rows>>,
         NEW w \in Writers, NEW x \in WriterRow, WriterOK(x),
         writer' = [writer EXCEPT ![w] = x]
  PROVE  PInv'
<1>1. Kept
  BY RestKeeps DEF Kept, Packages, EligibleDocuments
<1>2. \A a \in Assemblers : AssemblerOK(a)'
  BY RestKeeps DEF PInv, AssemblerOK, Packages
<1>3. WriterOK(x)' /\ package' \in [Assemblers -> PackageRow]
  BY <1>1, ReleaseStands DEF PInv
<1> QED
  BY <1>1, <1>2, <1>3, PWrites

LEMMA StepCheckContest ==
  ASSUME PInv, Rest, NEW w \in Writers, NEW p \in Assemblers, CheckContest(w, p)
  PROVE  PInv'
<1>1. PICK q \in WriterRow : q = writer[w]
  BY DEF PInv
<1> DEFINE x == [q EXCEPT !.pc = "checked", !.package = p]
<1>2. x \in WriterRow /\ x.pc = "checked" /\ x.package = p
  BY DEF WriterRow
<1>3. /\ writer' = [writer EXCEPT ![w] = x] /\ UNCHANGED <<scan, assembler, package, rows>>
      /\ Examined(p)
  BY <1>1 DEF CheckContest, Examined, H12
<1> HIDE DEF x
<1>4. WriterOK(x)
  BY <1>2, <1>3 DEF WriterOK
<1> QED
  BY <1>2, <1>3, <1>4, WriterMoves

LEMMA StepDecide ==
  ASSUME PInv, RInv, Rest, NEW w \in Writers, DecideAction(w, Review!SubmissionAction)
  PROVE  PInv'
<1>1. PICK q \in WriterRow : q = writer[w]
  BY DEF PInv
<1>2. PICK action \in {"draft", "submit"} : action = Review!SubmissionAction
  BY DEF Review!SubmissionAction
<1> DEFINE x == [q EXCEPT !.pc = "decided", !.action = action]
<1>3. x \in WriterRow /\ x.pc = "decided" /\ x.package = q.package /\ x.action = action
  BY DEF WriterRow
<1>4. /\ writer' = [writer EXCEPT ![w] = x] /\ UNCHANGED <<scan, assembler, package, rows>>
  BY <1>1, <1>2 DEF DecideAction
<1>5. Released(q.package, action)
  <2>1. Examined(q.package)
    BY <1>1 DEF DecideAction, PInv, WriterOK
  <2>2. H08(q.package) /\ H11(q.package, action)
    BY <1>1, <1>2 DEF DecideAction
  <2>3. action = "submit" => \E i \in Items : Approved(i)
    BY <1>2, SubmitIsApproved
  <2> QED
    BY <2>1, <2>2, <2>3 DEF Released, H08, H11
<1> HIDE DEF x
<1>6. WriterOK(x)
  BY <1>3, <1>5 DEF WriterOK, Released
<1> QED
  BY <1>3, <1>4, <1>6, WriterMoves

LEMMA StepFlushRows ==
  ASSUME PInv, Rest, NEW w \in Writers, FlushRows(w)
  PROVE  PInv'
<1>1. PICK q \in WriterRow : q = writer[w]
  BY DEF PInv
<1>2. q.pc = "decided" /\ Released(q.package, q.action) /\ q.package \in Assemblers
  BY <1>1 DEF FlushRows, PInv, WriterOK, Released, Examined, Packages
<1>3. PICK new : new = KeysOf(q.package, q.action) \ rows
  OBVIOUS
<1>4. new \subseteq UploadKeys \cup ContestKeys
  <2>1. package[q.package].docs \subseteq Documents /\ q.action \in {"draft", "submit"}
    BY <1>2 DEF PInv, PackageRow, WriterRow
  <2>2. KeysOf(q.package, q.action) \subseteq UploadKeys \cup ContestKeys
    BY <1>2, <2>1 DEF KeysOf, UploadKeys, ContestKeys
  <2> QED
    BY <1>3, <2>2
<1> DEFINE x == [q EXCEPT !.pc = "flushed", !.inserted = new]
<1>5. x \in WriterRow /\ x.pc = "flushed" /\ x.inserted = new /\ x.package = q.package /\ x.action = q.action
  BY <1>4 DEF WriterRow
<1>6. /\ writer' = [writer EXCEPT ![w] = x] /\ UNCHANGED <<scan, assembler, package, rows>>
  BY <1>1, <1>3 DEF FlushRows, Keys
<1> HIDE DEF x
<1>7. WriterOK(x)
  BY <1>2, <1>3, <1>5 DEF WriterOK, Released
<1> QED
  BY <1>5, <1>6, <1>7, WriterMoves

LEMMA StepAbandonWrite ==
  ASSUME PInv, Rest, NEW w \in Writers, AbandonWrite(w)
  PROVE  PInv'
<1>1. PICK q \in WriterRow : q = writer[w]
  BY DEF PInv
<1> DEFINE x == [q EXCEPT !.pc = "done", !.inserted = {}]
<1>2. x \in WriterRow /\ x.pc = "done"
  BY DEF WriterRow
<1>3. writer' = [writer EXCEPT ![w] = x] /\ UNCHANGED <<scan, assembler, package, rows>>
  BY <1>1 DEF AbandonWrite
<1> HIDE DEF x
<1>4. WriterOK(x)
  BY <1>2 DEF WriterOK
<1> QED
  BY <1>2, <1>3, <1>4, WriterMoves

\* The rows of a writer are released, the package only changes its status.
LEMMA StepCommitRows ==
  ASSUME PInv, Rest, NEW w \in Writers, CommitRows(w)
  PROVE  PInv'
<1>1. PICK q \in WriterRow : q = writer[w]
  BY DEF PInv
<1>2. PICK p : p = q.package
  OBVIOUS
<1>3. /\ q.pc = "flushed" /\ Released(p, q.action) /\ q.inserted \subseteq KeysOf(p, q.action)
      /\ p \in Packages /\ p \in Assemblers
  BY <1>1, <1>2 DEF CommitRows, PInv, WriterOK, Released, Examined, Packages
<1>4. PICK c \in PackageRow : c = package[p]
  BY <1>3 DEF PInv
<1> DEFINE n == [c EXCEPT !.status = "APPROVED"]
           x == [q EXCEPT !.pc = "done", !.inserted = {}]
<1>5. /\ n \in PackageRow /\ n.status = "APPROVED" /\ n.amount = c.amount
      /\ n.length = c.length /\ n.docs = c.docs
  BY DEF PackageRow
<1>6. x \in WriterRow /\ x.pc = "done"
  BY DEF WriterRow
<1>7. /\ package' = [package EXCEPT ![p] = n] /\ writer' = [writer EXCEPT ![w] = x]
      /\ rows' = rows \cup q.inserted /\ UNCHANGED <<scan, actionable, assembler>>
  BY <1>1, <1>2, <1>4 DEF CommitRows
<1> HIDE DEF n, x
<1>8. /\ package' \in [Assemblers -> PackageRow] /\ package'[p] = n
      /\ \A b \in Assemblers : b # p => package'[b] = package[b]
  BY <1>3, <1>5, <1>7 DEF PInv
<1>9. Packages' = Packages
  BY <1>3, <1>5, <1>8 DEF Packages
<1>10. Kept
  BY <1>4, <1>5, <1>7, <1>8, <1>9, RestKeeps DEF Kept, Packages, EligibleDocuments
<1>11. \A b \in Assemblers : AssemblerOK(b)'
  BY <1>7, <1>9, RestKeeps DEF PInv, AssemblerOK
<1>12. writer' \in [Writers -> WriterRow] /\ \A v \in Writers : WriterOK(writer[v])'
  <2>1. WriterOK(x)'
    BY <1>6 DEF WriterOK
  <2>2. writer'[w] = x /\ \A v \in Writers : v # w => writer'[v] = writer[v]
    BY <1>7 DEF PInv
  <2>3. \A v \in Writers : WriterOK(writer[v]) /\ v # w => WriterOK(writer[v])'
    BY <1>10, <2>2, ReleaseStands
  <2> QED
    BY <1>6, <1>7, <2>1, <2>2, <2>3 DEF PInv
<1>13. \A r \in rows' \cap ContestKeys : Released(r[1], r[3])'
  <2>1. ASSUME NEW r \in ContestKeys, r \in KeysOf(p, q.action)
        PROVE  r[1] = p /\ r[3] = q.action
    BY <2>1 DEF KeysOf, ContestKeys
  <2>2. ASSUME NEW r \in rows' \cap ContestKeys
        PROVE  Released(r[1], r[3])
    BY <1>3, <1>7, <2>1 DEF PInv
  <2> QED
    BY <1>10, <2>2, ReleaseStands
<1>14. rows' \subseteq UploadKeys \cup ContestKeys
  <2>1. q.inserted \subseteq UploadKeys \cup ContestKeys
    BY DEF WriterRow
  <2> QED
    BY <1>7, <2>1 DEF PInv
<1>15. (UploadKeys \cup ContestKeys)' = UploadKeys \cup ContestKeys
  BY DEF UploadKeys, ContestKeys
<1>16. scan' \in [Documents -> {"PENDING", "CLEAN", "INFECTED", "FAILED"}]
       /\ assembler' \in [Assemblers -> AssemblerRow]
  BY <1>7 DEF PInv
<1> QED
  BY <1>8, <1>11, <1>12, <1>13, <1>14, <1>15, <1>16 DEF PInv
LEMMA StepPipeline ==
  ASSUME PInv, DInv, Rest, PipelineStep
  PROVE  PInv'
<1>1. CASE DisputeMoves
  <2>1. Kept
    BY <1>1, RestKeeps DEF DisputeMoves, Kept, Packages, EligibleDocuments
  <2>2. \A a \in Assemblers : AssemblerOK(a)'
    BY <1>1, RestKeeps DEF DisputeMoves, PInv, AssemblerOK, Packages
  <2> QED
    BY <1>1, <2>1, <2>2, PKeeps DEF DisputeMoves, PInv
<1> QED
  BY <1>1, StepScan, StepReadDraft, StepCommitPackage, StepAbandonAssembly, StepCheckContest,
     StepFlushRows, StepCommitRows, StepAbandonWrite DEF PipelineStep

ContestInv == KInv /\ DInv /\ RInv /\ PInv

LEMMA ContestInvStep ==
  ASSUME ContestInv, [Next]_vars
  PROVE  ContestInv'
<1>1. KInv' /\ DInv'
  BY KInvStep, DInvStep DEF ContestInv
<1> SUFFICES RInv' /\ PInv'
  BY <1>1 DEF ContestInv
<1>2. ASSUME UNCHANGED reviewVars
      PROVE  RInv' /\ Frozen
  BY <1>2, ReviewKeeps DEF reviewVars, ContestInv
<1>3. ASSUME UNCHANGED draftVars
      PROVE  DraftsKept
  BY <1>3 DEF draftVars, DraftsKept, Written
<1>4. ASSUME NEW k \in Ingests, KnowledgeStep(k), UNCHANGED <<draftVars, pipelineVars, reviewVars>>
      PROVE  RInv' /\ PInv'
  BY <1>2, <1>3, <1>4, PFrame DEF ContestInv
<1>5. ASSUME NEW g \in Requests, DraftStep(g), UNCHANGED <<knowledgeVars, pipelineVars, reviewVars>>
      PROVE  RInv' /\ PInv'
  BY <1>2, <1>5, DraftStepKeeps, PFrame DEF ContestInv
<1>6. ASSUME Review!Next, UNCHANGED <<knowledgeVars, draftVars, pipelineVars>>
      PROVE  RInv' /\ PInv'
  BY <1>3, <1>6, ReviewStep, PFrame DEF ContestInv
<1>7. ASSUME NEW a \in Assemblers, NEW i \in Items, NEW n \in DOMAIN log[i], Assemble(a, i, n)
      PROVE  RInv' /\ PInv'
  BY <1>2, <1>7, StepLookUp DEF ContestInv, Assemble, Rest
<1>8. ASSUME NEW w \in Writers, Decide(w)
      PROVE  RInv' /\ PInv'
  BY <1>2, <1>8, StepDecide DEF ContestInv, Decide, Rest
<1>9. ASSUME PipelineStep, UNCHANGED <<knowledgeVars, draftVars, reviewVars>>
      PROVE  RInv' /\ PInv'
  BY <1>2, <1>9, StepPipeline DEF ContestInv, Rest
<1>10. CASE UNCHANGED vars
  <2>1. UNCHANGED draftVars /\ UNCHANGED pipelineVars /\ UNCHANGED reviewVars
    BY <1>10 DEF vars
  <2> QED
    BY <1>2, <1>3, <2>1, PFrame DEF ContestInv
<1>11. CASE Next
  <2>1. CASE \E a \in Assemblers, i \in Items : \E n \in DOMAIN log[i] : Assemble(a, i, n)
    BY <1>7, <2>1
  <2>2. CASE \E w \in Writers : Decide(w)
    BY <1>8, <2>2
  <2>3. CASE \E k \in Ingests : KnowledgeStep(k) /\ UNCHANGED <<draftVars, pipelineVars, reviewVars>>
    BY <1>4, <2>3
  <2>4. CASE \E g \in Requests : DraftStep(g) /\ UNCHANGED <<knowledgeVars, pipelineVars, reviewVars>>
    BY <1>5, <2>4
  <2> QED
    BY <1>6, <1>9, <1>11, <2>1, <2>2, <2>3, <2>4 DEF Next
<1> QED
  BY <1>10, <1>11

\* What is known of guidance, drafts, decisions, packages and rows in every
\* reachable state of the composition.
THEOREM ContestInvariance == Spec => []ContestInv
<1>1. Init => ContestInv
  BY KInvInit, DInvInit, RInvInit, PInvInit DEF Init, ContestInv
<1>2. ContestInv /\ [Next]_vars => ContestInv'
  BY ContestInvStep
<1> QED
  BY <1>1, <1>2, PTL DEF Spec

\* What leaves for Razorpay was disputed, examined and approved: the amount is
\* within the dispute, the documents are clean, a submit has evidence and, where
\* the case takes two approvers, two.
THEOREM ContestSafe == Spec => []ContestIsSafe
<1>1. ASSUME PInv
      PROVE  ContestIsSafe
  <2>1. SUFFICES ASSUME NEW r \in rows \cap ContestKeys
                 PROVE  /\ 0 < package[r[1]].amount /\ package[r[1]].amount <= Disputed
                        /\ package[r[1]].length \in 1..MaxSummary
                        /\ \A d \in package[r[1]].docs : d \in Mapped /\ scan[d] = "CLEAN"
                        /\ r[3] = "submit" => package[r[1]].docs # {} /\ \E i \in Items : Approved(i)
    BY DEF ContestIsSafe
  <2>2. Released(r[1], r[3])
    BY <1>1 DEF PInv
  <2> QED
    BY <2>2 DEF Released, Examined, H07, EligibleDocuments
<1>2. ContestInv => ContestIsSafe
  BY <1>1 DEF ContestInv
<1> QED
  BY <1>2, ContestInvariance, PTL
-----------------------------------------------------------------------------
(*                                The types                                *)

\* What the invariant above does not say of the values, as nothing else needs it.
OneAmount == \A g \in Requests : Cardinality(drafts[g].amount) <= 1

ReviewTyped ==
  /\ verdict \in [Items -> Review!Verdicts]
  /\ pending \in [Items -> 0..1]
  /\ \A i \in Items : Len(log[i]) <= 2
  /\ answer \in Review!Answers

Typed == OneAmount /\ ReviewTyped /\ actionable \in BOOLEAN

LEMMA TypedInit == Init => Typed
<1> SUFFICES ASSUME Init PROVE Typed
  OBVIOUS
<1>1. OneAmount
  <2>1. \A g \in Requests : drafts[g].amount = {}
    BY DEF Init, DraftInit, NoDraft
  <2> QED
    BY <2>1, FS_EmptySet DEF OneAmount
<1>2. ReviewTyped
  BY DEF Init, Review!Init, ReviewTyped, Review!Answers
<1>3. actionable \in BOOLEAN
  BY DEF Init, PipelineInit
<1> QED
  BY <1>1, <1>2, <1>3 DEF Typed

\* The checks add no amount to that of the answer, and the fallback has none.
LEMMA DraftHasOneAmount ==
  ASSUME NEW g \in Requests, NEW a \in Replies \cup {Fallback(Recommended[g])}
  PROVE  Cardinality(Draft(g, a).amount) <= 1
<1>1. \A r : Fallback(r).amount = {}
  BY DEF Fallback, KnownAmount, Facts, SnapshotFields, Allowlist
<1>2. Cardinality({}) = 0
  BY FS_EmptySet
<1>3. Cardinality(a.amount) <= 1
  <2>1. CASE a \in Replies
    BY <2>1, ReplyAssumption
  <2>2. CASE a = Fallback(Recommended[g])
    <3>1. a.amount = {}
      BY <1>1, <2>2
    <3> QED
      BY <1>2, <3>1
  <2> QED
    BY <2>1, <2>2
<1>4. Draft(g, a).amount \in {a.amount, Fallback(Recommended[g]).amount}
  BY DEF Draft, Drafted, Validated
<1> QED
  BY <1>1, <1>2, <1>3, <1>4

LEMMA DraftStepTyped ==
  ASSUME DInv, OneAmount, NEW g \in Requests, DraftStep(g)
  PROVE  OneAmount'
<1>1. CASE UNCHANGED drafts
  BY <1>1 DEF OneAmount
<1>2. CASE CommitDraft(g)
  <2>1. PICK a \in Replies \cup {Fallback(Recommended[g])} : Commit(g, Draft(g, a))
    BY <1>2 DEF CommitDraft
  <2>2. PICK d : d = Draft(g, a)
    OBVIOUS
  <2>3. Cardinality(d.amount) <= 1
    BY <2>2, DraftHasOneAmount
  <2>4. ASSUME NEW h \in Requests
        PROVE  drafts'[h] = d \/ drafts'[h].amount = drafts[h].amount
    <3>1. PICK x \in DraftRow : x = drafts[h]
      BY DEF DInv
    <3>2. drafts'[h] = d \/ drafts'[h] = x \/ drafts'[h] = [x EXCEPT !.current = FALSE]
      BY <2>1, <2>2, <3>1 DEF Commit
    <3> QED
      BY <3>1, <3>2 DEF DraftRow
  <2> QED
    BY <2>3, <2>4 DEF OneAmount
<1> QED
  BY <1>1, <1>2 DEF DraftStep, NameRun, EmbeddingFails, LowerThreshold, Retrieve, RetrievalFails,
                    RestoreThreshold, StartUpdate, LockDrafts, AbandonDraft

\* An item takes one action, or two if the first waited for the second.
LEMMA ItemAdvancesTyped ==
  ASSUME RInv, ReviewTyped, NEW i \in Items, NEW u \in Approvers, NEW a \in Review!Actions,
         NEW j \in BOOLEAN, NEW s \in {"PENDING_SECOND_APPROVAL", "DONE"}, NEW p \in 0..1,
         Advances(i, u, a, j, s, p)
  PROVE  ReviewTyped'
<1>1. /\ Len(log[i]) \in Nat /\ Len(log'[i]) = Len(log[i]) + 1
      /\ \A x \in Items : x # i => log'[x] = log[x]
      /\ verdict' = verdict
  BY Recorded DEF Advances
<1>2. Len(log[i]) \in {0, 1}
  <2>1. itemStatus[i] \in {"PENDING", "PENDING_SECOND_APPROVAL"} /\ History(i)
    BY DEF Advances, RInv
  <2>2. CASE itemStatus[i] = "PENDING"
    BY <2>1, <2>2 DEF History
  <2>3. CASE itemStatus[i] = "PENDING_SECOND_APPROVAL"
    BY <2>1, <2>3 DEF History
  <2> QED
    BY <2>1, <2>2, <2>3
<1>3. ASSUME NEW x \in Items
      PROVE  Len(log'[x]) <= 2
  <2>1. CASE x = i
    <3>1. PICK l : l = Len(log[i])
      OBVIOUS
    <3>2. PICK m : m = Len(log'[i])
      OBVIOUS
    <3>3. l \in {0, 1} /\ m = l + 1
      BY <1>1, <1>2, <3>1, <3>2
    <3>4. m <= 2
      BY <3>3
    <3> QED
      BY <2>1, <3>2, <3>4
  <2>2. CASE x # i
    <3>1. log'[x] = log[x]
      BY <1>1, <2>2
    <3> QED
      BY <3>1 DEF ReviewTyped
  <2> QED
    BY <2>1, <2>2
<1>4. pending' \in [Items -> 0..1]
  BY DEF Advances, ReviewTyped
<1>5. answer' \in Review!Answers
  BY DEF Advances, Review!Record, Review!Answers
<1> QED
  BY <1>1, <1>3, <1>4, <1>5 DEF ReviewTyped

LEMMA ReviewStepTyped ==
  ASSUME RInv, ReviewTyped, Review!Next
  PROVE  ReviewTyped'
<1>1. Review!Queued \subseteq Items
  BY ElementOfSeq DEF Review!Queued, RInv
<1>2. ASSUME answer' \in Review!Answers, UNCHANGED <<queue, itemStatus, verdict, pending, log>>
      PROVE  ReviewTyped'
  BY <1>2 DEF ReviewTyped
<1>3. ASSUME NEW i \in Items, NEW u \in Approvers, NEW a \in Review!Actions,
             NEW j \in BOOLEAN, Review!SubmitReviewAction(i, u, a, j)
      PROVE  ReviewTyped'
  <2>1. CASE Review!AlreadyDone(i) \/ Review!RefuseSecond(i, u, a, j) \/ Review!RefuseFirst(i, a, j)
    <3>1. answer' \in Review!Answers /\ UNCHANGED <<queue, itemStatus, verdict, pending, log>>
      BY <2>1 DEF Review!AlreadyDone, Review!RefuseSecond, Review!RefuseFirst, Review!Refuse,
                  Review!Answers
    <3> QED
      BY <1>2, <3>1
  <2>2. CASE Review!Escalate(i, u, a, j)
    <3>1. Advances(i, u, a, j, "DONE", 0)
      BY <2>2 DEF Review!Escalate, Advances
    <3> QED
      BY <3>1, ItemAdvancesTyped
  <2>3. CASE Review!SecondApproval(i, u, a, j)
    <3>1. Advances(i, u, a, j, "DONE", 0)
      BY <2>3 DEF Review!SecondApproval, Advances
    <3> QED
      BY <3>1, ItemAdvancesTyped
  <2>4. CASE Review!FirstApproval(i, u, a, j)
    <3>1. Len(log[i]) + 1 = 1
      BY <2>4 DEF Review!FirstApproval, RInv, History
    <3>2. Advances(i, u, a, j, "PENDING_SECOND_APPROVAL", 1)
      BY <2>4, <3>1 DEF Review!FirstApproval, Advances
    <3> QED
      BY <3>2, ItemAdvancesTyped
  <2>5. CASE Review!Finalize(i, u, a, j)
    <3>1. pending[i] \in 0..1 /\ pending' = [pending EXCEPT ![i] = pending[i]]
      BY <2>5 DEF Review!Finalize, ReviewTyped
    <3>2. Advances(i, u, a, j, "DONE", pending[i])
      BY <2>5, <3>1 DEF Review!Finalize, Dual, Advances
    <3> QED
      BY <3>1, <3>2, ItemAdvancesTyped
  <2> QED
    BY <1>3, <2>1, <2>2, <2>3, <2>4, <2>5 DEF Review!SubmitReviewAction
<1>4. CASE Review!NoItem
  <2>1. answer' \in Review!Answers /\ UNCHANGED <<queue, itemStatus, verdict, pending, log>>
    BY <1>4 DEF Review!NoItem, Review!Refuse, Review!Answers
  <2> QED
    BY <1>2, <2>1
<1>5. ASSUME NEW i \in Items, NEW n \in 0..Len(queue), Review!Enqueue(i, n)
      PROVE  ReviewTyped'
  BY <1>5 DEF Review!Enqueue, Review!Answers, ReviewTyped
<1> QED
  BY <1>1, <1>3, <1>4, <1>5 DEF Review!Next

\* Nothing but the dispute itself says whether it is actionable.
LEMMA ActionableTyped ==
  ASSUME actionable \in BOOLEAN, [Next]_vars
  PROVE  actionable' \in BOOLEAN
<1>1. CASE UNCHANGED actionable
  BY <1>1
<1>2. CASE PipelineStep
  BY <1>2 DEF PipelineStep, ScanDocument, DisputeMoves, ReadDraft, CommitPackage, AbandonAssembly,
              CheckContest, FlushRows, CommitRows, AbandonWrite
<1> QED
  BY <1>1, <1>2 DEF Next, vars, pipelineVars, Assemble, LookUp, Decide, DecideAction

LEMMA TypedStep ==
  ASSUME ContestInv, Typed, [Next]_vars
  PROVE  Typed'
<1>1. ASSUME UNCHANGED draftVars
      PROVE  OneAmount'
  BY <1>1 DEF draftVars, OneAmount, Typed
<1>2. ASSUME UNCHANGED reviewVars
      PROVE  ReviewTyped'
  BY <1>2 DEF reviewVars, ReviewTyped, Typed
<1>3. OneAmount'
  <2>1. ASSUME NEW g \in Requests, DraftStep(g)
        PROVE  OneAmount'
    BY <2>1, DraftStepTyped DEF ContestInv, Typed
  <2>2. CASE UNCHANGED vars
    BY <1>1, <2>2 DEF vars
  <2>3. CASE Next
    BY <1>1, <2>1, <2>3 DEF Next, Assemble, Decide
  <2> QED
    BY <2>2, <2>3
<1>4. ReviewTyped'
  <2>1. CASE Review!Next
    BY <2>1, ReviewStepTyped DEF ContestInv, Typed
  <2>2. CASE UNCHANGED vars
    BY <1>2, <2>2 DEF vars
  <2>3. CASE Next
    BY <1>2, <2>1, <2>3 DEF Next, Assemble, Decide
  <2> QED
    BY <2>2, <2>3
<1>5. actionable' \in BOOLEAN
  BY ActionableTyped DEF Typed
<1> QED
  BY <1>3, <1>4, <1>5 DEF Typed

\* Guidance, drafts, review, packages, writers and rows keep their types: a
\* draft has at most one amount, an item at most two actions, and what a writer
\* has not committed are keys of rows there may be.
THEOREM ContestTypeCorrect == Spec => []TypeOK
<1>1. Init => Typed
  BY TypedInit
<1>2. ContestInv /\ Typed /\ [Next]_vars => Typed'
  BY TypedStep
<1>3. ASSUME DInv, OneAmount
      PROVE  DraftTypeOK
  <2>1. ASSUME NEW g \in Requests
        PROVE  /\ request[g].pc \in {"waiting", "lowered", "found", "ready", "updating", "locked", "done"}
               /\ request[g].saved \in {0, Configured}
               /\ request[g].given \in SUBSET Chunks /\ request[g].old \in SUBSET Requests
    <3>1. PICK q \in RequestState : q = request[g]
      BY <1>3 DEF DInv
    <3> QED
      BY <3>1 DEF RequestState
  <2>2. ASSUME NEW g \in Requests
        PROVE  /\ drafts[g].status \in {"none", "PASS", "REVIEW", "FAIL"}
               /\ drafts[g].current \in BOOLEAN /\ drafts[g].amount \in SUBSET Int
    <3>1. PICK d \in DraftRow : d = drafts[g]
      BY <1>3 DEF DInv
    <3> QED
      BY <3>1 DEF DraftRow
  <2> QED
    BY <1>3, <2>1, <2>2 DEF DraftTypeOK, DInv, OneAmount
<1>4. ASSUME PInv, actionable \in BOOLEAN
      PROVE  PipelineTypeOK
  <2>1. ASSUME NEW a \in Assemblers
        PROVE  /\ assembler[a].pc \in {"waiting", "looked", "read", "done"}
               /\ assembler[a].draft \in Requests \cup {None} /\ assembler[a].docs \subseteq Documents
    <3>1. PICK q \in AssemblerRow : q = assembler[a]
      BY <1>4 DEF PInv
    <3> QED
      BY <3>1 DEF AssemblerRow
  <2>2. ASSUME NEW a \in Assemblers
        PROVE  /\ package[a].status \in {"ABSENT", "DRAFT", "APPROVED"}
               /\ package[a].amount \in Int /\ package[a].docs \subseteq Documents
    <3>1. PICK c \in PackageRow : c = package[a]
      BY <1>4 DEF PInv
    <3> QED
      BY <3>1 DEF PackageRow
  <2>3. ASSUME NEW w \in Writers
        PROVE  /\ writer[w].pc \in {"waiting", "checked", "decided", "flushed", "done"}
               /\ writer[w].package \in Assemblers \cup {None} /\ writer[w].action \in {"draft", "submit"}
               /\ writer[w].inserted \subseteq UploadKeys \cup ContestKeys
    <3>1. PICK q \in WriterRow : q = writer[w]
      BY <1>4 DEF PInv
    <3> QED
      BY <3>1 DEF WriterRow
  <2> QED
    BY <1>4, <2>1, <2>2, <2>3 DEF PipelineTypeOK, PInv
<1>5. ASSUME RInv, ReviewTyped
      PROVE  Review!TypeOK
  BY <1>5 DEF RInv, ReviewTyped, Review!TypeOK
<1>6. ContestInv /\ Typed => TypeOK
  BY <1>3, <1>4, <1>5 DEF ContestInv, Typed, TypeOK, KInv
<1> QED
  BY <1>1, <1>2, <1>6, ContestInvariance, PTL DEF Spec
-----------------------------------------------------------------------------
(*                         What the dispatch is given                      *)

\* Nothing of what the outbox shows changes.
LEMMA OutboxStutters ==
  ASSUME UNCHANGED <<package, rows>>
  PROVE  UNCHANGED Outbox!vars
BY DEF Outbox!vars, Outbox!db, AtNone, AllKeys, UploadKeys, ContestKeys

LEMMA OutboxRows == Outbox!Rows = AllKeys /\ AllKeys' = AllKeys /\ AtNone' = AtNone
BY DEF Outbox!Rows, Outbox!UploadRows, Outbox!ContestRows, Outbox!Actions,
       AllKeys, UploadKeys, ContestKeys, AtNone

LEMMA OutboxInit == PipelineInit => Outbox!Init
<1> SUFFICES ASSUME PipelineInit PROVE Outbox!Init
  OBVIOUS
<1>1. rows = {} /\ \A a \in Assemblers : package[a].docs = {} /\ package[a].status = "ABSENT"
  BY DEF PipelineInit, NoPackage
<1>2. {1} = 1..1
  OBVIOUS
<1> QED
  BY <1>1, <1>2, OutboxRows DEF Outbox!Init, AtNone

\* The commit of an assembly is CreatePackage.
LEMMA AssemblyCreates ==
  ASSUME PInv, DInv, NEW a \in Assemblers, CommitPackage(a)
  PROVE  Outbox!Next
<1>1. PICK q \in AssemblerRow : q = assembler[a]
  BY DEF PInv
<1>2. package[a].status = "ABSENT" /\ rows' = rows
  BY <1>1 DEF CommitPackage, PInv, AssemblerOK, Packages
<1>3. /\ package'[a].status = "DRAFT" /\ package'[a].docs = q.docs
      /\ \A b \in Assemblers : b # a => package'[b] = package[b]
  BY <1>1 DEF CommitPackage, PInv
<1>4. q.docs \in SUBSET Documents
  BY DEF AssemblerRow
<1>5. Outbox!CreatePackage(a, q.docs)
  BY <1>2, <1>3, OutboxRows DEF Outbox!CreatePackage
<1> QED
  BY <1>4, <1>5 DEF Outbox!Next

\* The commit of a writer is WriteOutbox: all rows that were missing appear, at
\* once, whoever else inserted some of them meanwhile.
LEMMA WriterWrites ==
  ASSUME PInv, NEW w \in Writers, CommitRows(w)
  PROVE  Outbox!Next
<1>1. PICK q \in WriterRow : q = writer[w]
  BY DEF PInv
<1>2. PICK p : p = q.package
  OBVIOUS
<1>3. PICK action \in {"draft", "submit"} : action = q.action
  BY DEF WriterRow
<1>4. /\ Released(p, action) /\ p \in Assemblers /\ package[p].status # "ABSENT"
      /\ q.inserted \subseteq KeysOf(p, action) /\ KeysOf(p, action) \subseteq rows \cup q.inserted
  BY <1>1, <1>2, <1>3 DEF CommitRows, PInv, WriterOK, Released, Examined, Packages
<1>5. PICK c \in PackageRow : c = package[p]
  BY <1>4 DEF PInv
<1>6. /\ package' = [package EXCEPT ![p] = [c EXCEPT !.status = "APPROVED"]]
      /\ rows' = rows \cup q.inserted
  BY <1>1, <1>2, <1>5 DEF CommitRows
<1>7. LET n == [c EXCEPT !.status = "APPROVED"] IN n.status = "APPROVED" /\ n.docs = c.docs
  BY DEF PackageRow
<1>8. /\ package'[p].status = "APPROVED" /\ package'[p].docs = package[p].docs
      /\ \A b \in Assemblers : b # p => package'[b] = package[b]
  BY <1>4, <1>5, <1>6, <1>7 DEF PInv
<1>9. Outbox!OutboxOf(p, action) = KeysOf(p, action)
  BY <1>4 DEF Outbox!OutboxOf, KeysOf
<1>10. \A r \in AllKeys : r \in rows' <=> r \in rows \/ r \in KeysOf(p, action)
  BY <1>4, <1>6
<1>11. action = "submit" => package[p].docs # {}
  BY <1>4 DEF Released
<1>12. Outbox!WriteOutbox(p, action)
  BY <1>4, <1>8, <1>9, <1>10, <1>11, OutboxRows DEF Outbox!WriteOutbox
<1> QED
  BY <1>4, <1>12 DEF Outbox!Next, Outbox!Actions

LEMMA ContestStepIsOutboxStep ==
  ASSUME ContestInv, [Next]_vars
  PROVE  [Outbox!Next]_(Outbox!vars)
<1>1. CASE UNCHANGED pipelineVars
  BY <1>1, OutboxStutters DEF pipelineVars
<1>2. CASE PipelineStep
  <2>1. CASE UNCHANGED <<package, rows>>
    BY <2>1, OutboxStutters
  <2>2. CASE \E a \in Assemblers : CommitPackage(a)
    BY <2>2, AssemblyCreates DEF ContestInv
  <2>3. CASE \E w \in Writers : CommitRows(w)
    BY <2>3, WriterWrites DEF ContestInv
  <2> QED
    BY <1>2, <2>1, <2>2, <2>3
       DEF PipelineStep, ScanDocument, DisputeMoves, ReadDraft, AbandonAssembly, CheckContest,
           FlushRows, AbandonWrite
<1>3. ASSUME NEW a \in Assemblers, NEW i \in Items, NEW n \in DOMAIN log[i], Assemble(a, i, n)
      PROVE  UNCHANGED <<package, rows>>
  BY <1>3 DEF Assemble, LookUp
<1>4. ASSUME NEW w \in Writers, Decide(w)
      PROVE  UNCHANGED <<package, rows>>
  BY <1>4 DEF Decide, DecideAction
<1>5. CASE UNCHANGED vars
  BY <1>5, OutboxStutters DEF vars, pipelineVars
<1>6. CASE Next
  BY <1>1, <1>2, <1>3, <1>4, <1>6, OutboxStutters DEF Next
<1> QED
  BY <1>5, <1>6

\* Drafts, review, assembly and writers implement what OutboxDispatch assumes of
\* those who fill its tables.
THEOREM ContestFeedsOutbox == Spec => FeedsOutbox
<1>1. Init => Outbox!Init
  BY OutboxInit DEF Init
<1>2. ContestInv /\ [Next]_vars => [Outbox!Next]_(Outbox!vars)
  BY ContestStepIsOutboxStep
<1> QED
  BY <1>1, <1>2, ContestInvariance, PTL DEF Spec, FeedsOutbox, Outbox!Spec
=============================================================================
