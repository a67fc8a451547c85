------------------------------ MODULE Knowledge ------------------------------
(***************************************************************************)
(* The knowledge base the drafts are grounded in                           *)
(* (src/backend/app/services/rag/ingestion.py, chunking.py, embedding.py,  *)
(* retrieval.py).                                                          *)
(*                                                                         *)
(* A document is ingested as the next version of its identity (merchant,   *)
(* type, reason code): the call reads the ACTIVE version, then the highest *)
(* one, stores an object and then commits the old one DEPRECATED together  *)
(* with the new one.  Afterwards its text is cut at its headings and the   *)
(* sections are embedded and committed.  Calls of several operators        *)
(* interleave.                                                             *)
(***************************************************************************)
EXTENDS Integers, FiniteSets, FiniteSetsExt

CONSTANTS
  Ingests,      \* calls of ingest(), each followed by its chunking
  IdentityOf,   \* the merchant, type and reason code of a call
  TextOf,       \* the text it brings
  Unique,       \* identities without a NULL: their versions are UNIQUE
  Generic,      \* identities without a reason code, of no merchant or of the case's
  Sections,     \* number of sections of a text
  Similarity,   \* [text -> section -> percent], to the query of the case
  TopK,         \* RETRIEVAL_TOP_K
  None

ASSUME KnowledgeAssumption == None \notin Ingests

VARIABLES
  ingest,       \* progress of each call and what it read
  sources,      \* the KnowledgeSource rows, named by the calls that wrote them
  chunks        \* the KnowledgeChunk rows, each with its embedding

knowledgeVars == <<ingest, sources, chunks>>

NotIngested == [pc |-> "waiting", active |-> None, highest |-> 0, source |-> None, missing |-> {}]
NoSource    == [version |-> 0, status |-> "none"]

Chunks == UNION {{k} \X (1..Sections[TextOf[k]]) : k \in Ingests}

KnowledgeTypeOK ==
  /\ ingest \in [Ingests -> [pc : {"waiting", "read", "versioned", "stored", "cut", "done", "failed"},
                             active : Ingests \cup {None}, highest : Nat,
                             source : Ingests \cup {None}, missing : SUBSET Chunks]]
  /\ sources \in [Ingests -> [version : Nat, status : {"none", "ACTIVE", "DEPRECATED"}]]
  /\ chunks \subseteq Chunks

KnowledgeInit ==
  /\ ingest = [k \in Ingests |-> NotIngested]
  /\ sources = [k \in Ingests |-> NoSource]
  /\ chunks = {}

Versions(i) == {k \in Ingests : IdentityOf[k] = i /\ sources[k].status # "none"}
Active(i) == {k \in Versions(i) : sources[k].status = "ACTIVE"}
Highest(i) == Max({0} \cup {sources[k].version : k \in Versions(i)})
SectionsOf(k) == {k} \X (1..Sections[TextOf[k]])

\* The same text again is answered with the row that is there.
ReadActive(k) ==
  /\ ingest[k].pc = "waiting"
  /\ \/ /\ Active(IdentityOf[k]) = {}
        /\ ingest' = [ingest EXCEPT ![k].pc = "read"]
     \/ \E a \in Active(IdentityOf[k]) :
          ingest' = [ingest EXCEPT ![k] =
            IF TextOf[a] = TextOf[k] THEN [@ EXCEPT !.pc = "stored", !.source = a]
                                     ELSE [@ EXCEPT !.pc = "read", !.active = a]]
  /\ UNCHANGED <<sources, chunks>>

\* The object is uploaded between this step and the next; nothing refers to it
\* before the commit.
ReadVersion(k) ==
  /\ ingest[k].pc = "read"
  /\ ingest' = [ingest EXCEPT ![k].pc = "versioned", ![k].highest = Highest(IdentityOf[k])]
  /\ UNCHANGED <<sources, chunks>>

\* UNIQUE(merchant_id, source_type, reason_code, version): a NULL differs from
\* every NULL.
VersionFree(k) ==
  IdentityOf[k] \in Unique =>
    \A v \in Versions(IdentityOf[k]) : sources[v].version # ingest[k].highest + 1

StoreSource(k) ==
  /\ ingest[k].pc = "versioned"
  /\ VersionFree(k)
  /\ sources' = [s \in Ingests |->
       CASE s = k                -> [version |-> ingest[k].highest + 1, status |-> "ACTIVE"]
         [] s = ingest[k].active -> [sources[s] EXCEPT !.status = "DEPRECATED"]
         [] OTHER                -> sources[s]]
  /\ ingest' = [ingest EXCEPT ![k].pc = "stored", ![k].source = k]
  /\ UNCHANGED chunks

\* chunk_source reads the row again, fetches its object, and the indexes that
\* are embedded already are left out.
Cut(k) ==
  /\ ingest[k].pc = "stored"
  /\ sources[ingest[k].source].status = "ACTIVE"
  /\ ingest' = [ingest EXCEPT ![k].pc = "cut", ![k].missing = SectionsOf(ingest[k].source) \ chunks]
  /\ UNCHANGED <<sources, chunks>>

\* Mutant: every batch is committed by itself.
EmbedBatch(k) ==
  /\ ingest[k].pc = "cut"
  /\ \E batch \in SUBSET ingest[k].missing :
       /\ batch \cap chunks = {}
       /\ chunks' = chunks \cup batch
  /\ ingest' = [ingest EXCEPT ![k].pc = "done", ![k].missing = {}]
  /\ UNCHANGED sources

\* The batches are embedded one after the other and committed together; a
\* section another call has embedded meanwhile violates the UNIQUE index.
Embed(k) ==
  /\ ingest[k].pc = "cut"
  /\ ingest[k].missing \cap chunks = {}
  /\ chunks' = chunks \cup ingest[k].missing
  /\ ingest' = [ingest EXCEPT ![k].pc = "done", ![k].missing = {}]
  /\ UNCHANGED sources

\* The object store or the embedding provider fails, the row was taken, the
\* source is no longer ACTIVE, or the operator's process dies: rolled back.
IngestFails(k) ==
  /\ ingest[k].pc \in {"versioned", "stored", "cut"}
  /\ ingest' = [ingest EXCEPT ![k].pc = "failed", ![k].missing = {}]
  /\ UNCHANGED <<sources, chunks>>

KnowledgeStep(k) ==
  \/ ReadActive(k) \/ ReadVersion(k) \/ StoreSource(k) \/ Cut(k) \/ Embed(k) \/ IngestFails(k)
-----------------------------------------------------------------------------
(* Retrieval, as the draft endpoint asks for it: for the merchant of the    *)
(* case and without a reason code.                                         *)

SimilarityOf(c) == Similarity[TextOf[c[1]]][c[2]]

\* ACTIVE, in effect, of the merchant or of nobody, above the threshold.
Candidates(threshold) ==
  {c \in chunks : /\ sources[c[1]].status = "ACTIVE"
                  /\ IdentityOf[c[1]] \in Generic
                  /\ SimilarityOf(c) >= threshold}

Ahead(c, d) ==
  \/ SimilarityOf(c) > SimilarityOf(d)
  \/ /\ SimilarityOf(c) = SimilarityOf(d)
     /\ \/ sources[c[1]].version > sources[d[1]].version
        \/ sources[c[1]].version = sources[d[1]].version /\ c[2] < d[2]

\* The first TopK of the sorted candidates; equals in whatever order the
\* database returned them.
BestOf(found) ==
  {top \in SUBSET found :
     /\ Cardinality(top) = Min({TopK, Cardinality(found)})
     /\ \A c \in top, d \in found \ top : ~Ahead(d, c)}

\* For every identity the newest version is the valid one, whichever calls ran
\* at once and failed: a version is given up only for a newer one, and where the
\* database can tell, a version has one row.  A source is searchable as a whole
\* or not at all.
KnowledgeIsSound ==
  /\ \A k \in Ingests : sources[k].status = "DEPRECATED" =>
       \E v \in Active(IdentityOf[k]) : sources[v].version > sources[k].version
  /\ \A i \in Unique : \A v, w \in Versions(i) :
       sources[v].version = sources[w].version => v = w
  /\ \A k \in Ingests : SectionsOf(k) \subseteq chunks \/ SectionsOf(k) \cap chunks = {}
=============================================================================
