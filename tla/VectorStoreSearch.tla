------------------------- MODULE VectorStoreSearch -------------------------
(***************************************************************************)
(* SimilaritySearch of the vector stores: what is asked of the service,    *)
(* what its answer becomes, and what a search leaves behind for the next.  *)
(*                                                                         *)
(* The service ranks its documents by similarity and answers what it is    *)
(* asked, fails with a status, or breaks off while the answer is read.     *)
(* Similarities are whole numbers, MaxScore is the similarity 1.           *)
(***************************************************************************)
EXTENDS Naturals, Places

CONSTANTS MaxDocs,    \* documents the service holds
          MaxScore,   \* similarities are 0..MaxScore
          DefaultK    \* number of results of a store that does not let the caller choose

SQL == {"alloydb", "cloudsql"}
Stores == SQL \cup {"azureaisearch", "bedrockknowledgebases", "chroma", "milvus",
                       "mongovector", "opensearch", "pgvector", "pinecone", "qdrant",
                       "redis", "weaviate"}

\* match: the caller's filter is true of it; mine: it is in the caller's namespace.
Doc == [score : 0..MaxScore, match : BOOLEAN, mine : BOOLEAN]

VARIABLES store,
          docs,      \* what the service holds, the most similar first
          radius,    \* in the search parameters of a milvus store, 0 if there is none
          pc,        \* "idle" or "found"
          k, t,      \* number of documents and score threshold of the search
          filter,    \* "none", "right" or "wrong": of a type the store has no use for
          service,   \* "answers", "status" or "breaks"
          found,     \* positions of the documents that are returned, in order
          outcome    \* "none", "ok", "listed" (a search by metadata) or "error"

vars == <<store, docs, radius, pc, k, t, filter, service, found, outcome>>

Init == /\ store \in Stores
        /\ docs \in UNION {{f \in [1..n -> Doc] : \A i, j \in 1..n :
                               i < j => f[i].score >= f[j].score} : n \in 0..MaxDocs}
        /\ radius = 0 /\ pc = "idle"
        /\ k = 0 /\ t = 0 /\ filter = "none" /\ service = "answers"
        /\ found = <<>> /\ outcome = "none"

----------------------------------------------------------------------------
(* Answers, as sets of positions in the ranking. A store gives the filter, *)
(* the namespace and the number to the service, or applies the threshold   *)
(* to what the service found.                                              *)

Atmost(n, positions) == {i \in positions : Cardinality({j \in positions : j <= i}) <= n}
Above(bound, positions) == {i \in positions : docs[i].score >= bound}

Matching == {i \in DOMAIN docs : filter' = "right" => docs[i].match}
Mine == {i \in DOMAIN docs : docs[i].mine}
Distance(i) == MaxScore - docs[i].score

\* The filter is a map; the comparison with the threshold is strict.
Pgvector == Atmost(k', {i \in Mine \cap Matching : t' # 0 => docs[i].score > t'})

\* The name of the collection is the namespace, and nothing is ranked.
PgvectorSearch == Mine \cap Matching

\* A filter that is not a map is no filter.
Chroma == Above(t', Atmost(k', Mine \cap Matching))

Pinecone == Above(t', Atmost(k', Mine \cap Matching))

RadiusAfter == IF t' > 0 THEN t' ELSE radius

Milvus == Atmost(k', {i \in Matching : RadiusAfter > 0 => Distance(i) < RadiusAfter})

\* Deviation: the filter is applied to what the service found, or not at all.
QdrantFilteredAfter == Above(t', Atmost(k', DOMAIN docs)) \cap Matching
Qdrant == Atmost(k', Above(t', Matching))
Weaviate == Atmost(k', Above(t', Mine \cap Matching))
WeaviateMetadata == Mine \cap Matching

\* The index is the namespace; there is no filter.
OpenSearch == Above(t', Atmost(k', Mine))

\* A filter that is not a string is no filter.
AzureAISearch == Above(t', Atmost(k', Mine \cap Matching))

\* A threshold of 1 is no threshold; of nothing, one is returned.
RedisLimit == IF k' = 0 THEN 1 ELSE k'
Redis == Atmost(RedisLimit, IF 0 < t' /\ t' < MaxScore THEN Above(t', Matching) ELSE Matching)

\* The number of documents is the store's, there is no threshold.
AlloyDB == Atmost(DefaultK, Matching)
CloudSQL == Atmost(DefaultK, Matching)

Mongovector == Above(t', Atmost(k', Matching))

\* All pages are read, k' results each.
BedrockKnowledgeBases == Above(t', Matching)

Answer == CASE store = "alloydb"       -> AlloyDB
            [] store = "azureaisearch" -> AzureAISearch
            [] store = "bedrockknowledgebases" -> BedrockKnowledgeBases
            [] store = "chroma"        -> Chroma
            [] store = "cloudsql"      -> CloudSQL
            [] store = "milvus"        -> Milvus
            [] store = "mongovector"   -> Mongovector
            [] store = "opensearch"    -> OpenSearch
            [] store = "pgvector"      -> Pgvector
            [] store = "pinecone"      -> Pinecone
            [] store = "qdrant"        -> Qdrant
            [] store = "redis"         -> Redis
            [] store = "weaviate"      -> Weaviate

----------------------------------------------------------------------------
(* What is refused before the service is asked.                            *)

Unbounded == SQL \cup {"azureaisearch", "bedrockknowledgebases", "milvus", "opensearch"}
OutOfRange == t' > MaxScore /\ store \notin Unbounded

\* The stores that refuse a filter of the wrong type.
Typed == {"bedrockknowledgebases", "milvus", "pgvector", "redis", "weaviate"}

\* Those that leave it out; the others give any filter to the service.
LeftOut == {"azureaisearch", "chroma", "opensearch"}

\* opensearch does not look at the status, mongovector not at the error of its
\* cursor.
Fails == \/ service' = "status" /\ store # "opensearch"
         \/ service' = "breaks" /\ store # "mongovector"

Search ==
    /\ pc = "idle" /\ pc' = "found"
    /\ k' \in 0..MaxDocs /\ t' \in 0..(MaxScore + 1)
    /\ filter' \in {"none", "right"} \cup (IF store \in Typed \cup LeftOut THEN {"wrong"} ELSE {})
    /\ service' \in {"answers", "status", "breaks"}
    /\ IF OutOfRange \/ (filter' = "wrong" /\ store \in Typed)
       THEN outcome' = "error" /\ found' = <<>> /\ radius' = radius
       ELSE /\ radius' = IF store = "milvus" THEN RadiusAfter ELSE radius
            /\ IF Fails THEN outcome' = "error" /\ found' = <<>>
               ELSE /\ outcome' = "ok"
                    /\ CASE service' = "answers" -> found' = InOrder(Answer)
                         [] service' = "status"  -> found' = <<>>
                         [] service' = "breaks"  ->
                              \E n \in 0..Cardinality(Answer) :
                                 found' = InOrder(Atmost(n, Answer))
    /\ UNCHANGED <<store, docs>>

\* Any k' of those that match: the search by metadata alone.
MetadataSearch ==
    /\ pc = "idle" /\ pc' = "found"
    /\ store \in {"pgvector", "weaviate"}
    /\ k' \in 0..MaxDocs /\ t' = 0
    /\ filter' \in {"none", "right"}
    /\ service' = "answers" /\ outcome' = "listed"
    /\ LET those == IF store = "pgvector" THEN PgvectorSearch ELSE WeaviateMetadata
       IN \E S \in SUBSET those :
             /\ Cardinality(S) = Cardinality(Atmost(k', those))
             /\ found' \in SetToSeqs(S)
    /\ UNCHANGED <<store, docs, radius>>

\* The caller goes on with the store.
SearchAgain ==
    /\ pc = "found" /\ pc' = "idle"
    /\ k' = 0 /\ t' = 0 /\ filter' = "none" /\ service' = "answers"
    /\ found' = <<>> /\ outcome' = "none"
    /\ UNCHANGED <<store, docs, radius>>

Next == Search \/ MetadataSearch \/ SearchAgain

Spec == Init /\ [][Next]_vars

\* The score of a document that is returned.
Reported(i) == IF store \in SQL \cup {"redis", "milvus"} THEN Distance(i) ELSE docs[i].score

----------------------------------------------------------------------------
Found == Range(found)
Room == IF store \in SQL THEN DefaultK ELSE k
Wanted == {i \in DOMAIN docs : /\ filter = "right" => docs[i].match
                               /\ docs[i].score >= t}

TypeOK ==
    /\ store \in Stores /\ docs \in Seq(Doc) /\ Len(docs) <= MaxDocs
    /\ radius \in 0..(MaxScore + 1) /\ pc \in {"idle", "found"}
    /\ k \in 0..MaxDocs /\ t \in 0..(MaxScore + 1)
    /\ filter \in {"none", "right", "wrong"} /\ service \in {"answers", "status", "breaks"}
    /\ found \in Seq(DOMAIN docs) /\ outcome \in {"none", "ok", "listed", "error"}

(* No document below the threshold is returned; the SQL stores have no threshold,
   redis none of 1, that of milvus bounds a distance from above. *)
NoneTooLow ==
    \A i \in Found : \/ docs[i].score >= t
                     \/ store \in SQL \cup {"milvus"}
                     \/ store = "redis" /\ t = MaxScore

(* A filter the store can use is kept to, and one it cannot use is refused, but
   by opensearch, which has no filter, and where it is left out. *)
FilterKept ==
    /\ filter = "right" /\ store # "opensearch" => \A i \in Found : docs[i].match
    /\ filter = "wrong" /\ outcome = "ok" => store \in LeftOut

Namespaced == {"pgvector", "chroma", "pinecone", "weaviate", "opensearch", "azureaisearch"}

(* Documents of another namespace are not returned, whatever the filter, by the
   stores that search one. *)
OthersKeptOut ==
    store \in Namespaced => \A i \in Found : docs[i].mine

(* No more documents are returned than were asked for, but by the SQL stores, by
   bedrockknowledgebases, and by redis, which returns one where none is asked for. *)
AtMostAsked ==
    \/ Len(found) <= k
    \/ store \in SQL \cup {"bedrockknowledgebases"}
    \/ store = "redis" /\ k = 0 /\ Len(found) = 1

(* The most similar of the wanted documents are returned: one is left out only
   where there is no room, for others that are as similar. A radius of an earlier
   search limits those of milvus, a strict comparison those of pgvector. *)
BestAreFound ==
    outcome = "ok" /\ service = "answers" /\ store \notin {"opensearch", "milvus"} =>
        \A i \in Wanted \ Found :
            \/ Len(found) >= Room /\ \A j \in Found : docs[j].score >= docs[i].score
            \/ ~docs[i].mine
            \/ store = "pgvector" /\ docs[i].score = t

(* The number of documents is chosen after the filter: one that matches is not
   crowded out by one that does not. *)
FilteredBeforeCut ==
    outcome = "ok" /\ service = "answers" /\ filter = "right" /\ t = 0 /\ Room > 0
    /\ store \notin {"opensearch", "milvus"}
    /\ (\E i \in DOMAIN docs : docs[i].match /\ docs[i].mine)
    => found # <<>>

(* A search of milvus without threshold finds what there is, unless an earlier
   search of the store had one: its radius stays. *)
RadiusStays ==
    store = "milvus" /\ outcome = "ok" /\ service = "answers" /\ t = 0 /\ k > 0
    /\ filter = "none" /\ docs # <<>> /\ found = <<>>
    => \E bound \in 1..(MaxScore + 1) : radius = bound /\ MaxScore - docs[1].score >= bound

(* A service that fails gives no documents: not an empty answer for a status, nor
   the first part of one that broke off; but opensearch and mongovector do. *)
FailureIsError ==
    outcome = "ok" => \/ service = "answers"
                      \/ service = "status" /\ store = "opensearch"
                      \/ service = "breaks" /\ store = "mongovector"

(* The scores order the documents as their similarity does; those of redis, milvus
   and the SQL stores are distances. *)
ScoreIsSimilarity ==
    store \notin SQL \cup {"redis", "milvus"} =>
        \A i, j \in Found : docs[i].score > docs[j].score => Reported(i) > Reported(j)

Fitting == Cardinality({i \in DOMAIN docs : docs[i].match
                                             /\ (store \in Namespaced => docs[i].mine)})
ExactlyFitting == /\ \A i \in Found : docs[i].match
                  /\ Len(found) = (IF k < Fitting THEN k ELSE Fitting)
FilteredSearch == outcome = "ok" /\ service = "answers" /\ filter = "right" /\ t = 0 /\ k > 0

(* A search with a filter gives as many of the documents that match as were asked
   for, or all, in the stores that hand number and filter to the service; the others
   are the subject of SearchIsExact. *)
FilteredExactly ==
    FilteredSearch /\ store \notin SQL \cup {"bedrockknowledgebases", "opensearch", "milvus"}
    => ExactlyFitting

(* "Searches with metadata filters retrieve exactly the number of nearest-neighbors
   results that match the filters" (vectorstores/options.go:35-36). alloydb and
   cloudsql ask for a number of their own, bedrockknowledgebases reads all pages,
   opensearch has no filter, and milvus keeps the radius of an earlier search. *)
SearchIsExact == FilteredSearch => ExactlyFitting

=============================================================================
