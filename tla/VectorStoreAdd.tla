--------------------------- MODULE VectorStoreAdd ---------------------------
(***************************************************************************)
(* AddDocuments of the vector stores: which documents are embedded, how    *)
(* they are written, what is left behind when a write fails half way, and  *)
(* what a caller that calls again with the same documents gets.            *)
(*                                                                         *)
(* The services behind the stores are external: a write is kept, refused,  *)
(* or kept although its reply is lost.                                     *)
(***************************************************************************)
EXTENDS Naturals, Places

CONSTANTS MaxDocs,   \* documents of a call
          MaxCalls   \* calls of a caller that calls again after an error

Stores == {"alloydb", "azureaisearch", "chroma", "cloudsql", "milvus", "mongovector",
           "opensearch", "pgvector", "pinecone", "qdrant", "redis", "weaviate"}

\* A document as far as the stores tell documents apart: it has an id of its own
\* in its metadata (one and the same for all that do), the caller's deduplicater
\* knows it, it has a value for a metadata column of the table.
Doc == [own : BOOLEAN, known : BOOLEAN, column : BOOLEAN]

VARIABLES store,
          dedup,     \* a deduplicater is given
          limited,   \* a score threshold, filters or the like are given
          given,     \* the documents as the caller wrote them
          docs,      \* and as they are now: the stores share their metadata
          call,      \* number of the call
          pc,        \* "begin", "embed", "write", "done"
          todo,      \* positions of the documents that are added
          rows,      \* what the service holds
          ids,       \* the ids that are returned
          outcome    \* of the call: "none", "ok", "error" or "panic"

vars == <<store, dedup, limited, given, docs, call, pc, todo, rows, ids, outcome>>

Init == /\ store \in Stores /\ dedup \in BOOLEAN /\ limited \in BOOLEAN
        /\ given \in UNION {[1..n -> Doc] : n \in 0..MaxDocs}
        /\ docs = given /\ call = 1
        /\ pc = "begin" /\ todo = <<>> /\ rows = {}
        /\ ids = <<>> /\ outcome = "none"

----------------------------------------------------------------------------
(* What is added.                                                          *)

Ends(how, named) == pc' = "done" /\ outcome' = how /\ ids' = named

\* Options that would have no meaning are refused by some and ignored by others.
Refuses == \/ store = "mongovector" /\ (dedup \/ limited)
           \/ store \in {"pgvector", "chroma"} /\ limited

\* Deviation: the documents the deduplicater knows are the ones kept.
KeptIfKnown(positions) ==
    IF dedup THEN {k \in positions : docs[k].known} ELSE positions

PgvectorDeduplicate(positions) ==
    IF dedup THEN {k \in positions : ~docs[k].known} ELSE positions

WeaviateDeduplicate(positions) ==
    IF dedup THEN {k \in positions : ~docs[k].known} ELSE positions

Chosen == InOrder(CASE store = "pgvector" -> PgvectorDeduplicate(DOMAIN docs)
                    [] store = "weaviate" -> WeaviateDeduplicate(DOMAIN docs)
                    [] OTHER              -> DOMAIN docs)

Begin ==
    /\ pc = "begin"
    /\ IF Refuses THEN Ends("error", <<>>) /\ UNCHANGED todo
       ELSE /\ todo' = Chosen
            /\ IF store = "weaviate" /\ todo' = <<>> THEN Ends("ok", <<>>)
               ELSE pc' = "embed" /\ UNCHANGED <<ids, outcome>>
    /\ UNCHANGED <<store, dedup, limited, given, docs, call, rows>>

----------------------------------------------------------------------------
(* The embedder gives a vector for each document, too few, or an error.    *)

\* These take the vector of each document by its position.
Uncounted == {"alloydb", "cloudsql"}

EmbedFails ==
    /\ pc = "embed"
    /\ Ends("error", <<>>)
    /\ UNCHANGED <<store, dedup, limited, given, docs, call, todo, rows>>

EmbedsTooFew ==
    /\ pc = "embed" /\ todo # <<>> /\ store # "chroma"
    /\ Ends(IF store \in Uncounted THEN "panic" ELSE "error", <<>>)
    /\ UNCHANGED <<store, dedup, limited, given, docs, call, todo, rows>>

\* The vector of the first document gives the dimension of a milvus collection,
\* the metadata of the first the schema of a redis index.
Embeds ==
    /\ pc = "embed"
    /\ IF todo = <<>> /\ store \in {"milvus", "redis"} THEN Ends("panic", <<>>)
       ELSE pc' = "write" /\ UNCHANGED <<ids, outcome>>
    /\ UNCHANGED <<store, dedup, limited, given, docs, call, todo, rows>>

----------------------------------------------------------------------------
(* Writing: the positions in todo that are kept, how the call ends, the    *)
(* positions whose ids it returns.                                         *)

Wrote(kept, how, named) == [kept |-> kept, how |-> how, named |-> named]
All == 1..Len(todo)
Every == [k \in All |-> k]
FirstOf(k) == [j \in 1..k |-> j]

\* One request or one implicit transaction.
Atomic == {Wrote(All, "ok", Every), Wrote(All, "error", <<>>), Wrote({}, "error", <<>>)}

\* The id of a document; the one they may bring is <<0, 0>>.
IdOf(k) == IF store \in {"alloydb", "cloudsql", "redis"} /\ docs[todo[k]].own
           THEN <<0, 0>> ELSE <<call, k>>

\* The id is the primary key of the table.
Conflict == \/ \E j, k \in All : j # k /\ IdOf(j) = IdOf(k)
            \/ \E k \in All : \E row \in rows : row.id = IdOf(k)

Pgvector == {Wrote(All, "ok", Every), Wrote(All, "error", Every), Wrote({}, "error", Every)}

AlloyDB == IF Conflict THEN {Wrote({}, "error", <<>>)} ELSE Atomic
CloudSQL == IF Conflict THEN {Wrote({}, "error", <<>>)} ELSE Atomic
Chroma == Atomic
Pinecone == Atomic
Qdrant == Atomic

\* It returns no ids; a flush that fails comes after the rows are kept.
Milvus == {Wrote(All, "ok", <<>>), Wrote(All, "error", <<>>), Wrote({}, "error", <<>>)}

\* Deviation: the errors of the single commands are not joined.
RedisUnjoined == {Wrote(S, "ok", Every) : S \in SUBSET All}

\* A command for each document, sent together.
Redis == {Wrote(All, "ok", Every)} \cup {Wrote(S, "error", <<>>) : S \in SUBSET All}

\* InsertMany is ordered; of no documents it is an error.
Mongovector == (IF todo = <<>> THEN {} ELSE {Wrote(All, "ok", Every)})
               \cup {Wrote(1..k, "error", <<>>) : k \in 0..Len(todo)}

\* The answer has a result for each object, which nobody reads.
Weaviate == {Wrote(S, "ok", Every) : S \in SUBSET All}
            \cup {Wrote(S, "error", <<>>) : S \in SUBSET All}

\* A request for each document; its status is not looked at.
OpenSearch == {Wrote(S, "ok", Every) : S \in SUBSET All}
              \cup UNION {{Wrote(S, "error", FirstOf(k - 1)) : S \in SUBSET (1..k)} : k \in All}

\* A request for each document, until one fails.
AzureAISearch == {Wrote(All, "ok", Every)}
                 \cup UNION {{Wrote(S, "error", FirstOf(k - 1)) :
                              S \in {1..(k - 1), 1..k}} : k \in All}

Writes == CASE store = "alloydb"       -> AlloyDB
            [] store = "azureaisearch" -> AzureAISearch
            [] store = "chroma"        -> Chroma
            [] store = "cloudsql"      -> CloudSQL
            [] store = "milvus"        -> Milvus
            [] store = "mongovector"   -> Mongovector
            [] store = "opensearch"    -> OpenSearch
            [] store = "pgvector"      -> Pgvector
            [] store = "pinecone"      -> Pinecone
            [] store = "qdrant"        -> Qdrant
            [] store = "redis"         -> Redis
            [] store = "weaviate"      -> Weaviate

RowOf(k) == [id |-> IdOf(k), doc |-> todo[k], call |-> call,
             column |-> docs[todo[k]].column]

\* Later rows replace earlier ones of their id, in redis; elsewhere ids differ.
Kept(positions) ==
    {RowOf(k) : k \in {j \in positions : \A l \in positions : IdOf(l) = IdOf(j) => l <= j}}

\* cloudsql deletes what it writes into columns from the caller's metadata, to
\* write the rest as JSON.
MetadataAfter == IF store = "cloudsql"
                 THEN [k \in DOMAIN docs |-> [docs[k] EXCEPT !.column = FALSE]]
                 ELSE docs

Write ==
    /\ pc = "write"
    /\ \E w \in Writes :
          /\ rows' = {row \in rows : \A k \in w.kept : row.id # IdOf(k)} \cup Kept(w.kept)
          /\ Ends(w.how, [k \in DOMAIN w.named |-> IdOf(w.named[k])])
    /\ docs' = MetadataAfter
    /\ UNCHANGED <<store, dedup, limited, given, call, todo>>

\* The caller calls again, with the documents it has.
CallAgain ==
    /\ pc = "done" /\ outcome = "error" /\ call < MaxCalls
    /\ pc' = "begin" /\ call' = call + 1
    /\ todo' = <<>> /\ ids' = <<>> /\ outcome' = "none"
    /\ UNCHANGED <<store, dedup, limited, given, docs, rows>>

Next == Begin \/ EmbedFails \/ EmbedsTooFew \/ Embeds \/ Write \/ CallAgain

Spec == Init /\ [][Next]_vars

----------------------------------------------------------------------------
Done(how) == pc = "done" /\ outcome = how
Positions == DOMAIN given
Unchecked == {"opensearch", "weaviate"}
Names(id, doc) == \E row \in rows : row.id = id /\ row.doc = doc

TypeOK ==
    /\ store \in Stores /\ dedup \in BOOLEAN /\ limited \in BOOLEAN
    /\ given \in Seq(Doc) /\ docs \in Seq(Doc) /\ Len(docs) = Len(given)
    /\ call \in 1..MaxCalls /\ pc \in {"begin", "embed", "write", "done"}
    /\ todo \in Seq(Positions)
    /\ rows \subseteq [id : Nat \X Nat, doc : Positions, call : 1..MaxCalls, column : BOOLEAN]
    /\ ids \in Seq(Nat \X Nat) /\ Len(ids) <= Len(docs)
    /\ outcome \in {"none", "ok", "error", "panic"}

(* After a success each id names a row that holds its document, for each document
   that was to be added, in the stores that learn what became of each: opensearch
   does not look at the status of its requests, weaviate not at the result of each
   object, and milvus returns no ids (see AddedIdsReturned). *)
IdsNameAdded ==
    Done("ok") /\ store \notin Unchecked \cup {"milvus"} =>
        /\ Len(ids) = Len(todo)
        /\ \A k \in DOMAIN ids :
              \/ Names(ids[k], todo[k])
              \/ \E j \in DOMAIN ids : j > k /\ ids[j] = ids[k] /\ store = "redis"

(* "returns the ids of the added documents", as these stores say of AddDocuments
   (opensearch/opensearch.go:53-54, weaviate/weaviate.go:89-91,
   milvus/milvus.go:194-195, alloydb, chroma, cloudsql, pinecone): a success comes
   with one id for each document that was to be added, of a row that holds it.
   opensearch and weaviate return ids of documents that were refused, milvus none. *)
AddedIdsReturned ==
    Done("ok") /\ store \in {"alloydb", "chroma", "cloudsql", "milvus", "opensearch",
                            "pinecone", "weaviate"} =>
        /\ Len(ids) = Len(todo)
        /\ \A k \in DOMAIN ids : Names(ids[k], todo[k])

(* A success means that every document of the call is there. *)
SuccessIsComplete ==
    Done("ok") /\ store \notin Unchecked =>
        /\ \A k \in DOMAIN todo :
              \/ \E row \in rows : row.doc = todo[k] /\ row.call = call
              \/ store = "redis" /\ given[todo[k]].own
        /\ store # "milvus" =>
              \A k \in DOMAIN ids : ids[k] \in {row.id : row \in rows}

(* The ids that come with an error name documents that were added, so that the
   caller may go on from there; pgvector returns ids of a batch that was rolled
   back, opensearch of documents that were refused. *)
IdsOfErrorAreAdded ==
    Done("error") /\ store \notin {"pgvector", "opensearch"} =>
        \A k \in DOMAIN ids : Names(ids[k], todo[k])

(* A call whose documents are one request or one transaction adds all or none. *)
AllOrNothing ==
    store \in {"alloydb", "cloudsql", "pgvector", "chroma", "pinecone", "qdrant", "milvus"}
    /\ pc = "done" =>
        LET added == {row.doc : row \in {r \in rows : r.call = call}}
        IN added = {} \/ added = Range(todo)

(* A document that brings its id is kept at most once, however often it is
   added, by the stores that use the id. *)
OwnIdsOnce ==
    store \in {"alloydb", "cloudsql", "redis"} =>
        Cardinality({row \in rows : given[row.doc].own}) <= 1

(* What is kept of a document is what the caller gave; cloudsql loses the columns
   of documents that are added again, it has deleted them from the metadata. *)
RowsAreGiven ==
    \A row \in rows : \/ row.column = given[row.doc].column
                      \/ store = "cloudsql" /\ row.call > 1

(* A document the deduplicater knows is not added, by the stores that ask it. *)
KnownKeptOut ==
    dedup /\ store \in {"pgvector", "weaviate", "mongovector"} =>
        \A row \in rows : ~given[row.doc].known

(* AddDocuments panics only where the first document is taken from none, or a
   vector for each document from too few. *)
PanicsKnown ==
    Done("panic") => \/ given = <<>> /\ store \in {"milvus", "redis"}
                     \/ given # <<>> /\ store \in {"alloydb", "cloudsql"}

----------------------------------------------------------------------------
(* The inductive invariant.                                                *)

\* Only the columns of the metadata change, in cloudsql, when it has written.
GivenInv ==
    /\ \A k \in Positions : docs[k].own = given[k].own /\ docs[k].known = given[k].known
    /\ docs = given \/ (store = "cloudsql" /\ (call > 1 \/ pc = "done"))

\* What is added is chosen once a call is begun that is not refused.
TodoInv ==
    /\ Len(todo) <= Len(given)
    /\ pc = "begin" => todo = <<>>
    /\ pc \in {"embed", "write"} => ~Refuses
    /\ pc # "done" <=> outcome = "none"
    /\ pc # "done" => ids = <<>>
    /\ dedup /\ store \in {"pgvector", "weaviate"} =>
          \A k \in DOMAIN todo : ~given[todo[k]].known
    /\ pc # "begin" /\ ~Refuses /\ store \notin {"pgvector", "weaviate"} =>
          Len(todo) = Len(given)

\* A row has an id of its own: that of its place in the call that wrote it, or the
\* one its document brings, in the stores that use it.
TakesOwnIds == store \in {"alloydb", "cloudsql", "redis"}
RowsInv ==
    /\ Refuses => rows = {}
    /\ \A row \in rows :
          /\ row.call <= call /\ (pc # "done" => row.call < call)
          /\ IF TakesOwnIds /\ given[row.doc].own THEN row.id = <<0, 0>>
             ELSE row.id[1] = row.call
    /\ \A one, other \in rows : one.id = other.id => one = other

IInv == TypeOK /\ GivenInv /\ TodoInv /\ RowsInv

=============================================================================
