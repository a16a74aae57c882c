--------------------------- MODULE Services_proofs ---------------------------
(***************************************************************************)
(* What the services around the chains promise, for any number of          *)
(* documents, calls and callers: what AddDocuments returns tells what was  *)
(* kept, and what is kept is what was given; what is found in a store is   *)
(* what was asked for, and what is read of a conversation is what was said *)
(* in it; the vectors of texts are of those texts; and the settings of a   *)
(* constructor are those it was given.                                     *)
(***************************************************************************)
EXTENDS Services, FiniteSetTheorems, FunctionTheorems, SequenceTheorems,
        WellFoundedInduction, TLAPS

-----------------------------------------------------------------------------
(* VectorStoreAdd: sets of positions, put in order.                        *)

(* Sets are counted the same wherever that is instantiated.                *)
LEMMA AddCounts == \A S : Adding!Cardinality(S) = Cardinality(S)
BY DEF Adding!Cardinality, Cardinality

(* Positions can be put in order.                                          *)
LEMMA OrderExists ==
    ASSUME NEW n \in Nat, NEW S \in SUBSET (1..n)
    PROVE  /\ Cardinality(S) \in Nat /\ Cardinality(S) <= n
           /\ \E s \in [1..Cardinality(S) -> S] : \A i, j \in DOMAIN s : i < j => s[i] < s[j]
<1> DEFINE Fine(m) == \A T \in SUBSET (1..m) :
               /\ Cardinality(T) \in Nat /\ Cardinality(T) <= m
               /\ \E s \in [1..Cardinality(T) -> T] :
                     \A i, j \in 1..Cardinality(T) : i < j => s[i] < s[j]
           Bad == {m \in Nat : ~Fine(m)}
<1>1. Bad = {}
  <2> SUFFICES ASSUME Bad # {} PROVE FALSE
    OBVIOUS
  <2>1. PICK m \in Bad : \A k \in Bad : ~(<<k, m>> \in OpToRel(<, Nat))
    <3>1. Bad \in SUBSET Nat /\ Bad # {}
      OBVIOUS
    <3> HIDE DEF Bad
    <3> QED BY <3>1, WFMin, NatLessThanWellFounded
  <2>2. m \in Nat /\ ~Fine(m)
    OBVIOUS
  <2>3. \A k \in Nat : k < m => Fine(k)
    <3> SUFFICES ASSUME NEW k \in Nat, k < m PROVE k \notin Bad
      OBVIOUS
    <3> HIDE DEF Bad
    <3> QED BY <2>1, <2>2 DEF OpToRel
  <2> HIDE DEF Bad
  <2>4. PICK T \in SUBSET (1..m) :
           ~ (/\ Cardinality(T) \in Nat /\ Cardinality(T) <= m
              /\ \E s \in [1..Cardinality(T) -> T] :
                    \A i, j \in 1..Cardinality(T) : i < j => s[i] < s[j])
    BY <2>2
  <2>5. m # 0
    <3> SUFFICES ASSUME m = 0 PROVE FALSE
      OBVIOUS
    <3>1. T = {}
      BY <2>4
    <3>2. Cardinality(T) = 0
      BY <3>1, FS_EmptySet
    <3>3. /\ [i \in 1..0 |-> 0] \in [1..0 -> T]
          /\ \A i, j \in 1..0 : i < j => [k \in 1..0 |-> 0][i] < [k \in 1..0 |-> 0][j]
      BY <3>1
    <3>4. \E s \in [1..0 -> T] : \A i, j \in 1..0 : i < j => s[i] < s[j]
      BY <3>3, Zenon
    <3>5. 0 \in Nat /\ 0 <= m
      OBVIOUS
    <3> QED BY <2>4, <3>2, <3>4, <3>5
  <2>6. m - 1 \in Nat /\ m - 1 < m /\ Fine(m - 1)
    <3> HIDE DEF Fine
    <3>1. m \in Nat
      BY <2>2
    <3>2. m - 1 \in Nat /\ m - 1 < m
      BY <2>5, <3>1
    <3> QED BY <2>3, <3>2
  <2>7. m \in T
    <3> SUFFICES ASSUME m \notin T PROVE FALSE
      OBVIOUS
    <3>1. T \in SUBSET (1..(m - 1))
      BY <2>2
    <3> QED BY <2>2, <2>4, <2>6, <3>1
  <2> DEFINE U == T \ {m}
  <2>8. U \in SUBSET (1..(m - 1))
    BY <2>2
  <2>9. /\ Cardinality(U) \in Nat /\ Cardinality(U) <= m - 1
        /\ \E s \in [1..Cardinality(U) -> U] :
              \A i, j \in 1..Cardinality(U) : i < j => s[i] < s[j]
    BY <2>6, <2>8
  <2>10. Cardinality(T) = Cardinality(U) + 1
    <3>1. IsFiniteSet(T)
      <4>1. IsFiniteSet(1..m) /\ T \subseteq 1..m
        BY <2>2, FS_Interval
      <4> QED BY <4>1, FS_Subset
    <3>2. Cardinality(U) = Cardinality(T) - 1 /\ Cardinality(T) \in Nat
      BY <2>7, <3>1, FS_RemoveElement, FS_CardinalityType
    <3> QED BY <3>2
  <2>11. PICK s \in [1..Cardinality(U) -> U] :
            \A i, j \in 1..Cardinality(U) : i < j => s[i] < s[j]
    BY <2>9
  <2> DEFINE c == Cardinality(U)
  <2>12. /\ c \in Nat /\ Cardinality(T) = c + 1 /\ c + 1 <= m
         /\ \A i \in 1..c : s[i] \in T /\ s[i] \in Nat /\ s[i] < m
         /\ \A i, j \in 1..c : i < j => s[i] < s[j]
    <3>1. m \in Nat /\ c \in Nat /\ c <= m - 1 /\ Cardinality(T) = c + 1
      BY <2>2, <2>9, <2>10
    <3>2. \A i \in 1..c : s[i] \in U
      OBVIOUS
    <3>3. \A u \in U : u \in T /\ u \in Nat /\ u < m
      BY <2>8, <3>1
    <3> HIDE DEF U
    <3> QED BY <2>11, <3>1, <3>2, <3>3
  <2> HIDE DEF c, U
  <2> DEFINE t == [i \in 1..(c + 1) |-> IF i = c + 1 THEN m ELSE s[i]]
  <2>13. t \in [1..(c + 1) -> T]
    BY <2>7, <2>12
  <2>14. \A i, j \in 1..(c + 1) : i < j => t[i] < t[j]
    BY <2>2, <2>12
  <2> HIDE DEF t
  <2>15. t \in [1..Cardinality(T) -> T] /\ \A i, j \in 1..Cardinality(T) : i < j => t[i] < t[j]
    BY <2>12, <2>13, <2>14
  <2>16. \E f \in [1..Cardinality(T) -> T] :
            \A i, j \in 1..Cardinality(T) : i < j => f[i] < f[j]
    BY <2>15, Zenon
  <2>17. Cardinality(T) \in Nat /\ Cardinality(T) <= m
    BY <2>12
  <2> QED BY <2>4, <2>16, <2>17
<1>2. Fine(n)
  <2>1. n \notin Bad
    BY <1>1
  <2> HIDE DEF Fine
  <2> QED BY <2>1
<1>3. /\ Cardinality(S) \in Nat /\ Cardinality(S) <= n
      /\ \E s \in [1..Cardinality(S) -> S] :
            \A i, j \in 1..Cardinality(S) : i < j => s[i] < s[j]
  BY <1>2
<1> QED BY <1>3

(* What InOrder makes of a set of positions.                               *)
LEMMA OrderIs ==
    ASSUME NEW n \in Nat, NEW S \in SUBSET (1..n)
    PROVE  /\ Adding!InOrder(S) \in Seq(S) /\ Len(Adding!InOrder(S)) = Cardinality(S)
           /\ Cardinality(S) \in Nat /\ Cardinality(S) <= n
           /\ \A i, j \in DOMAIN Adding!InOrder(S) : i < j => Adding!InOrder(S)[i] < Adding!InOrder(S)[j]
<1>1. /\ Adding!InOrder(S) \in [1..Cardinality(S) -> S]
      /\ \A i, j \in DOMAIN Adding!InOrder(S) : i < j => Adding!InOrder(S)[i] < Adding!InOrder(S)[j]
  <2>1. Adding!InOrder(S) = CHOOSE s \in [1..Adding!Cardinality(S) -> S] :
                                \A i, j \in DOMAIN s : i < j => s[i] < s[j]
    BY DEF Adding!InOrder
  <2>2. Adding!Cardinality(S) = Cardinality(S)
    BY AddCounts
  <2>3. Adding!InOrder(S) = CHOOSE s \in [1..Cardinality(S) -> S] :
                                \A i, j \in DOMAIN s : i < j => s[i] < s[j]
    BY <2>1, <2>2
  <2> QED BY <2>3, OrderExists
<1>2. Cardinality(S) \in Nat /\ Cardinality(S) <= n
  BY OrderExists
<1>3. Adding!InOrder(S) \in Seq(S)
  BY <1>1, <1>2
<1>4. Len(Adding!InOrder(S)) = Cardinality(S)
  BY <1>1, <1>2, <1>3, LenProperties
<1> QED BY <1>1, <1>2, <1>3, <1>4
(* The documents have their positions.                                     *)
LEMMA PositionsAre ==
    ASSUME Adding!TypeOK
    PROVE  /\ Len(given) \in Nat /\ Adding!Positions = 1..Len(given) /\ DOMAIN docs = 1..Len(given)
           /\ \A k \in Adding!Positions : given[k] \in Adding!Doc /\ docs[k] \in Adding!Doc
           /\ Len(todo) \in Nat /\ DOMAIN todo = 1..Len(todo)
           /\ \A k \in DOMAIN todo : todo[k] \in Adding!Positions
BY LenProperties, ElementOfSeq DEF Adding!TypeOK, Adding!Positions

\* What a store holds.
Row == [id : Nat \X Nat, doc : Adding!Positions, call : 1..MaxTries, column : BOOLEAN]

(* The ids of the documents of a call.                                     *)
LEMMA IdsAre ==
    ASSUME Adding!TypeOK, NEW k \in 1..Len(todo)
    PROVE  /\ Adding!IdOf(k) \in Nat \X Nat
           /\ IF Adding!TakesOwnIds /\ docs[todo[k]].own THEN Adding!IdOf(k) = <<0, 0>>
              ELSE Adding!IdOf(k) = <<call, k>>
<1>1. k \in Nat /\ call \in Nat
  BY PositionsAre DEF Adding!TypeOK
<1> QED BY <1>1 DEF Adding!IdOf, Adding!TakesOwnIds

(* Documents that bring no id have ids that differ.                        *)
LEMMA IdsDiffer ==
    ASSUME Adding!TypeOK, NEW j \in 1..Len(todo), NEW k \in 1..Len(todo), Adding!IdOf(j) = Adding!IdOf(k)
    PROVE  j = k \/ (Adding!TakesOwnIds /\ docs[todo[k]].own /\ docs[todo[j]].own)
<1>1. call \in Nat /\ call # 0 /\ j \in Nat /\ k \in Nat
  BY PositionsAre DEF Adding!TypeOK
<1>2. /\ IF Adding!TakesOwnIds /\ docs[todo[k]].own THEN Adding!IdOf(k) = <<0, 0>>
         ELSE Adding!IdOf(k) = <<call, k>>
      /\ IF Adding!TakesOwnIds /\ docs[todo[j]].own THEN Adding!IdOf(j) = <<0, 0>>
         ELSE Adding!IdOf(j) = <<call, j>>
  BY IdsAre
<1> QED BY <1>1, <1>2

(* Of the positions of an id there is a last one.                          *)
LEMMA LastOfId ==
    ASSUME Adding!TypeOK, NEW S \in SUBSET (1..Len(todo)), NEW k \in S
    PROVE  \E l \in S : Adding!IdOf(l) = Adding!IdOf(k) /\ \A m \in S : Adding!IdOf(m) = Adding!IdOf(l) => m <= l
<1>1. Len(todo) \in Nat
  BY PositionsAre
<1> DEFINE U == {Len(todo) - l : l \in {m \in S : Adding!IdOf(m) = Adding!IdOf(k)}}
<1>2. U \in SUBSET Nat /\ U # {}
  <2>1. \A l \in S : Len(todo) - l \in Nat
    BY <1>1
  <2> QED BY <2>1
<1>3. PICK x \in U : \A y \in U : ~(<<y, x>> \in OpToRel(<, Nat))
  <2> HIDE DEF U
  <2> QED BY <1>2, WFMin, NatLessThanWellFounded
<1>4. PICK l \in S : Adding!IdOf(l) = Adding!IdOf(k) /\ x = Len(todo) - l
  OBVIOUS
<1>5. \A m \in S : Adding!IdOf(m) = Adding!IdOf(l) => m <= l
  <2> SUFFICES ASSUME NEW m \in S, Adding!IdOf(m) = Adding!IdOf(l) PROVE m <= l
    OBVIOUS
  <2>1. Len(todo) - m \in U
    BY <1>4
  <2>2. Len(todo) - m \in Nat /\ x \in Nat
    BY <1>2, <2>1
  <2>3. ~(Len(todo) - m < x)
    BY <1>3, <2>1, <2>2 DEF OpToRel
  <2> QED BY <1>1, <1>4, <2>2, <2>3
<1> QED BY <1>4, <1>5

(* How a write ends: whose documents are kept, whose ids are returned.      *)
LEMMA WritesAre ==
    ASSUME Adding!TypeOK, NEW w \in Adding!Writes
    PROVE  /\ w.kept \subseteq 1..Len(todo) /\ w.how \in {"ok", "error"}
           /\ \E m \in 0..Len(todo) : w.named = [k \in 1..m |-> k]
           /\ w.how = "ok" /\ store \notin Adding!Unchecked => w.kept = 1..Len(todo)
           /\ w.how = "ok" /\ store # "milvus" => w.named = [k \in 1..Len(todo) |-> k]
           /\ store = "milvus" => w.named = <<>>
           /\ w.how = "error" /\ store \notin {"pgvector", "opensearch"} =>
                 \A k \in DOMAIN w.named : k \in w.kept
           /\ w.how = "error" /\ Adding!TakesOwnIds => w.named = <<>>
           /\ store \in {"alloydb", "cloudsql", "pgvector", "chroma", "pinecone", "qdrant",
                         "milvus"} => w.kept \in {{}, 1..Len(todo)}
           /\ store \in {"alloydb", "cloudsql"} => w.kept = {} \/ ~Adding!Conflict
<1> DEFINE n == Len(todo)
           Whole == w.how = "ok" /\ w.kept = Adding!All /\ w.named = Adding!Every
           Part == w.how = "ok" /\ w.kept \subseteq Adding!All /\ w.named = Adding!Every
           Unnamed == w.how = "error" /\ w.kept \subseteq Adding!All /\ w.named = <<>>
           First == w.how = "error" /\ w.kept \subseteq Adding!All
                    /\ \E m \in 0..n : w.named = Adding!FirstOf(m)
<1>1. n \in Nat /\ Adding!All = 1..n /\ Adding!Every = Adding!FirstOf(n)
  BY PositionsAre DEF Adding!All, Adding!Every, Adding!FirstOf
<1>2. /\ \A m \in 0..n : Adding!FirstOf(m) = [k \in 1..m |-> k] /\ DOMAIN Adding!FirstOf(m) = 1..m
      /\ <<>> = Adding!FirstOf(0) /\ 0 \in 0..n /\ n \in 0..n /\ DOMAIN <<>> = {}
  BY <1>1 DEF Adding!FirstOf
<1>3. CASE store \in {"alloydb", "cloudsql"}
  <2>1. Whole \/ Unnamed
    BY <1>3 DEF Adding!Writes, Adding!AlloyDB, Adding!CloudSQL, Adding!Atomic, Adding!Wrote
  <2>2. w.kept \in {{}, Adding!All} /\ (w.kept = {} \/ ~Adding!Conflict)
    BY <1>3 DEF Adding!Writes, Adding!AlloyDB, Adding!CloudSQL, Adding!Atomic, Adding!Wrote
  <2> QED BY <1>1, <1>2, <1>3, <2>1, <2>2 DEF Adding!Unchecked, Adding!TakesOwnIds
<1>4. CASE store \in {"chroma", "pinecone", "qdrant"}
  <2>1. Whole \/ Unnamed
    BY <1>4 DEF Adding!Writes, Adding!Chroma, Adding!Pinecone, Adding!Qdrant, Adding!Atomic, Adding!Wrote
  <2>2. w.kept \in {{}, Adding!All}
    BY <1>4 DEF Adding!Writes, Adding!Chroma, Adding!Pinecone, Adding!Qdrant, Adding!Atomic, Adding!Wrote
  <2> QED BY <1>1, <1>2, <1>4, <2>1, <2>2 DEF Adding!Unchecked, Adding!TakesOwnIds
<1>5. CASE store = "milvus"
  <2>1. w.how \in {"ok", "error"} /\ w.named = <<>> /\ (w.how = "ok" => w.kept = Adding!All)
    BY <1>5 DEF Adding!Writes, Adding!Milvus, Adding!Wrote
  <2>2. w.kept \in {{}, Adding!All}
    BY <1>5 DEF Adding!Writes, Adding!Milvus, Adding!Wrote
  <2> QED BY <1>1, <1>2, <1>5, <2>1, <2>2 DEF Adding!Unchecked, Adding!TakesOwnIds
<1>6. CASE store = "pgvector"
  <2>1. w.how \in {"ok", "error"} /\ w.named = Adding!Every /\ (w.how = "ok" => w.kept = Adding!All)
    BY <1>6 DEF Adding!Writes, Adding!Pgvector, Adding!Wrote
  <2>2. w.kept \in {{}, Adding!All}
    BY <1>6 DEF Adding!Writes, Adding!Pgvector, Adding!Wrote
  <2> QED BY <1>1, <1>2, <1>6, <2>1, <2>2 DEF Adding!Unchecked, Adding!TakesOwnIds
<1>7. CASE store \in {"redis", "mongovector"}
  <2>2. Whole \/ Unnamed
    <3>1. CASE store = "redis"
      BY <3>1 DEF Adding!Writes, Adding!Redis, Adding!Wrote
    <3>2. CASE store = "mongovector"
      <4>1. \A k \in 0..n : 1..k \subseteq Adding!All
        BY <1>1
      <4>2. \/ w = Adding!Wrote(Adding!All, "ok", Adding!Every)
            \/ \E k \in 0..Len(todo) : w = Adding!Wrote(1..k, "error", <<>>)
        BY <3>2 DEF Adding!Writes, Adding!Mongovector
      <4> QED BY <4>1, <4>2 DEF Adding!Wrote
    <3> QED BY <1>7, <3>1, <3>2
  <2> QED BY <1>1, <1>2, <1>7, <2>2 DEF Adding!Unchecked, Adding!TakesOwnIds
<1>8. CASE store = "weaviate"
  <2>1. Part \/ Unnamed
    BY <1>8 DEF Adding!Writes, Adding!Weaviate, Adding!Wrote
  <2> QED BY <1>1, <1>2, <1>8, <2>1 DEF Adding!Unchecked, Adding!TakesOwnIds
<1>9. CASE store = "opensearch"
  <2>1. \/ \E S \in SUBSET Adding!All : w = Adding!Wrote(S, "ok", Adding!Every)
        \/ \E k \in Adding!All : \E S \in SUBSET (1..k) : w = Adding!Wrote(S, "error", Adding!FirstOf(k - 1))
    BY <1>9 DEF Adding!Writes, Adding!OpenSearch
  <2>2. \A k \in Adding!All : 1..k \subseteq Adding!All /\ k - 1 \in 0..n
    BY <1>1
  <2>3. (\E S \in SUBSET Adding!All : w = Adding!Wrote(S, "ok", Adding!Every)) => Part
    BY DEF Adding!Wrote
  <2>4. ASSUME NEW k \in Adding!All, NEW S \in SUBSET (1..k), w = Adding!Wrote(S, "error", Adding!FirstOf(k - 1))
        PROVE  First
    <3>1. S \subseteq Adding!All /\ k - 1 \in 0..n
      BY <2>2
    <3>2. w.kept = S /\ w.how = "error" /\ w.named = Adding!FirstOf(k - 1)
      BY <2>4 DEF Adding!Wrote
    <3> QED BY <3>1, <3>2
  <2>5. Part \/ First
    BY <2>1, <2>3, <2>4
  <2> QED BY <1>1, <1>2, <1>9, <2>5 DEF Adding!Unchecked, Adding!TakesOwnIds
<1>10. CASE store = "azureaisearch"
  <2>1. \/ w = Adding!Wrote(Adding!All, "ok", Adding!Every)
        \/ \E k \in Adding!All : \E S \in {1..(k - 1), 1..k} : w = Adding!Wrote(S, "error", Adding!FirstOf(k - 1))
    BY <1>10 DEF Adding!Writes, Adding!AzureAISearch
  <2>2. \A k \in Adding!All : 1..k \subseteq Adding!All /\ 1..(k - 1) \subseteq 1..k /\ k - 1 \in 0..n
    BY <1>1
  <2>3. w = Adding!Wrote(Adding!All, "ok", Adding!Every) => Whole
    BY DEF Adding!Wrote
  <2>4. ASSUME NEW k \in Adding!All, NEW S \in {1..(k - 1), 1..k}, w = Adding!Wrote(S, "error", Adding!FirstOf(k - 1))
        PROVE  First /\ \A j \in DOMAIN w.named : j \in w.kept
    <3>1. S \subseteq Adding!All /\ k - 1 \in 0..n /\ 1..(k - 1) \subseteq S
      BY <2>2
    <3>2. w.kept = S /\ w.how = "error" /\ w.named = Adding!FirstOf(k - 1)
      BY <2>4 DEF Adding!Wrote
    <3> QED BY <1>2, <3>1, <3>2
  <2>5. Whole \/ (First /\ \A j \in DOMAIN w.named : j \in w.kept)
    BY <2>1, <2>3, <2>4
  <2> QED BY <1>1, <1>2, <1>10, <2>5 DEF Adding!Unchecked, Adding!TakesOwnIds
<1> QED
  BY <1>3, <1>4, <1>5, <1>6, <1>7, <1>8, <1>9, <1>10 DEF Adding!TypeOK, Adding!Stores

(* The rows after a write of some of the documents.                        *)
LEMMA RowsAre ==
    ASSUME Adding!IInv, pc = "write", NEW K \in SUBSET (1..Len(todo)),
           rows' = {row \in rows : \A k \in K : row.id # Adding!IdOf(k)} \cup Adding!Kept(K)
    PROVE  /\ rows' \subseteq Row
           /\ \A row \in rows' : row \in rows \/ \E k \in K : row = Adding!RowOf(k)
           /\ \A one, other \in rows' : one.id = other.id => one = other
           /\ \A k \in K : \E row \in rows' : row.id = Adding!IdOf(k)
           /\ \A k \in K : (\A l \in K : Adding!IdOf(l) = Adding!IdOf(k) => l <= k) => Adding!RowOf(k) \in rows'
           /\ \A row \in rows : row.call < call
           /\ K = {} => rows' = rows
<1>1. \A k \in K : Adding!RowOf(k) \in Row /\ Adding!RowOf(k).id = Adding!IdOf(k)
  <2> SUFFICES ASSUME NEW k \in K PROVE Adding!RowOf(k) \in Row /\ Adding!RowOf(k).id = Adding!IdOf(k)
    OBVIOUS
  <2>1. /\ Adding!IdOf(k) \in Nat \X Nat /\ todo[k] \in Adding!Positions /\ docs[todo[k]].column \in BOOLEAN
        /\ call \in 1..MaxTries
    BY IdsAre, PositionsAre DEF Adding!IInv, Adding!TypeOK, Adding!Doc
  <2> QED BY <2>1 DEF Adding!RowOf, Row
<1>2. rows \subseteq Row
  BY DEF Adding!IInv, Adding!TypeOK, Row
<1> DEFINE Lasts == {j \in K : \A l \in K : Adding!IdOf(l) = Adding!IdOf(j) => l <= j}
<1>3. Adding!Kept(K) = {Adding!RowOf(k) : k \in Lasts}
  BY DEF Adding!Kept
<1>4. rows' \subseteq Row /\ \A row \in rows' : row \in rows \/ \E k \in K : row = Adding!RowOf(k)
  BY <1>1, <1>2, <1>3
<1>5. ASSUME NEW one \in rows', NEW other \in rows', one.id = other.id PROVE one = other
  <2>1. CASE one \in rows /\ other \in rows
    BY <1>5, <2>1 DEF Adding!IInv, Adding!RowsInv
  <2>2. CASE one \in Adding!Kept(K) /\ other \in Adding!Kept(K)
    <3>1. PICK j \in Lasts : one = Adding!RowOf(j)
      BY <1>3, <2>2
    <3>2. PICK k \in Lasts : other = Adding!RowOf(k)
      BY <1>3, <2>2
    <3>3. Adding!IdOf(j) = Adding!IdOf(k)
      BY <1>1, <1>5, <3>1, <3>2
    <3>4. j <= k /\ k <= j /\ j \in Nat /\ k \in Nat
      BY <3>3, PositionsAre DEF Adding!IInv
    <3> QED BY <3>1, <3>2, <3>4
  <2>3. CASE one \in Adding!Kept(K) /\ other \notin Adding!Kept(K)
    <3>1. PICK j \in Lasts : one = Adding!RowOf(j)
      BY <1>3, <2>3
    <3>2. other.id # Adding!IdOf(j)
      BY <2>3
    <3> QED BY <1>1, <1>5, <3>1, <3>2
  <2>4. CASE other \in Adding!Kept(K) /\ one \notin Adding!Kept(K)
    <3>1. PICK j \in Lasts : other = Adding!RowOf(j)
      BY <1>3, <2>4
    <3>2. one.id # Adding!IdOf(j)
      BY <2>4
    <3> QED BY <1>1, <1>5, <3>1, <3>2
  <2> QED BY <2>1, <2>2, <2>3, <2>4
<1>6. \A k \in K : (\A l \in K : Adding!IdOf(l) = Adding!IdOf(k) => l <= k) => Adding!RowOf(k) \in rows'
  BY <1>3
<1>7. ASSUME NEW k \in K PROVE \E row \in rows' : row.id = Adding!IdOf(k)
  <2>1. PICK l \in K : Adding!IdOf(l) = Adding!IdOf(k) /\ \A m \in K : Adding!IdOf(m) = Adding!IdOf(l) => m <= l
    BY LastOfId DEF Adding!IInv
  <2> QED BY <1>1, <1>6, <2>1
<1>8. \A row \in rows : row.call < call
  BY DEF Adding!IInv, Adding!RowsInv
<1>9. K = {} => rows' = rows
  BY <1>3
<1> QED BY <1>4, <1>5, <1>6, <1>7, <1>8, <1>9

(* The documents that are chosen.                                          *)
LEMMA ChosenAre ==
    ASSUME Adding!IInv
    PROVE  /\ Adding!Chosen \in Seq(Adding!Positions) /\ Len(Adding!Chosen) \in Nat /\ Len(Adding!Chosen) <= Len(given)
           /\ dedup /\ store \in {"pgvector", "weaviate"} =>
                 \A k \in DOMAIN Adding!Chosen : ~given[Adding!Chosen[k]].known
           /\ store \notin {"pgvector", "weaviate"} => Len(Adding!Chosen) = Len(given)
<1> DEFINE those == CASE store = "pgvector" -> Adding!PgvectorDeduplicate(DOMAIN docs)
                      [] store = "weaviate" -> Adding!WeaviateDeduplicate(DOMAIN docs)
                      [] OTHER              -> DOMAIN docs
<1>1. /\ Len(given) \in Nat /\ Adding!Positions = 1..Len(given) /\ DOMAIN docs = 1..Len(given)
      /\ \A k \in Adding!Positions : docs[k].known = given[k].known
  BY PositionsAre DEF Adding!IInv, Adding!GivenInv
<1>2. /\ those \subseteq DOMAIN docs
      /\ dedup /\ store \in {"pgvector", "weaviate"} => \A k \in those : ~given[k].known
      /\ store \notin {"pgvector", "weaviate"} => those = DOMAIN docs
  BY <1>1 DEF Adding!PgvectorDeduplicate, Adding!WeaviateDeduplicate
<1>3. Adding!Chosen = Adding!InOrder(those)
  BY DEF Adding!Chosen
<1> HIDE DEF those
<1>4. those \in SUBSET (1..Len(given))
  BY <1>1, <1>2
<1>5. /\ Adding!InOrder(those) \in Seq(those) /\ Len(Adding!InOrder(those)) = Cardinality(those)
      /\ Cardinality(those) \in Nat /\ Cardinality(those) <= Len(given)
  BY <1>1, <1>4, OrderIs
<1>6. /\ \A k \in DOMAIN Adding!InOrder(those) : Adding!InOrder(those)[k] \in those
      /\ Adding!InOrder(those) \in [1..Len(Adding!InOrder(those)) -> those]
  BY <1>5, ElementOfSeq, LenProperties
<1>7. Adding!InOrder(those) \in Seq(Adding!Positions)
  <2> DEFINE o == Adding!InOrder(those)
             c == Len(o)
  <2>1. o \in [1..c -> those] /\ c \in Nat /\ those \subseteq Adding!Positions
    BY <1>1, <1>4, <1>5, <1>6
  <2> HIDE DEF o, c
  <2>2. o \in [1..c -> Adding!Positions]
    BY <2>1
  <2>3. o \in Seq(Adding!Positions)
    BY <2>1, <2>2
  <2> QED BY <2>3 DEF o
<1>8. store \notin {"pgvector", "weaviate"} => Cardinality(those) = Len(given)
  <2>1. Cardinality(1..Len(given)) = Len(given)
    <3>1. Cardinality(1..Len(given)) = IF 1 > Len(given) THEN 0 ELSE Len(given) - 1 + 1
      BY <1>1, FS_Interval
    <3> QED BY <1>1, <3>1
  <2> QED BY <1>1, <1>2, <2>1
<1> QED BY <1>2, <1>3, <1>5, <1>6, <1>7, <1>8

(* A call begins with the invariant.                                       *)
LEMMA AddInit == ASSUME MaxDocs \in Nat, MaxTries \in Nat \ {0}, Adding!Init PROVE Adding!IInv
<1>1. PICK n \in 0..MaxDocs : given \in [1..n -> Adding!Doc]
  BY DEF Adding!Init
<1>2. given \in Seq(Adding!Doc) /\ Len(given) = n /\ n \in Nat
  BY <1>1, LenProperties
<1>3. <<>> \in Seq(Adding!Positions) /\ <<>> \in Seq(Nat \X Nat) /\ Len(<<>>) = 0 /\ DOMAIN <<>> = {}
  BY EmptySeq
<1>4. Adding!TypeOK
  BY <1>2, <1>3 DEF Adding!Init, Adding!TypeOK
<1> QED BY <1>2, <1>3, <1>4 DEF Adding!Init, Adding!IInv, Adding!GivenInv, Adding!TodoInv, Adding!RowsInv, Adding!Refuses

(* A step that writes nothing keeps what is said of the rows.              *)
LEMMA RowsStay ==
    ASSUME Adding!IInv, UNCHANGED <<store, dedup, limited, given, call, rows>>,
           pc # "done" \/ pc' = "done"
    PROVE  Adding!RowsInv' /\ rows' \subseteq [id : Nat \X Nat, doc : Adding!Positions', call : 1..MaxTries,
                                        column : BOOLEAN]
BY DEF Adding!IInv, Adding!TypeOK, Adding!RowsInv, Adding!Refuses, Adding!TakesOwnIds, Adding!Positions

(* The documents are chosen.                                               *)
LEMMA BeginsToAdd == ASSUME Adding!IInv, Adding!Begin PROVE Adding!IInv'
<1>1. UNCHANGED <<store, dedup, limited, given, docs, call, rows>> /\ pc = "begin"
  BY DEF Adding!Begin
<1>2. /\ todo' \in Seq(Adding!Positions) /\ Len(todo') \in Nat /\ Len(todo') <= Len(given)
      /\ dedup /\ store \in {"pgvector", "weaviate"} =>
            \A k \in DOMAIN todo' : ~given[todo'[k]].known
      /\ ~Adding!Refuses /\ store \notin {"pgvector", "weaviate"} => Len(todo') = Len(given)
  <2>1. CASE Adding!Refuses
    <3>1. todo' = <<>>
      BY <1>1, <2>1 DEF Adding!Begin, Adding!IInv, Adding!TodoInv
    <3>2. <<>> \in Seq(Adding!Positions) /\ Len(<<>>) = 0 /\ DOMAIN <<>> = {} /\ Len(given) \in Nat
      BY PositionsAre DEF Adding!IInv
    <3> QED BY <2>1, <3>1, <3>2
  <2>2. CASE ~Adding!Refuses
    BY <1>1, <2>2, ChosenAre DEF Adding!Begin
  <2> QED BY <2>1, <2>2
<1>3. /\ ids' = <<>> /\ pc' \in {"embed", "done"} /\ outcome' \in {"none", "ok", "error"}
      /\ (pc' # "done" <=> outcome' = "none") /\ (pc' = "embed" => ~Adding!Refuses)
  BY <1>1 DEF Adding!Begin, Adding!Ends, Adding!IInv, Adding!TodoInv
<1>4. Adding!RowsInv' /\ rows' \subseteq [id : Nat \X Nat, doc : Adding!Positions', call : 1..MaxTries,
                                   column : BOOLEAN]
  BY <1>1, RowsStay
<1>5. Len(docs) = Len(given) /\ Len(given) \in Nat /\ <<>> \in Seq(Nat \X Nat) /\ Len(<<>>) = 0
  BY PositionsAre DEF Adding!IInv, Adding!TypeOK
<1>6. Adding!TypeOK'
  BY <1>1, <1>2, <1>3, <1>4, <1>5 DEF Adding!IInv, Adding!TypeOK, Adding!Positions
<1>7. Adding!GivenInv'
  BY <1>1 DEF Adding!IInv, Adding!GivenInv, Adding!Positions
<1>8. Adding!TodoInv'
  BY <1>1, <1>2, <1>3 DEF Adding!TodoInv, Adding!Refuses
<1> QED BY <1>4, <1>6, <1>7, <1>8 DEF Adding!IInv

(* The embedder answers, or not.                                           *)
LEMMA EmbedsOrNot == ASSUME Adding!IInv, Adding!EmbedFails \/ Adding!EmbedsTooFew \/ Adding!Embeds PROVE Adding!IInv'
<1>1. UNCHANGED <<store, dedup, limited, given, docs, call, todo, rows>> /\ pc = "embed"
  BY DEF Adding!EmbedFails, Adding!EmbedsTooFew, Adding!Embeds
<1>2. /\ ids' = <<>> /\ pc' \in {"write", "done"} /\ outcome' \in {"none", "error", "panic"}
      /\ pc' # "done" <=> outcome' = "none"
  BY <1>1 DEF Adding!EmbedFails, Adding!EmbedsTooFew, Adding!Embeds, Adding!Ends, Adding!IInv, Adding!TodoInv
<1>3. Adding!RowsInv' /\ rows' \subseteq [id : Nat \X Nat, doc : Adding!Positions', call : 1..MaxTries,
                                   column : BOOLEAN]
  BY <1>1, RowsStay
<1>4. Len(docs) = Len(given) /\ Len(given) \in Nat /\ <<>> \in Seq(Nat \X Nat) /\ Len(<<>>) = 0
  BY PositionsAre DEF Adding!IInv, Adding!TypeOK
<1>5. Adding!TypeOK'
  BY <1>1, <1>2, <1>3, <1>4 DEF Adding!IInv, Adding!TypeOK, Adding!Positions
<1>6. Adding!GivenInv'
  BY <1>1 DEF Adding!IInv, Adding!GivenInv, Adding!Positions
<1>7. Adding!TodoInv'
  BY <1>1, <1>2 DEF Adding!IInv, Adding!TodoInv, Adding!Refuses
<1> QED BY <1>3, <1>5, <1>6, <1>7 DEF Adding!IInv

(* The documents are written, or some of them.                             *)
LEMMA WritesThem == ASSUME Adding!IInv, Adding!Write PROVE Adding!IInv'
<1>1. /\ UNCHANGED <<store, dedup, limited, given, call, todo>> /\ pc = "write" /\ pc' = "done"
      /\ docs' = Adding!MetadataAfter
  BY DEF Adding!Write, Adding!Ends
<1>2. PICK w \in Adding!Writes :
         /\ rows' = {row \in rows : \A k \in w.kept : row.id # Adding!IdOf(k)} \cup Adding!Kept(w.kept)
         /\ outcome' = w.how
         /\ ids' = [k \in DOMAIN w.named |-> Adding!IdOf(w.named[k])]
  BY DEF Adding!Write, Adding!Ends
<1>3. /\ w.kept \subseteq 1..Len(todo) /\ w.how \in {"ok", "error"}
      /\ \E m \in 0..Len(todo) : w.named = [k \in 1..m |-> k]
  BY WritesAre DEF Adding!IInv
<1>4. /\ rows' \subseteq Row
      /\ \A row \in rows' : row \in rows \/ \E k \in w.kept : row = Adding!RowOf(k)
      /\ \A one, other \in rows' : one.id = other.id => one = other
      /\ \A row \in rows : row.call < call
  BY <1>1, <1>2, <1>3, RowsAre
<1>5. /\ Len(given) \in Nat /\ Adding!Positions = 1..Len(given) /\ DOMAIN docs = Adding!Positions
      /\ Len(docs) = Len(given) /\ call \in 1..MaxTries
      /\ \A k \in 1..Len(todo) : todo[k] \in Adding!Positions
      /\ Len(todo) \in Nat /\ Len(todo) <= Len(given)
      /\ \A k \in Adding!Positions : docs[k] \in Adding!Doc
  BY PositionsAre DEF Adding!IInv, Adding!TypeOK, Adding!TodoInv
<1>6. docs' \in Seq(Adding!Doc) /\ Len(docs') = Len(given)
      /\ \A k \in Adding!Positions : docs'[k].own = docs[k].own /\ docs'[k].known = docs[k].known
  <2>1. CASE store = "cloudsql"
    <3>1. docs' = [k \in 1..Len(given) |-> [docs[k] EXCEPT !.column = FALSE]]
      BY <1>1, <1>5, <2>1 DEF Adding!MetadataAfter
    <3>2. \A k \in Adding!Positions : docs'[k] \in Adding!Doc /\ docs'[k].own = docs[k].own
                                 /\ docs'[k].known = docs[k].known
      BY <1>5, <3>1 DEF Adding!Doc
    <3>3. docs' \in [1..Len(given) -> Adding!Doc]
      BY <1>5, <3>1, <3>2
    <3> QED BY <1>5, <3>2, <3>3, LenProperties
  <2>2. CASE store # "cloudsql"
    BY <1>1, <1>5, <2>2 DEF Adding!MetadataAfter, Adding!IInv, Adding!TypeOK
  <2> QED BY <2>1, <2>2
<1>7. ids' \in Seq(Nat \X Nat) /\ Len(ids') <= Len(given)
  <2>1. PICK m \in 0..Len(todo) : w.named = [k \in 1..m |-> k]
    BY <1>3
  <2>2. m \in Nat /\ m <= Len(given) /\ ids' = [k \in 1..m |-> Adding!IdOf(k)]
    BY <1>2, <1>5, <2>1
  <2>3. \A k \in 1..m : Adding!IdOf(k) \in Nat \X Nat
    BY <1>5, <2>1, IdsAre DEF Adding!IInv
  <2>4. ids' \in [1..m -> Nat \X Nat]
    BY <2>2, <2>3
  <2> QED BY <2>2, <2>4, LenProperties
<1>8. Adding!TypeOK'
  BY <1>1, <1>2, <1>3, <1>4, <1>5, <1>6, <1>7 DEF Adding!IInv, Adding!TypeOK, Adding!Positions, Row
<1>9. Adding!GivenInv'
  BY <1>1, <1>5, <1>6 DEF Adding!IInv, Adding!GivenInv, Adding!Positions, Adding!MetadataAfter
<1>10. Adding!TodoInv'
  BY <1>1, <1>2, <1>3 DEF Adding!IInv, Adding!TodoInv, Adding!Refuses
<1>11. Adding!RowsInv'
  <2>1. ~Adding!Refuses /\ ~Adding!Refuses'
    BY <1>1 DEF Adding!IInv, Adding!TodoInv, Adding!Refuses
  <2>2. ASSUME NEW row \in rows'
        PROVE  /\ row.call <= call
               /\ IF Adding!TakesOwnIds /\ given[row.doc].own THEN row.id = <<0, 0>>
                  ELSE row.id[1] = row.call
    <3>1. CASE row \in rows
      BY <1>4, <1>5, <3>1 DEF Adding!IInv, Adding!RowsInv, Adding!TypeOK
    <3>2. ASSUME NEW k \in w.kept, row = Adding!RowOf(k)
          PROVE  /\ row.call <= call
                 /\ IF Adding!TakesOwnIds /\ given[row.doc].own THEN row.id = <<0, 0>>
                    ELSE row.id[1] = row.call
      <4>1. row.call = call /\ row.doc = todo[k] /\ row.id = Adding!IdOf(k)
        BY <3>2 DEF Adding!RowOf
      <4>2. IF Adding!TakesOwnIds /\ docs[todo[k]].own THEN Adding!IdOf(k) = <<0, 0>>
            ELSE Adding!IdOf(k) = <<call, k>>
        BY <1>3, IdsAre DEF Adding!IInv
      <4>3. docs[todo[k]].own = given[todo[k]].own
        BY <1>3, <1>5 DEF Adding!IInv, Adding!GivenInv
      <4> QED BY <1>5, <4>1, <4>2, <4>3
    <3> QED BY <1>4, <3>1, <3>2
  <2> QED BY <1>1, <1>4, <2>1, <2>2 DEF Adding!RowsInv, Adding!TakesOwnIds
<1> QED BY <1>8, <1>9, <1>10, <1>11 DEF Adding!IInv

(* The caller calls again.                                                 *)
LEMMA CallsAgain == ASSUME MaxTries \in Nat, Adding!IInv, Adding!CallAgain PROVE Adding!IInv'
<1>1. /\ UNCHANGED <<store, dedup, limited, given, docs, rows>>
      /\ pc = "done" /\ pc' = "begin" /\ call < MaxTries /\ call' = call + 1
      /\ todo' = <<>> /\ ids' = <<>> /\ outcome' = "none"
  BY DEF Adding!CallAgain
<1>2. /\ <<>> \in Seq(Adding!Positions) /\ <<>> \in Seq(Nat \X Nat) /\ Len(<<>>) = 0 /\ DOMAIN <<>> = {}
      /\ Len(given) \in Nat /\ Len(docs) = Len(given)
  BY PositionsAre DEF Adding!IInv, Adding!TypeOK
<1>3. call' \in 1..MaxTries /\ call \in Nat
  BY <1>1 DEF Adding!IInv, Adding!TypeOK
<1>4. Adding!TypeOK'
  BY <1>1, <1>2, <1>3 DEF Adding!IInv, Adding!TypeOK, Adding!Positions
<1>5. Adding!GivenInv'
  BY <1>1, <1>3 DEF Adding!IInv, Adding!TypeOK, Adding!GivenInv, Adding!Positions
<1>6. Adding!TodoInv'
  BY <1>1, <1>2 DEF Adding!IInv, Adding!TodoInv, Adding!Refuses
<1>7. \A row \in rows : row.call \in Nat
  BY DEF Adding!IInv, Adding!TypeOK
<1>8. Adding!RowsInv'
  BY <1>1, <1>3, <1>7 DEF Adding!IInv, Adding!RowsInv, Adding!Refuses, Adding!TakesOwnIds
<1> QED BY <1>4, <1>5, <1>6, <1>8 DEF Adding!IInv

(* Each step keeps the invariant.                                          *)
LEMMA AddSteps == ASSUME MaxTries \in Nat, Adding!IInv, [Adding!Next]_(Adding!vars) PROVE Adding!IInv'
<1>1. CASE UNCHANGED Adding!vars
  BY <1>1 DEF Adding!vars, Adding!IInv, Adding!TypeOK, Adding!GivenInv, Adding!TodoInv, Adding!RowsInv, Adding!Refuses, Adding!TakesOwnIds, Adding!Positions
<1> QED BY <1>1, BeginsToAdd, EmbedsOrNot, WritesThem, CallsAgain DEF Adding!Next

(* A document that brings its id is kept once.                             *)
LEMMA OwnOnce == ASSUME Adding!IInv PROVE Adding!OwnIdsOnce
<1> SUFFICES ASSUME Adding!TakesOwnIds
             PROVE  Cardinality({row \in rows : given[row.doc].own}) <= 1
  BY AddCounts DEF Adding!OwnIdsOnce, Adding!TakesOwnIds
<1> DEFINE own == {row \in rows : given[row.doc].own}
<1>1. \A one, other \in own : one = other
  <2>1. \A row \in own : row.id = <<0, 0>>
    BY DEF Adding!IInv, Adding!RowsInv
  <2> QED BY <2>1 DEF Adding!IInv, Adding!RowsInv
<1> HIDE DEF own
<1>2. CASE own = {}
  BY <1>2, FS_EmptySet DEF own
<1>3. CASE own # {}
  <2>1. PICK row \in own : own = {row}
    BY <1>1, <1>3
  <2>2. Cardinality(own) = 1
    BY <2>1, FS_Singleton
  <2> QED BY <2>2 DEF own
<1> QED BY <1>2, <1>3

(* Before a write the rows are of earlier calls.                           *)
LEMMA NoneAdded ==
    ASSUME Adding!IInv, pc # "done", UNCHANGED <<rows, call>>
    PROVE  {r \in rows' : r.call = call'} = {}
<1>1. \A row \in rows : row.call < call /\ row.call \in Nat /\ call \in Nat
  BY DEF Adding!IInv, Adding!RowsInv, Adding!TypeOK
<1> QED BY <1>1

\* What AddDocuments promises of the ids it returns.
ToldIds == Adding!IdsNameAdded /\ Adding!SuccessIsComplete /\ Adding!IdsOfErrorAreAdded /\ Adding!AllOrNothing

(* A call that ends before it writes tells of no document.                 *)
LEMMA EndsUnwritten ==
    ASSUME Adding!IInv, pc # "done", UNCHANGED <<store, given, call, rows>>,
           outcome' # "ok" \/ store = "weaviate", pc' = "done" => ids' = <<>>
    PROVE  ToldIds'
<1>1. {r \in rows' : r.call = call'} = {}
  BY NoneAdded
<1>2. Adding!IdsNameAdded' /\ Adding!SuccessIsComplete' /\ Adding!IdsOfErrorAreAdded'
  BY DEF Adding!IdsNameAdded, Adding!SuccessIsComplete, Adding!IdsOfErrorAreAdded, Adding!Done, Adding!Unchecked
<1>3. {row.doc : row \in {r \in rows' : r.call = call'}} = {}
  BY <1>1
<1>4. Adding!AllOrNothing'
  BY <1>3 DEF Adding!AllOrNothing
<1> QED BY <1>2, <1>4 DEF ToldIds

(* A call that writes returns ids of what is there.                        *)
LEMMA WritesAreTold == ASSUME Adding!IInv, Adding!Write PROVE ToldIds'
<1> DEFINE n == Len(todo)
<1>1. /\ UNCHANGED <<store, dedup, limited, given, call, todo>> /\ pc = "write" /\ pc' = "done"
  BY DEF Adding!Write, Adding!Ends
<1>2. PICK w \in Adding!Writes :
         /\ rows' = {row \in rows : \A k \in w.kept : row.id # Adding!IdOf(k)} \cup Adding!Kept(w.kept)
         /\ outcome' = w.how
         /\ ids' = [k \in DOMAIN w.named |-> Adding!IdOf(w.named[k])]
  BY DEF Adding!Write, Adding!Ends
<1>3. /\ w.kept \subseteq 1..n /\ w.how \in {"ok", "error"}
      /\ \E m \in 0..n : w.named = [k \in 1..m |-> k]
      /\ w.how = "ok" /\ store \notin Adding!Unchecked => w.kept = 1..n
      /\ w.how = "ok" /\ store # "milvus" => w.named = [k \in 1..n |-> k]
      /\ store = "milvus" => w.named = <<>>
      /\ w.how = "error" /\ store \notin {"pgvector", "opensearch"} =>
            \A k \in DOMAIN w.named : k \in w.kept
      /\ w.how = "error" /\ Adding!TakesOwnIds => w.named = <<>>
      /\ store \in {"alloydb", "cloudsql", "pgvector", "chroma", "pinecone", "qdrant",
                    "milvus"} => w.kept \in {{}, 1..n}
      /\ store \in {"alloydb", "cloudsql"} => w.kept = {} \/ ~Adding!Conflict
  BY WritesAre DEF Adding!IInv
<1>4. /\ \A row \in rows' : row \in rows \/ \E k \in w.kept : row = Adding!RowOf(k)
      /\ \A k \in w.kept : \E row \in rows' : row.id = Adding!IdOf(k)
      /\ \A k \in w.kept : (\A l \in w.kept : Adding!IdOf(l) = Adding!IdOf(k) => l <= k) => Adding!RowOf(k) \in rows'
      /\ \A row \in rows : row.call < call
      /\ w.kept = {} => rows' = rows
  BY <1>1, <1>2, <1>3, RowsAre
<1>5. /\ n \in Nat /\ DOMAIN todo = 1..n
      /\ \A k \in 1..n : given[todo[k]].own = docs[todo[k]].own
      /\ \A k \in 1..n : Adding!RowOf(k).id = Adding!IdOf(k) /\ Adding!RowOf(k).doc = todo[k] /\ Adding!RowOf(k).call = call
  BY PositionsAre DEF Adding!IInv, Adding!GivenInv, Adding!RowOf
<1>6. ASSUME NEW k \in w.kept, NEW l \in w.kept, Adding!IdOf(l) = Adding!IdOf(k), l # k
      PROVE  store = "redis" /\ given[todo[k]].own
  <2>1. Adding!TakesOwnIds /\ docs[todo[k]].own
    BY <1>3, <1>6, IdsDiffer DEF Adding!IInv
  <2>2. Adding!Conflict
    BY <1>3, <1>6 DEF Adding!Conflict, Adding!All
  <2>3. store \notin {"alloydb", "cloudsql"}
    <3>1. w.kept # {}
      BY <1>6
    <3> QED BY <1>3, <2>2, <3>1
  <2>4. k \in 1..n
    BY <1>3
  <2> QED BY <1>5, <2>1, <2>3, <2>4 DEF Adding!TakesOwnIds
<1>7. ASSUME NEW k \in w.kept, store # "redis" \/ ~given[todo[k]].own
      PROVE  Adding!RowOf(k) \in rows'
  <2>1. ASSUME NEW l \in w.kept, Adding!IdOf(l) = Adding!IdOf(k) PROVE l <= k
    <3>1. l = k
      BY <1>6, <1>7, <2>1
    <3>2. k \in 1..n
      BY <1>3
    <3> QED BY <3>1, <3>2
  <2> QED BY <1>4, <2>1
<1>8. Adding!IdsNameAdded'
  <2> SUFFICES ASSUME w.how = "ok", store \notin Adding!Unchecked \cup {"milvus"}
               PROVE  /\ Len(ids') = Len(todo')
                      /\ \A k \in DOMAIN ids' :
                            \/ Adding!Names(ids[k], todo[k])'
                            \/ \E j \in DOMAIN ids' : j > k /\ ids'[j] = ids'[k] /\ store' = "redis"
    BY <1>1, <1>2 DEF Adding!IdsNameAdded, Adding!Done, Adding!Unchecked
  <2>1. w.kept = 1..n /\ ids' = [k \in 1..n |-> Adding!IdOf(k)]
    BY <1>2, <1>3
  <2>2. Len(ids') = n /\ DOMAIN ids' = 1..n
    BY <1>5, <2>1
  <2>3. ASSUME NEW k \in 1..n
        PROVE  \/ Adding!Names(ids[k], todo[k])'
               \/ \E j \in 1..n : j > k /\ ids'[j] = ids'[k] /\ store = "redis"
    <3>1. CASE \A l \in w.kept : Adding!IdOf(l) = Adding!IdOf(k) => l <= k
      <4>1. Adding!RowOf(k) \in rows' /\ Adding!RowOf(k).id = ids'[k] /\ Adding!RowOf(k).doc = todo'[k]
        BY <1>1, <1>4, <1>5, <2>1, <3>1
      <4> QED BY <4>1 DEF Adding!Names
    <3>2. ASSUME NEW l \in w.kept, Adding!IdOf(l) = Adding!IdOf(k), ~(l <= k)
          PROVE  l \in 1..n /\ l > k /\ ids'[l] = ids'[k] /\ store = "redis"
      <4>1. l \in Nat /\ k \in Nat /\ l # k
        BY <1>5, <2>1, <3>2
      <4> QED BY <1>6, <2>1, <3>2, <4>1
    <3> QED BY <3>1, <3>2
  <2> QED BY <1>1, <2>2, <2>3
<1>9. Adding!SuccessIsComplete'
  <2> SUFFICES ASSUME w.how = "ok", store \notin Adding!Unchecked
               PROVE  /\ \A k \in DOMAIN todo' :
                            \/ \E row \in rows' : row.doc = todo'[k] /\ row.call = call'
                            \/ store' = "redis" /\ given'[todo'[k]].own
                      /\ store' # "milvus" =>
                            \A k \in DOMAIN ids' : ids'[k] \in {row.id : row \in rows'}
    BY <1>1, <1>2 DEF Adding!SuccessIsComplete, Adding!Done, Adding!Unchecked
  <2>1. w.kept = 1..n /\ (store # "milvus" => ids' = [k \in 1..n |-> Adding!IdOf(k)])
    BY <1>2, <1>3
  <2>2. \A k \in DOMAIN todo' :
           \/ \E row \in rows' : row.doc = todo'[k] /\ row.call = call'
           \/ store' = "redis" /\ given'[todo'[k]].own
    BY <1>1, <1>5, <1>7, <2>1
  <2>3. store' # "milvus" => \A k \in DOMAIN ids' : ids'[k] \in {row.id : row \in rows'}
    BY <1>1, <1>4, <2>1
  <2> QED BY <2>2, <2>3
<1>10. Adding!IdsOfErrorAreAdded'
  <2> SUFFICES ASSUME w.how = "error", store \notin {"pgvector", "opensearch"},
                      NEW k \in DOMAIN ids'
               PROVE  Adding!Names(ids[k], todo[k])'
    BY <1>1, <1>2 DEF Adding!IdsOfErrorAreAdded, Adding!Done
  <2>1. PICK m \in 0..n : w.named = [j \in 1..m |-> j]
    BY <1>3
  <2>2. k \in w.kept /\ ids'[k] = Adding!IdOf(k) /\ ~Adding!TakesOwnIds
    <3>1. k \in DOMAIN w.named
      BY <1>2
    <3>2. k \in w.kept /\ ids'[k] = Adding!IdOf(k)
      BY <1>2, <1>3, <2>1, <3>1
    <3>3. w.named # <<>>
      BY <3>1
    <3> QED BY <1>3, <3>2, <3>3
  <2>3. Adding!RowOf(k) \in rows' /\ Adding!RowOf(k).id = ids'[k] /\ Adding!RowOf(k).doc = todo'[k]
    BY <1>1, <1>3, <1>5, <1>7, <2>2 DEF Adding!TakesOwnIds
  <2> QED BY <2>3 DEF Adding!Names
<1>11. Adding!AllOrNothing'
  <2> DEFINE added == {row.doc : row \in {r \in rows' : r.call = call'}}
  <2> SUFFICES ASSUME store \in {"alloydb", "cloudsql", "pgvector", "chroma", "pinecone",
                                 "qdrant", "milvus"}
               PROVE  added = {} \/ added = Adding!Range(todo')
    BY <1>1 DEF Adding!AllOrNothing
  <2>1. \A row \in rows : row.call # call
    BY <1>4 DEF Adding!IInv, Adding!TypeOK
  <2>2. CASE w.kept = {}
    BY <1>1, <1>4, <2>1, <2>2
  <2>3. CASE w.kept = 1..n
    <3>1. \A k \in 1..n : Adding!RowOf(k) \in rows'
      BY <1>7, <2>3
    <3>2. \A k \in 1..n : todo[k] \in added
      BY <1>1, <1>5, <3>1
    <3>3. \A d \in added : \E k \in 1..n : d = todo[k]
      BY <1>1, <1>4, <1>5, <2>1, <2>3
    <3>4. Adding!Range(todo') = {todo[k] : k \in 1..n}
      BY <1>1, <1>5 DEF Adding!Range
    <3> QED BY <3>2, <3>3, <3>4
  <2> QED BY <1>3, <2>2, <2>3
<1> QED BY <1>8, <1>9, <1>10, <1>11 DEF ToldIds

(* Each step keeps what is told.                                           *)
LEMMA ToldSteps == ASSUME Adding!IInv, ToldIds, [Adding!Next]_(Adding!vars) PROVE ToldIds'
<1>1. CASE Adding!Begin
  <2>1. /\ pc # "done" /\ UNCHANGED <<store, given, call, rows>>
        /\ outcome' # "ok" \/ store = "weaviate"
        /\ pc' = "done" => ids' = <<>>
    BY <1>1 DEF Adding!Begin, Adding!Ends, Adding!IInv, Adding!TodoInv
  <2> QED BY <2>1, EndsUnwritten
<1>2. CASE Adding!EmbedFails \/ Adding!EmbedsTooFew \/ Adding!Embeds
  <2>1. /\ pc # "done" /\ UNCHANGED <<store, given, call, rows>>
        /\ outcome' # "ok" /\ (pc' = "done" => ids' = <<>>)
    BY <1>2 DEF Adding!EmbedFails, Adding!EmbedsTooFew, Adding!Embeds, Adding!Ends, Adding!IInv, Adding!TodoInv
  <2> QED BY <2>1, EndsUnwritten
<1>3. CASE Adding!Write
  BY <1>3, WritesAreTold
<1>4. CASE Adding!CallAgain
  BY <1>4 DEF Adding!CallAgain, ToldIds, Adding!IdsNameAdded, Adding!SuccessIsComplete, Adding!IdsOfErrorAreAdded,
              Adding!AllOrNothing, Adding!Done
<1>5. CASE UNCHANGED Adding!vars
  BY <1>5 DEF Adding!vars, ToldIds, Adding!IdsNameAdded, Adding!SuccessIsComplete, Adding!IdsOfErrorAreAdded, Adding!AllOrNothing,
              Adding!Done, Adding!Names, Adding!Unchecked
<1> QED BY <1>1, <1>2, <1>3, <1>4, <1>5 DEF Adding!Next

\* What AddDocuments promises of the rows.
KeptRows == Adding!RowsAreGiven /\ Adding!KnownKeptOut /\ Adding!PanicsKnown

(* Each step keeps what is promised of the rows.                           *)
LEMMA KeptSteps == ASSUME Adding!IInv, KeptRows, [Adding!Next]_(Adding!vars) PROVE KeptRows'
<1>1. UNCHANGED <<store, given, dedup, limited>>
  BY DEF Adding!Next, Adding!vars, Adding!Begin, Adding!EmbedFails, Adding!EmbedsTooFew, Adding!Embeds, Adding!Write, Adding!CallAgain
<1>2. CASE Adding!Write
  <2>1. /\ UNCHANGED <<call, todo>> /\ pc = "write" /\ outcome' \in {"ok", "error"}
        /\ \A row \in rows' : row \in rows \/ \E k \in 1..Len(todo) : row = Adding!RowOf(k)
    <3>1. PICK w \in Adding!Writes :
         /\ rows' = {row \in rows : \A k \in w.kept : row.id # Adding!IdOf(k)} \cup Adding!Kept(w.kept)
         /\ outcome' = w.how
      BY <1>2 DEF Adding!Write, Adding!Ends
    <3>2. w.kept \subseteq 1..Len(todo) /\ w.how \in {"ok", "error"}
      BY WritesAre DEF Adding!IInv
    <3>3. \A row \in rows' : row \in rows \/ \E k \in w.kept : row = Adding!RowOf(k)
      BY <1>2, <3>1, <3>2, RowsAre DEF Adding!Write
    <3> QED BY <1>2, <3>1, <3>2, <3>3 DEF Adding!Write, Adding!Ends
  <2>2. \A k \in 1..Len(todo) : /\ todo[k] \in Adding!Positions /\ Adding!RowOf(k).doc = todo[k]
                                /\ Adding!RowOf(k).column = docs[todo[k]].column
                                /\ Adding!RowOf(k).call = call
    BY PositionsAre DEF Adding!IInv, Adding!RowOf
  <2>3. call \in Nat /\ call >= 1
    BY DEF Adding!IInv, Adding!TypeOK
  <2>4. docs = given \/ (store = "cloudsql" /\ call > 1)
    BY <2>1 DEF Adding!IInv, Adding!GivenInv
  <2>5. Adding!RowsAreGiven'
    BY <1>1, <2>1, <2>2, <2>3, <2>4 DEF Adding!RowsAreGiven, KeptRows
  <2>6. Adding!KnownKeptOut'
    <3> SUFFICES ASSUME dedup, store \in {"pgvector", "weaviate", "mongovector"},
                        NEW row \in rows'
                 PROVE  ~given[row.doc].known
      BY <1>1 DEF Adding!KnownKeptOut
    <3>1. store # "mongovector"
      BY <2>1 DEF Adding!IInv, Adding!TodoInv, Adding!Refuses
    <3>2. \A k \in 1..Len(todo) : ~given[todo[k]].known
      BY <3>1, PositionsAre DEF Adding!IInv, Adding!TodoInv
    <3>3. CASE row \in rows
      BY <3>3 DEF Adding!KnownKeptOut, KeptRows
    <3> QED BY <2>1, <2>2, <3>2, <3>3
  <2>7. Adding!PanicsKnown'
    BY <2>1 DEF Adding!PanicsKnown, Adding!Done
  <2> QED BY <2>5, <2>6, <2>7 DEF KeptRows
<1>3. ASSUME ~Adding!Write PROVE KeptRows'
  <2>1. rows' = rows
    BY <1>3 DEF Adding!Next, Adding!vars, Adding!Begin, Adding!EmbedFails, Adding!EmbedsTooFew, Adding!Embeds, Adding!CallAgain
  <2>2. Adding!RowsAreGiven' /\ Adding!KnownKeptOut'
    BY <1>1, <2>1 DEF Adding!RowsAreGiven, Adding!KnownKeptOut, KeptRows
  <2>3. Adding!PanicsKnown'
    <3>1. CASE Adding!Begin \/ Adding!EmbedFails \/ Adding!CallAgain
      BY <3>1 DEF Adding!Begin, Adding!EmbedFails, Adding!CallAgain, Adding!Ends, Adding!PanicsKnown, Adding!Done, Adding!IInv, Adding!TodoInv
    <3>2. CASE Adding!EmbedsTooFew
      <4>1. given # <<>>
        <5>1. pc = "embed" /\ todo # <<>>
          BY <3>2 DEF Adding!EmbedsTooFew
        <5>2. Len(todo) # 0
          BY <5>1, EmptySeq DEF Adding!IInv, Adding!TypeOK
        <5>3. Len(given) # 0
          BY <5>2, PositionsAre DEF Adding!IInv, Adding!TodoInv
        <5> QED BY <5>3, EmptySeq
      <4> QED BY <1>1, <3>2, <4>1 DEF Adding!EmbedsTooFew, Adding!Ends, Adding!PanicsKnown, Adding!Done, Adding!Uncounted
    <3>3. CASE Adding!Embeds
      <4>1. CASE todo = <<>> /\ store \in {"milvus", "redis"}
        <5>1. Len(todo) = Len(given) /\ Len(todo) = 0
          BY <3>3, <4>1, EmptySeq DEF Adding!Embeds, Adding!IInv, Adding!TodoInv
        <5>2. given = <<>>
          BY <5>1, EmptySeq DEF Adding!IInv, Adding!TypeOK
        <5> QED BY <1>1, <4>1, <5>2 DEF Adding!PanicsKnown
      <4>2. CASE ~(todo = <<>> /\ store \in {"milvus", "redis"})
        BY <3>3, <4>2 DEF Adding!Embeds, Adding!PanicsKnown, Adding!Done
      <4> QED BY <4>1, <4>2
    <3>4. CASE UNCHANGED Adding!vars
      BY <3>4 DEF Adding!vars, Adding!PanicsKnown, Adding!Done, KeptRows
    <3> QED BY <1>3, <3>1, <3>2, <3>3, <3>4 DEF Adding!Next
  <2> QED BY <2>2, <2>3 DEF KeptRows
<1> QED BY <1>2, <1>3

(* At the start nothing is told and nothing kept.                          *)
LEMMA ToldInit == ASSUME Adding!Init PROVE ToldIds /\ KeptRows
<1>1. pc = "begin" /\ rows = {}
  BY DEF Adding!Init
<1> QED BY <1>1 DEF ToldIds, Adding!IdsNameAdded, Adding!SuccessIsComplete, Adding!IdsOfErrorAreAdded, Adding!AllOrNothing,
                    KeptRows, Adding!RowsAreGiven, Adding!KnownKeptOut, Adding!PanicsKnown, Adding!Done

(* Sets are counted the same wherever that is instantiated.                *)
LEMMA SearchCounts == \A S : Searching!Cardinality(S) = Cardinality(S)
BY DEF Searching!Cardinality, Cardinality

\* The first of a list.
FirstOf(s, p) == {s[q] : q \in 1..p}

(* The first of a list of different things are as many as their places.    *)
LEMMA FirstAre ==
    ASSUME NEW c \in Nat, NEW S, NEW s \in [1..c -> S],
           \A i, j \in 1..c : i # j => s[i] # s[j], NEW p \in 0..c
    PROVE  IsFiniteSet(FirstOf(s, p)) /\ Cardinality(FirstOf(s, p)) = p
<1> DEFINE T == FirstOf(s, p)
           f == [q \in 1..p |-> s[q]]
<1>1. \A q \in 1..p : q \in 1..c
  OBVIOUS
<1>2. f \in [1..p -> T] /\ \A q \in 1..p : f[q] = s[q]
  BY DEF FirstOf
<1>3. \A e \in T : \E q \in 1..p : f[q] = e
  BY DEF FirstOf
<1>4. \A q, r \in 1..p : q # r => f[q] # f[r]
  BY <1>1
<1>5. f \in Bijection(1..p, T)
  <2> DEFINE d == 1..p
  <2> HIDE DEF f, T, d
  <2>1. f \in Injection(d, T)
    BY <1>2, <1>4 DEF d, Injection, IsInjective
  <2>2. f \in Surjection(d, T)
    BY <1>2, <1>3 DEF d, Surjection
  <2>3. f \in Bijection(d, T)
    BY <2>1, <2>2 DEF Bijection
  <2> QED BY <2>3 DEF d
<1>6. ExistsBijection(1..p, T)
  BY <1>5 DEF ExistsBijection
<1>7. IsFiniteSet(1..p) /\ Cardinality(1..p) = p
  BY FS_Interval
<1> HIDE DEF T
<1>8. IsFiniteSet(T) /\ Cardinality(T) = Cardinality(1..p)
  BY <1>6, <1>7, FS_Bijection
<1> QED BY <1>7, <1>8 DEF T

(* A set of positions, listed in their order.                              *)
LEMMA RankedIs ==
    ASSUME NEW n \in Nat, NEW S \in SUBSET (1..n)
    PROVE  /\ Searching!InOrder(S) \in Seq(S) /\ Len(Searching!InOrder(S)) = Cardinality(S)
           /\ Cardinality(S) \in Nat /\ IsFiniteSet(S)
           /\ Searching!Range(Searching!InOrder(S)) = S
           /\ \A i, j \in 1..Cardinality(S) :
                 i < j => Searching!InOrder(S)[i] < Searching!InOrder(S)[j]
<1> DEFINE s == Searching!InOrder(S)
           c == Cardinality(S)
<1>1. s \in [1..c -> S] /\ \A i, j \in DOMAIN s : i < j => s[i] < s[j]
  <2>1. s = CHOOSE f \in [1..Searching!Cardinality(S) -> S] :
                \A i, j \in DOMAIN f : i < j => f[i] < f[j]
    BY DEF Searching!InOrder
  <2>2. s = CHOOSE f \in [1..Cardinality(S) -> S] :
                \A i, j \in DOMAIN f : i < j => f[i] < f[j]
    BY <2>1, SearchCounts
  <2> QED BY <2>2, OrderExists
<1>2. c \in Nat /\ c <= n
  BY OrderExists
<1>3. IsFiniteSet(S)
  <2>1. IsFiniteSet(1..n)
    BY FS_Interval
  <2> QED BY <2>1, FS_Subset
<1> HIDE DEF s, c
<1>4. s \in Seq(S) /\ DOMAIN s = 1..c
  BY <1>1, <1>2
<1>5. Len(s) = c
  BY <1>1, <1>2, <1>4, LenProperties
<1>6. \A i, j \in 1..c : i # j => s[i] # s[j]
  <2> SUFFICES ASSUME NEW i \in 1..c, NEW j \in 1..c, i # j PROVE s[i] # s[j]
    OBVIOUS
  <2>1. s[i] \in S /\ s[j] \in S /\ i \in Nat /\ j \in Nat
    BY <1>1, <1>2
  <2>2. \A e \in S : e \in Nat
    OBVIOUS
  <2>3. s[i] \in Nat /\ s[j] \in Nat
    BY <2>1, <2>2
  <2>4. i < j \/ j < i
    BY <2>1
  <2> QED BY <1>1, <1>4, <2>3, <2>4
<1>7. FirstOf(s, c) = S
  <2>1. c \in 0..c
    BY <1>2
  <2>2. Cardinality(FirstOf(s, c)) = c
    BY <1>1, <1>2, <1>6, <2>1, FirstAre
  <2>3. FirstOf(s, c) \in SUBSET S
    BY <1>1 DEF FirstOf
  <2> QED BY <1>3, <2>2, <2>3, FS_Subset DEF c
<1>8. Searching!Range(s) = S
  BY <1>4, <1>7 DEF Searching!Range, FirstOf
<1> QED BY <1>1, <1>2, <1>3, <1>4, <1>5, <1>8 DEF s, c

(* The first of a set of positions: no more than asked for, all where there is
   room, and those before the others.                                         *)
LEMMA CutIs ==
    ASSUME NEW n \in Nat, NEW S \in SUBSET (1..n), NEW m \in Nat
    PROVE  /\ Searching!Atmost(m, S) \in SUBSET S /\ IsFiniteSet(Searching!Atmost(m, S))
           /\ Cardinality(S) \in Nat
           /\ Cardinality(Searching!Atmost(m, S)) = IF m < Cardinality(S) THEN m ELSE Cardinality(S)
           /\ \A i \in S \ Searching!Atmost(m, S), j \in Searching!Atmost(m, S) :
                 j < i /\ m < Cardinality(S)
           /\ m >= Cardinality(S) => Searching!Atmost(m, S) = S
<1> DEFINE s == Searching!InOrder(S)
           c == Cardinality(S)
           A == Searching!Atmost(m, S)
           l == IF m < c THEN m ELSE c
<1>1. /\ s \in Seq(S) /\ Len(s) = c /\ c \in Nat /\ IsFiniteSet(S)
      /\ Searching!Range(s) = S
      /\ \A i, j \in 1..c : i < j => s[i] < s[j]
  BY RankedIs
<1>2. A = {i \in S : Cardinality({j \in S : j <= i}) <= m}
  BY SearchCounts DEF Searching!Atmost
<1> HIDE DEF s, c, A
<1>3. s \in [1..c -> S] /\ \A e \in S : \E q \in 1..c : s[q] = e
  BY <1>1, LenProperties DEF Searching!Range
<1>4. \A i \in 1..c : s[i] \in Nat /\ s[i] \in S
  <2>1. \A e \in S : e \in Nat
    OBVIOUS
  <2> QED BY <1>3, <2>1
<1>5. \A i, j \in 1..c : s[i] <= s[j] <=> i <= j
  <2> SUFFICES ASSUME NEW i \in 1..c, NEW j \in 1..c PROVE s[i] <= s[j] <=> i <= j
    OBVIOUS
  <2>1. s[i] \in Nat /\ s[j] \in Nat /\ i \in Nat /\ j \in Nat
    BY <1>1, <1>4
  <2>2. i < j => s[i] < s[j]
    BY <1>1
  <2>3. j < i => s[j] < s[i]
    BY <1>1
  <2> QED BY <2>1, <2>2, <2>3
<1>6. ASSUME NEW p \in 1..c PROVE Cardinality({j \in S : j <= s[p]}) = p
  <2>1. {j \in S : j <= s[p]} = FirstOf(s, p)
    <3>1. ASSUME NEW j \in S, j <= s[p] PROVE j \in FirstOf(s, p)
      <4>1. PICK q \in 1..c : s[q] = j
        BY <1>3
      <4>2. q <= p
        BY <1>5, <3>1, <4>1
      <4>3. q \in 1..p
        BY <1>1, <4>2
      <4> QED BY <4>1, <4>3 DEF FirstOf
    <3>2. ASSUME NEW q \in 1..p PROVE s[q] \in S /\ s[q] <= s[p]
      <4>1. q \in 1..c /\ q <= p
        BY <1>1
      <4> QED BY <1>4, <1>5, <4>1
    <3> QED BY <3>1, <3>2 DEF FirstOf
  <2>2. p \in 0..c
    BY <1>1
  <2>3. \A i, j \in 1..c : i # j => s[i] # s[j]
    <3> SUFFICES ASSUME NEW i \in 1..c, NEW j \in 1..c, s[i] = s[j] PROVE i = j
      OBVIOUS
    <3>1. s[i] <= s[j] /\ s[j] <= s[i] /\ i \in Nat /\ j \in Nat
      BY <1>1, <1>4
    <3>2. i <= j /\ j <= i
      BY <1>5, <3>1
    <3> QED BY <3>1, <3>2
  <2>4. c \in Nat /\ s \in [1..c -> S]
    BY <1>1, <1>3
  <2>5. Cardinality(FirstOf(s, p)) = p
    BY <2>2, <2>3, <2>4, FirstAre
  <2> QED BY <2>1, <2>5
<1>7. \A p \in 1..c : s[p] \in A <=> p <= m
  BY <1>2, <1>4, <1>6
<1>8. l \in 0..c /\ l \in Nat
  BY <1>1
<1>9. A = FirstOf(s, l)
  <2>1. ASSUME NEW i \in A PROVE i \in FirstOf(s, l)
    <3>1. i \in S
      BY <1>2
    <3>2. PICK q \in 1..c : s[q] = i
      BY <1>3, <3>1
    <3>3. q <= m
      BY <1>7, <3>2
    <3>4. q \in 1..l
      BY <1>1, <3>3
    <3> QED BY <3>2, <3>4 DEF FirstOf
  <2>2. ASSUME NEW q \in 1..l PROVE s[q] \in A
    <3>1. q \in 1..c /\ q <= m
      BY <1>1
    <3> QED BY <1>7, <3>1
  <2> QED BY <2>1, <2>2 DEF FirstOf
<1>10. \A i, j \in 1..c : i # j => s[i] # s[j]
  <2> SUFFICES ASSUME NEW i \in 1..c, NEW j \in 1..c, s[i] = s[j] PROVE i = j
    OBVIOUS
  <2>1. s[i] <= s[j] /\ s[j] <= s[i] /\ i \in Nat /\ j \in Nat
    BY <1>1, <1>4
  <2>2. i <= j /\ j <= i
    BY <1>5, <2>1
  <2> QED BY <2>1, <2>2
<1>11. IsFiniteSet(A) /\ Cardinality(A) = l
  <2>1. c \in Nat /\ s \in [1..c -> S]
    BY <1>1, <1>3
  <2> HIDE DEF l
  <2>2. IsFiniteSet(FirstOf(s, l)) /\ Cardinality(FirstOf(s, l)) = l
    BY <1>8, <1>10, <2>1, FirstAre
  <2> QED BY <1>9, <2>2
<1>12. ASSUME NEW i \in S \ A, NEW j \in A PROVE j < i /\ m < c
  <2>1. PICK p \in 1..c : s[p] = i
    BY <1>3
  <2>2. j \in S
    BY <1>2
  <2>3. PICK q \in 1..c : s[q] = j
    BY <1>3, <2>2
  <2>4. q <= m /\ ~(p <= m) /\ p \in Nat /\ q \in Nat
    BY <1>1, <1>7, <2>1, <2>3
  <2>5. q < p /\ m < c
    BY <1>1, <2>4
  <2> QED BY <1>1, <2>1, <2>3, <2>5
<1>13. m >= c => A = S
  <2> SUFFICES ASSUME m >= c, NEW i \in S PROVE i \in A
    BY <1>2
  <2>1. PICK p \in 1..c : s[p] = i
    BY <1>3
  <2>2. p <= m
    BY <1>1
  <2> QED BY <1>7, <2>1, <2>2
<1>14. A \in SUBSET S
  BY <1>2
<1> QED BY <1>1, <1>11, <1>12, <1>13, <1>14 DEF A, c

-----------------------------------------------------------------------------
(* VectorStoreSearch: what is found.                                       *)

\* The documents are ranked, and what is found keeps what the properties say.
Ranked == \A i, j \in DOMAIN docs : i < j => docs[i].score >= docs[j].score
AsAsked == /\ Searching!NoneTooLow /\ Searching!FilterKept /\ Searching!OthersKeptOut
           /\ Searching!AtMostAsked /\ Searching!BestAreFound /\ Searching!FilteredBeforeCut
           /\ Searching!FilteredExactly /\ Searching!RadiusStays
           /\ Searching!FailureIsError /\ Searching!ScoreIsSimilarity

(* The documents have their positions and scores.                          *)
LEMMA ScoresAre ==
    ASSUME Searching!TypeOK
    PROVE  /\ Len(docs) \in Nat /\ DOMAIN docs = 1..Len(docs) /\ MaxScore \in Nat
           /\ \A i \in DOMAIN docs : docs[i] \in Searching!Doc /\ docs[i].score \in Nat
                                     /\ docs[i].score <= MaxScore
<1>1. MaxScore \in Nat
  BY BoundsAssumption
<1>2. Len(docs) \in Nat /\ DOMAIN docs = 1..Len(docs)
      /\ \A i \in DOMAIN docs : docs[i] \in Searching!Doc
  BY LenProperties, ElementOfSeq DEF Searching!TypeOK
<1>3. \A d \in Searching!Doc : d.score \in Nat /\ d.score <= MaxScore
  BY <1>1 DEF Searching!Doc
<1> QED BY <1>1, <1>2, <1>3

\* These are the best of a set, at most so many.
Best(A, S, m) ==
    /\ A \in SUBSET S /\ IsFiniteSet(A) /\ Cardinality(A) \in Nat /\ Cardinality(A) <= m
    /\ \A i \in S \ A : Cardinality(A) >= m /\ \A j \in A : docs[j].score >= docs[i].score
\* As many as there are, or as there is room for.
Full(A, S, m) == Cardinality(A) = IF m < Cardinality(S) THEN m ELSE Cardinality(S)

(* The first are the best.                                                 *)
LEMMA FirstAreBest ==
    ASSUME Searching!TypeOK, Ranked, NEW S \in SUBSET (DOMAIN docs), NEW m \in Nat
    PROVE  /\ Best(Searching!Atmost(m, S), S, m) /\ Full(Searching!Atmost(m, S), S, m)
           /\ Cardinality(S) \in Nat
<1> DEFINE A == Searching!Atmost(m, S)
<1>1. Len(docs) \in Nat /\ S \in SUBSET (1..Len(docs)) /\ DOMAIN docs = 1..Len(docs)
  BY ScoresAre
<1>2. /\ A \in SUBSET S /\ IsFiniteSet(A) /\ Cardinality(S) \in Nat
      /\ Cardinality(A) = IF m < Cardinality(S) THEN m ELSE Cardinality(S)
      /\ \A i \in S \ A, j \in A : j < i /\ m < Cardinality(S)
      /\ m >= Cardinality(S) => A = S
  BY <1>1, CutIs
<1> HIDE DEF A
<1>3. Cardinality(A) \in Nat /\ Cardinality(A) <= m
  BY <1>2
<1>4. ASSUME NEW i \in S \ A
      PROVE  Cardinality(A) >= m /\ \A j \in A : docs[j].score >= docs[i].score
  <2>1. ~(m >= Cardinality(S))
    BY <1>2, <1>4
  <2>2. Cardinality(A) = m
    BY <1>2, <2>1
  <2>3. \A j \in A : j < i /\ j \in DOMAIN docs /\ i \in DOMAIN docs
    BY <1>2
  <2> QED BY <2>2, <2>3 DEF Ranked
<1> QED BY <1>2, <1>3, <1>4 DEF A, Best, Full

(* Of the first those above a bound are the best of those above it.        *)
LEMMA AboveAreBest ==
    ASSUME Searching!TypeOK, Ranked, NEW S \in SUBSET (DOMAIN docs), NEW m \in Nat, NEW b \in Nat
    PROVE  /\ Searching!Above(b, S) \in SUBSET (DOMAIN docs)
           /\ Best(Searching!Above(b, Searching!Atmost(m, S)), Searching!Above(b, S), m)
           /\ b = 0 => /\ Searching!Above(b, S) = S
                       /\ Full(Searching!Above(b, Searching!Atmost(m, S)), S, m)
<1> DEFINE A == Searching!Atmost(m, S)
           B == Searching!Above(b, A)
<1>1. Best(A, S, m) /\ Full(A, S, m)
  BY FirstAreBest
<1>2. \A T : Searching!Above(b, T) = {i \in T : docs[i].score >= b}
  BY DEF Searching!Above
<1> HIDE DEF A
<1>3. A \in SUBSET S /\ IsFiniteSet(A) /\ B \in SUBSET A
  BY <1>1, <1>2 DEF Best
<1>4. IsFiniteSet(B) /\ Cardinality(B) \in Nat /\ Cardinality(B) <= Cardinality(A)
  <2>1. IsFiniteSet(B) /\ Cardinality(B) <= Cardinality(A)
    BY <1>3, FS_Subset
  <2> QED BY <2>1, FS_CardinalityType
<1>5. Cardinality(B) <= m
  BY <1>1, <1>4 DEF Best
<1>6. ASSUME NEW i \in Searching!Above(b, S) \ B
      PROVE  Cardinality(B) >= m /\ \A j \in B : docs[j].score >= docs[i].score
  <2>1. i \in S /\ docs[i].score >= b /\ i \notin A /\ i \in DOMAIN docs
    BY <1>2, <1>6
  <2>2. Cardinality(A) >= m /\ \A j \in A : docs[j].score >= docs[i].score
    BY <1>1, <2>1 DEF Best
  <2>3. A = B
    <3>1. \A j \in A : docs[j].score \in Nat /\ docs[i].score \in Nat
      BY <1>3, <2>1, ScoresAre
    <3>2. \A j \in A : docs[j].score >= b
      BY <2>1, <2>2, <3>1
    <3> QED BY <1>2, <3>2
  <2> QED BY <2>2, <2>3
<1>7. b = 0 => Searching!Above(b, S) = S /\ B = A
  <2> SUFFICES ASSUME b = 0 PROVE Searching!Above(b, S) = S /\ B = A
    OBVIOUS
  <2>1. \A i \in S : docs[i].score >= b
    BY ScoresAre
  <2> QED BY <1>2, <1>3, <2>1
<1>8. B \in SUBSET Searching!Above(b, S) /\ Searching!Above(b, S) \in SUBSET (DOMAIN docs)
  BY <1>2, <1>3
<1> HIDE DEF B
<1> QED BY <1>1, <1>4, <1>5, <1>6, <1>7, <1>8 DEF Best, A, B

\* What a document must be for a store to return it, and how many it returns.
Near(i) ==
    CASE store = "pgvector" -> threshold' # 0 => docs[i].score > threshold'
      [] store \in Searching!SQL -> TRUE
      [] store = "milvus" -> Searching!RadiusAfter > 0
        => Searching!Distance(i) < Searching!RadiusAfter
      [] store = "redis" -> 0 < threshold' /\ threshold' < MaxScore => docs[i].score >= threshold'
      [] OTHER -> docs[i].score >= threshold'
Candidates == {i \in DOMAIN docs :
                  /\ store # "opensearch" /\ filter' = "right" => docs[i].match
                  /\ store \in Searching!Namespaced => docs[i].mine
                  /\ Near(i)}
Size == CASE store \in Searching!SQL -> DefaultK
          [] store = "redis" -> Searching!RedisLimit
          [] store = "bedrockknowledgebases" -> Cardinality(Candidates)
          [] OTHER -> wanted'

\* What a search is asked.
Asks == /\ wanted' \in 0..MaxDocs /\ threshold' \in 0..(MaxScore + 1)
        /\ filter' \in {"none", "right", "wrong"} /\ service' \in {"answers", "status", "breaks"}

(* An answer is the best of the candidates.                                *)
LEMMA AnswerIs ==
    ASSUME Searching!TypeOK, Ranked, Asks
    PROVE  /\ Best(Searching!Answer, Candidates, Size) /\ Size \in Nat
           /\ threshold' = 0 => Full(Searching!Answer, Candidates, Size)
           /\ store = "bedrockknowledgebases" => Searching!Answer = Candidates
<1> DEFINE mine == Searching!Mine \cap Searching!Matching
           matching == Searching!Matching
<1>1. /\ wanted' \in Nat /\ threshold' \in Nat /\ DefaultK \in Nat /\ MaxDocs \in Nat
      /\ Searching!RedisLimit \in Nat /\ MaxScore \in Nat
  BY BoundsAssumption DEF Asks, Searching!RedisLimit
<1>2. /\ mine \in SUBSET (DOMAIN docs) /\ matching \in SUBSET (DOMAIN docs)
      /\ Searching!Mine \in SUBSET (DOMAIN docs)
      /\ \A i \in DOMAIN docs : /\ i \in Searching!Mine <=> docs[i].mine
                                /\ i \in matching <=> (filter' = "right" => docs[i].match)
                                /\ docs[i].mine \in BOOLEAN /\ docs[i].match \in BOOLEAN
  <2>1. \A d \in Searching!Doc : d.mine \in BOOLEAN /\ d.match \in BOOLEAN
    BY DEF Searching!Doc
  <2>2. \A i \in DOMAIN docs : docs[i].mine \in BOOLEAN /\ docs[i].match \in BOOLEAN
    BY <2>1, ScoresAre
  <2> QED BY <2>2 DEF Searching!Mine, Searching!Matching
<1>3. \A b, T : Searching!Above(b, T) = {i \in T : docs[i].score >= b}
  BY DEF Searching!Above
<1>4. store \in Searching!Stores
  BY DEF Searching!TypeOK
<1>5. CASE store = "pgvector"
  <2> DEFINE S == {i \in mine : threshold' # 0 => docs[i].score > threshold'}
  <2>1. S = Candidates
    <3>1. Candidates = {i \in DOMAIN docs : /\ filter' = "right" => docs[i].match
                                            /\ docs[i].mine
                                            /\ threshold' # 0 => docs[i].score > threshold'}
      BY <1>5 DEF Candidates, Near, Searching!Namespaced, Searching!SQL
    <3> HIDE DEF mine
    <3>2. \A i \in mine : i \in DOMAIN docs /\ docs[i].mine /\ (filter' = "right" => docs[i].match)
      BY <1>2 DEF mine
    <3>3. \A i \in DOMAIN docs : docs[i].mine /\ (filter' = "right" => docs[i].match) => i \in mine
      BY <1>2 DEF mine
    <3> QED BY <3>1, <3>2, <3>3
  <2>2. Searching!Answer = Searching!Atmost(wanted', S) /\ Size = wanted'
    BY <1>5 DEF Searching!Answer, Searching!Pgvector, Size, Searching!SQL
  <2> QED BY <1>1, <1>5, <1>2, <2>1, <2>2, FirstAreBest
<1>6. CASE store \in {"chroma", "pinecone", "azureaisearch"}
  <2>1. Searching!Above(threshold', mine) = Candidates
    BY <1>2, <1>3, <1>6 DEF Candidates, Near, Searching!Namespaced, Searching!SQL
  <2>2. /\ Searching!Answer = Searching!Above(threshold', Searching!Atmost(wanted', mine))
        /\ Size = wanted'
    BY <1>6 DEF Searching!Answer, Searching!Chroma, Searching!Pinecone, Searching!AzureAISearch,
       Size,
                Searching!SQL
  <2> HIDE DEF mine, matching
  <2>3. Best(Searching!Answer, Candidates, Size)
        /\ (threshold' = 0 => Full(Searching!Answer, Candidates, Size))
    BY <1>1, <1>2, <2>1, <2>2, AboveAreBest
  <2> QED BY <1>6, <1>1, <2>2, <2>3
<1>7. CASE store = "weaviate"
  <2>1. Searching!Above(threshold', mine) = Candidates
    BY <1>2, <1>3, <1>7 DEF Candidates, Near, Searching!Namespaced, Searching!SQL
  <2>2. Searching!Answer = Searching!Atmost(wanted', Searching!Above(threshold', mine))
        /\ Size = wanted'
    BY <1>7 DEF Searching!Answer, Searching!Weaviate, Size, Searching!SQL
  <2>3. Candidates \in SUBSET (DOMAIN docs)
    BY DEF Candidates
  <2> QED BY <1>7, <1>1, <2>1, <2>2, <2>3, FirstAreBest
<1>8. CASE store = "qdrant"
  <2>1. Searching!Above(threshold', matching) = Candidates
    BY <1>2, <1>3, <1>8 DEF Candidates, Near, Searching!Namespaced, Searching!SQL
  <2>2. Searching!Answer = Searching!Atmost(wanted', Searching!Above(threshold', matching))
        /\ Size = wanted'
    BY <1>8 DEF Searching!Answer, Searching!Qdrant, Size, Searching!SQL
  <2>3. Candidates \in SUBSET (DOMAIN docs)
    BY DEF Candidates
  <2> QED BY <1>8, <1>1, <2>1, <2>2, <2>3, FirstAreBest
<1>9. CASE store = "mongovector"
  <2>1. Searching!Above(threshold', matching) = Candidates
    BY <1>2, <1>3, <1>9 DEF Candidates, Near, Searching!Namespaced, Searching!SQL
  <2>2. /\ Searching!Answer = Searching!Above(threshold', Searching!Atmost(wanted', matching))
        /\ Size = wanted'
    BY <1>9 DEF Searching!Answer, Searching!Mongovector, Size, Searching!SQL
  <2> HIDE DEF mine, matching
  <2>3. Best(Searching!Answer, Candidates, Size)
        /\ (threshold' = 0 => Full(Searching!Answer, Candidates, Size))
    BY <1>1, <1>2, <2>1, <2>2, AboveAreBest
  <2> QED BY <1>9, <1>1, <2>2, <2>3
<1>10. CASE store = "opensearch"
  <2>1. Searching!Above(threshold', Searching!Mine) = Candidates
    BY <1>2, <1>3, <1>10 DEF Candidates, Near, Searching!Namespaced, Searching!SQL
  <2>2. /\ Searching!Answer = Searching!Above(threshold', Searching!Atmost(wanted', Searching!Mine))
        /\ Size = wanted'
    BY <1>10 DEF Searching!Answer, Searching!OpenSearch, Size, Searching!SQL
  <2> HIDE DEF mine, matching
  <2>3. Best(Searching!Answer, Candidates, Size)
        /\ (threshold' = 0 => Full(Searching!Answer, Candidates, Size))
    BY <1>1, <1>2, <2>1, <2>2, AboveAreBest
  <2> QED BY <1>10, <1>1, <2>2, <2>3
<1>11. CASE store = "redis"
  <2> DEFINE near == 0 < threshold' /\ threshold' < MaxScore
             S == IF near THEN Searching!Above(threshold', matching) ELSE matching
  <2>1. S = Candidates
    <3>1. Candidates = {i \in DOMAIN docs : /\ filter' = "right" => docs[i].match
                                            /\ near => docs[i].score >= threshold'}
      BY <1>11 DEF Candidates, Near, Searching!Namespaced, Searching!SQL
    <3>2. matching = {i \in DOMAIN docs : filter' = "right" => docs[i].match}
      BY DEF Searching!Matching
    <3>3. Searching!Above(threshold', matching) = {i \in matching : docs[i].score >= threshold'}
      BY <1>3
    <3> HIDE DEF near, matching
    <3>4. CASE near
      BY <3>1, <3>2, <3>3, <3>4
    <3>5. CASE ~near
      BY <3>1, <3>2, <3>5
    <3> QED BY <3>4, <3>5
  <2>2. Searching!Answer = Searching!Atmost(Searching!RedisLimit, S) /\ Size = Searching!RedisLimit
    BY <1>11 DEF Searching!Answer, Searching!Redis, Size, Searching!SQL
  <2>3. Candidates \in SUBSET (DOMAIN docs)
    BY DEF Candidates
  <2> HIDE DEF S
  <2> QED BY <1>11, <1>1, <2>1, <2>2, <2>3, FirstAreBest
<1>12. CASE store \in Searching!SQL
  <2>1. matching = Candidates
    BY <1>2, <1>12 DEF Candidates, Near, Searching!Namespaced, Searching!SQL
  <2>2. Searching!Answer = Searching!Atmost(DefaultK, matching) /\ Size = DefaultK
    BY <1>12 DEF Searching!Answer, Searching!AlloyDB, Searching!CloudSQL, Size, Searching!SQL
  <2>3. store # "bedrockknowledgebases"
    BY <1>12 DEF Searching!SQL
  <2> HIDE DEF mine, matching
  <2> QED BY <1>1, <1>2, <2>1, <2>2, <2>3, FirstAreBest
<1>13. CASE store = "milvus"
  <2> DEFINE S == {i \in matching :
                      Searching!RadiusAfter > 0 => Searching!Distance(i) < Searching!RadiusAfter}
  <2>1. S = Candidates
    BY <1>2, <1>13 DEF Candidates, Near, Searching!Namespaced, Searching!SQL
  <2>2. Searching!Answer = Searching!Atmost(wanted', S) /\ Size = wanted'
    BY <1>13 DEF Searching!Answer, Searching!Milvus, Size, Searching!SQL
  <2> QED BY <1>13, <1>1, <1>2, <2>1, <2>2, FirstAreBest
<1>14. CASE store = "bedrockknowledgebases"
  <2>1. Searching!Above(threshold', matching) = Candidates
    BY <1>2, <1>3, <1>14 DEF Candidates, Near, Searching!Namespaced, Searching!SQL
  <2>2. Searching!Answer = Searching!Above(threshold', matching) /\ Size = Cardinality(Candidates)
    BY <1>14 DEF Searching!Answer, Searching!BedrockKnowledgeBases, Size, Searching!SQL
  <2>3. Candidates \in SUBSET (1..Len(docs)) /\ Len(docs) \in Nat
    BY ScoresAre DEF Candidates
  <2>4. Cardinality(Candidates) \in Nat /\ IsFiniteSet(Candidates)
    BY <2>3, RankedIs
  <2> HIDE DEF mine, matching
  <2>5. Searching!Answer = Candidates
    BY <2>1, <2>2
  <2>6. Best(Candidates, Candidates, Cardinality(Candidates))
    BY <2>4 DEF Best
  <2>7. Full(Candidates, Candidates, Cardinality(Candidates))
    BY <2>4 DEF Full
  <2> QED BY <1>14, <2>2, <2>4, <2>5, <2>6, <2>7
<1> QED BY <1>4, <1>5, <1>6, <1>7, <1>8, <1>9, <1>10, <1>11, <1>12, <1>13, <1>14
        DEF Searching!Stores, Searching!SQL

\* What SimilaritySearch has found, and what it may have.
Finds ==
    /\ Asks /\ UNCHANGED <<store, docs>> /\ pc' = "found"
    /\ radius' \in 0..(MaxScore + 1) /\ outcome' \in {"ok", "error"}
    /\ found' \in Seq(DOMAIN docs) /\ Len(found') \in Nat
    /\ Searching!Range(found') \in SUBSET Candidates /\ Len(found') <= Size
    /\ outcome' = "ok" => /\ ~Searching!OutOfRange /\ ~Searching!Fails
                          /\ ~(filter' = "wrong" /\ store \in Searching!Typed)
                          /\ store = "milvus" => radius' = Searching!RadiusAfter
    /\ outcome' = "error" => found' = <<>>
    /\ outcome' = "ok" /\ service' = "answers" =>
          Searching!Range(found') = Searching!Answer /\ Len(found') = Cardinality(Searching!Answer)
    /\ filter' = "wrong" => store \in Searching!Typed \cup Searching!LeftOut

(* A list of positions of a set has no others.                             *)
LEMMA ListedIs ==
    ASSUME Searching!TypeOK, NEW S \in SUBSET (DOMAIN docs)
    PROVE  /\ Searching!InOrder(S) \in Seq(DOMAIN docs)
           /\ Len(Searching!InOrder(S)) = Cardinality(S)
           /\ Cardinality(S) \in Nat /\ IsFiniteSet(S) /\ Searching!Range(Searching!InOrder(S)) = S
<1>1. Len(docs) \in Nat /\ S \in SUBSET (1..Len(docs))
  BY ScoresAre
<1>2. /\ Searching!InOrder(S) \in Seq(S) /\ Len(Searching!InOrder(S)) = Cardinality(S)
      /\ Cardinality(S) \in Nat /\ IsFiniteSet(S) /\ Searching!Range(Searching!InOrder(S)) = S
  BY <1>1, RankedIs
<1> DEFINE s == Searching!InOrder(S)
           D == DOMAIN docs
<1>3. s \in Seq(S) /\ S \in SUBSET D
  BY <1>2
<1> HIDE DEF s, D
<1>4. s \in Seq(D)
  BY <1>3
<1> QED BY <1>2, <1>4 DEF s, D

LEMMA NothingListed == Searching!Range(<<>>) = {} /\ Len(<<>>) = 0 /\ Cardinality({}) = 0
BY FS_EmptySet DEF Searching!Range

(* What a search finds is of its answer.                                   *)
LEMMA SearchFinds == ASSUME Searching!TypeOK, Ranked, Searching!Search PROVE Finds
<1> DEFINE A == Searching!Answer
<1>1. /\ Asks /\ UNCHANGED <<store, docs>> /\ pc' = "found"
      /\ filter' = "wrong" => store \in Searching!Typed \cup Searching!LeftOut
  BY BoundsAssumption DEF Searching!Search, Asks
<1>2. MaxScore \in Nat
  BY BoundsAssumption
<1>3. Searching!RadiusAfter \in 0..(MaxScore + 1) /\ radius \in 0..(MaxScore + 1)
  BY <1>1, <1>2 DEF Asks, Searching!RadiusAfter, Searching!TypeOK
<1>4. Best(A, Candidates, Size) /\ Size \in Nat
  BY <1>1, AnswerIs
<1>5. Candidates \in SUBSET (DOMAIN docs)
  BY DEF Candidates
<1> HIDE DEF A
<1>6. A \in SUBSET (DOMAIN docs) /\ A \in SUBSET Candidates
  BY <1>4, <1>5 DEF Best
<1>7. <<>> \in Seq(DOMAIN docs) /\ Searching!Range(<<>>) \in SUBSET Candidates /\ Len(<<>>) <= Size
      /\ Len(<<>>) \in Nat
  BY <1>4, NothingListed
<1>8. CASE Searching!OutOfRange \/ (filter' = "wrong" /\ store \in Searching!Typed)
  <2>1. outcome' = "error" /\ found' = <<>> /\ radius' = radius
    BY <1>8 DEF Searching!Search
  <2> QED BY <1>1, <1>3, <1>7, <2>1 DEF Finds
<1>9. CASE ~(Searching!OutOfRange \/ (filter' = "wrong" /\ store \in Searching!Typed))
  <2>1. radius' = IF store = "milvus" THEN Searching!RadiusAfter ELSE radius
    BY <1>9 DEF Searching!Search
  <2>2. CASE Searching!Fails
    <3>1. outcome' = "error" /\ found' = <<>>
      BY <1>9, <2>2 DEF Searching!Search
    <3> QED BY <1>1, <1>3, <1>7, <2>1, <3>1 DEF Finds
  <2>3. CASE ~Searching!Fails
    <3>1. /\ outcome' = "ok"
          /\ CASE service' = "answers" -> found' = Searching!InOrder(A)
               [] service' = "status"  -> found' = <<>>
               [] service' = "breaks"  -> \E n \in 0..Searching!Cardinality(A) :
                                             found' = Searching!InOrder(Searching!Atmost(n, A))
      BY <1>9, <2>3 DEF Searching!Search, A
    <3>2. /\ found' \in Seq(DOMAIN docs) /\ Len(found') \in Nat
          /\ Searching!Range(found') \in SUBSET Candidates /\ Len(found') <= Size
          /\ service' = "answers" => Searching!Range(found') = A /\ Len(found') = Cardinality(A)
      <4>1. CASE service' = "answers"
        <5>1. found' = Searching!InOrder(A)
          BY <3>1, <4>1
        <5> QED BY <1>4, <1>6, <5>1, ListedIs DEF Best
      <4>2. CASE service' = "status"
        <5>1. found' = <<>>
          BY <3>1, <4>2
        <5> QED BY <1>7, <4>2, <5>1
      <4>3. CASE service' = "breaks"
        <5>1. PICK n \in 0..Cardinality(A) : found' = Searching!InOrder(Searching!Atmost(n, A))
          BY <3>1, <4>3, SearchCounts
        <5>2. Cardinality(A) \in Nat /\ n \in Nat /\ n <= Size /\ n <= Cardinality(A)
          BY <1>4 DEF Best
        <5>3. /\ Searching!Atmost(n, A) \in SUBSET A
              /\ Cardinality(Searching!Atmost(n, A)) <= n
          <6>1. Best(Searching!Atmost(n, A), A, n)
            BY <1>6, <5>2, FirstAreBest
          <6> QED BY <6>1 DEF Best
        <5>4. Searching!Atmost(n, A) \in SUBSET (DOMAIN docs)
          BY <1>6, <5>3
        <5>5. /\ found' \in Seq(DOMAIN docs) /\ Len(found') = Cardinality(Searching!Atmost(n, A))
              /\ Cardinality(Searching!Atmost(n, A)) \in Nat
              /\ Searching!Range(found') = Searching!Atmost(n, A)
          BY <5>1, <5>4, ListedIs
        <5>6. Len(found') <= Size
          BY <1>4, <5>2, <5>3, <5>5
        <5> QED BY <1>6, <4>3, <5>3, <5>5, <5>6
      <4> QED BY <1>1, <4>1, <4>2, <4>3 DEF Asks
    <3>3. radius' \in 0..(MaxScore + 1)
      BY <1>3, <2>1
    <3> QED BY <1>1, <1>9, <2>1, <2>3, <3>1, <3>2, <3>3 DEF Finds, A
  <2> QED BY <2>2, <2>3
<1> QED BY <1>8, <1>9

(* What is found is near enough, of the filter and the namespace.          *)
LEMMA FoundIsNear ==
    ASSUME Searching!TypeOK, Finds
    PROVE  /\ Searching!NoneTooLow' /\ Searching!FilterKept' /\ Searching!OthersKeptOut'
           /\ Searching!FailureIsError' /\ Searching!ScoreIsSimilarity'
<1>1. /\ UNCHANGED <<store, docs>> /\ threshold' \in 0..(MaxScore + 1) /\ MaxScore \in Nat
      /\ store \in Searching!Stores /\ threshold' \in Nat
  BY BoundsAssumption DEF Finds, Asks, Searching!TypeOK
<1>2. \A i \in Searching!Range(found') : i \in Candidates /\ i \in DOMAIN docs
  BY DEF Finds, Candidates
<1>3. \A i \in DOMAIN docs : docs[i].score \in Nat
  BY ScoresAre
<1>4. ASSUME NEW i \in Searching!Range(found')
      PROVE  \/ docs[i].score >= threshold'
             \/ store \in Searching!SQL \cup {"milvus"}
             \/ store = "redis" /\ threshold' = MaxScore
  <2>1. Near(i) /\ docs[i].score \in Nat
    BY <1>2, <1>3 DEF Candidates
  <2>2. outcome' = "ok"
    <3>1. found' # <<>>
      BY NothingListed
    <3> QED BY <3>1 DEF Finds
  <2>3. store = "redis" => threshold' <= MaxScore
    BY <1>1, <2>2 DEF Finds, Searching!OutOfRange, Searching!Unbounded, Searching!SQL
  <2> QED BY <1>1, <2>1, <2>3 DEF Near
<1>5. Searching!NoneTooLow'
  BY <1>1, <1>4 DEF Searching!NoneTooLow, Searching!Found
<1>6. Searching!FilterKept'
  BY <1>1, <1>2 DEF Searching!FilterKept, Searching!Found, Candidates, Finds
<1>7. Searching!OthersKeptOut'
  BY <1>1, <1>2 DEF Searching!OthersKeptOut, Searching!Found, Candidates
<1>8. Searching!FailureIsError'
  BY <1>1 DEF Searching!FailureIsError, Finds, Asks, Searching!Fails
<1>9. Searching!ScoreIsSimilarity'
  BY <1>1 DEF Searching!ScoreIsSimilarity, Searching!Reported, Searching!Found
<1> QED BY <1>5, <1>6, <1>7, <1>8, <1>9

(* At most so many are found, and the best of the wanted ones.             *)
LEMMA FoundIsBest ==
    ASSUME Searching!TypeOK, Ranked, Finds
    PROVE  /\ Searching!AtMostAsked' /\ Searching!BestAreFound' /\ Searching!FilteredBeforeCut'
           /\ Searching!FilteredExactly' /\ Searching!RadiusStays'
<1> DEFINE A == Searching!Answer
<1>1. /\ UNCHANGED <<store, docs>> /\ threshold' \in Nat /\ wanted' \in Nat /\ MaxScore \in Nat
      /\ store \in Searching!Stores /\ DefaultK \in Nat /\ radius \in 0..(MaxScore + 1)
  BY BoundsAssumption DEF Finds, Asks, Searching!TypeOK
<1>2. \A i \in DOMAIN docs : docs[i].score \in Nat
  BY ScoresAre
<1>3. /\ Best(A, Candidates, Size) /\ Size \in Nat
      /\ threshold' = 0 => Full(A, Candidates, Size)
      /\ store = "bedrockknowledgebases" => A = Candidates
  BY AnswerIs DEF Finds
<1> HIDE DEF A
<1>4. ASSUME outcome' = "ok", service' = "answers"
      PROVE  Searching!Range(found') = A /\ Len(found') = Cardinality(A)
  BY <1>4 DEF Finds, A
<1>5. Len(found') \in Nat /\ Len(found') <= Size
  BY DEF Finds
<1>6. \/ store \in Searching!SQL /\ Size = DefaultK
      \/ store = "redis" /\ Size = (IF wanted' = 0 THEN 1 ELSE wanted')
      \/ store = "bedrockknowledgebases"
      \/ store \notin Searching!SQL \cup {"redis", "bedrockknowledgebases"} /\ Size = wanted'
  BY DEF Size, Searching!RedisLimit
<1>7. Searching!AtMostAsked'
  <2>1. CASE store \in Searching!SQL \cup {"bedrockknowledgebases"}
    BY <1>1, <2>1 DEF Searching!AtMostAsked
  <2>2. CASE store = "redis"
    <3>1. Size = IF wanted' = 0 THEN 1 ELSE wanted'
      BY <1>6, <2>2 DEF Searching!SQL
    <3>2. CASE wanted' # 0
      <4>1. Len(found') <= wanted'
        BY <1>5, <3>1, <3>2
      <4> QED BY <4>1 DEF Searching!AtMostAsked
    <3>3. CASE wanted' = 0
      <4>1. Len(found') <= 1
        BY <1>5, <3>1, <3>3
      <4>2. Len(found') <= wanted' \/ Len(found') = 1
        <5>1. \A n \in Nat : n <= 1 => n <= 0 \/ n = 1
          OBVIOUS
        <5> QED BY <1>5, <3>3, <4>1, <5>1
      <4> QED BY <1>1, <2>2, <3>3, <4>2 DEF Searching!AtMostAsked
    <3> QED BY <3>2, <3>3
  <2>3. CASE store \notin Searching!SQL \cup {"redis", "bedrockknowledgebases"}
    <3>1. Len(found') <= wanted'
      BY <1>5, <1>6, <2>3
    <3> QED BY <3>1 DEF Searching!AtMostAsked
  <2> QED BY <2>1, <2>2, <2>3
<1>8. Searching!BestAreFound'
  <2> SUFFICES ASSUME outcome' = "ok", service' = "answers", store \notin {"opensearch", "milvus"},
                      NEW i \in DOMAIN docs, i \notin A, filter' = "right" => docs[i].match,
                      docs[i].score >= threshold'
               PROVE  \/ /\ Len(found') >= (IF store \in Searching!SQL THEN DefaultK ELSE wanted')
                         /\ \A j \in A : docs[j].score >= docs[i].score
                      \/ ~docs[i].mine
                      \/ store = "pgvector" /\ docs[i].score = threshold'
    BY <1>1, <1>4 DEF Searching!BestAreFound, Searching!Wanted, Searching!Found, Searching!Room
  <2>1. CASE i \in Candidates
    <3>1. Cardinality(A) >= Size /\ \A j \in A : docs[j].score >= docs[i].score
      BY <1>3, <2>1 DEF Best
    <3>2. store # "bedrockknowledgebases"
      BY <1>3, <2>1
    <3>3. Len(found') >= Size
      BY <1>4, <3>1
    <3>4. Size >= IF store \in Searching!SQL THEN DefaultK ELSE wanted'
      BY <1>1, <1>6, <3>2 DEF Searching!SQL
    <3>5. Len(found') >= IF store \in Searching!SQL THEN DefaultK ELSE wanted'
      BY <1>1, <1>3, <1>5, <3>3, <3>4
    <3> QED BY <3>1, <3>5
  <2>2. CASE i \notin Candidates
    <3>1. docs[i].mine => ~Near(i)
      BY <2>2 DEF Candidates
    <3>2. docs[i].score \in Nat
      BY <1>2
    <3> QED BY <1>1, <3>1, <3>2 DEF Near
  <2> QED BY <2>1, <2>2
<1>9. Searching!FilteredBeforeCut'
  <2> SUFFICES ASSUME outcome' = "ok", service' = "answers", store \notin {"opensearch", "milvus"},
                      filter' = "right", threshold' = 0,
                      (IF store \in Searching!SQL THEN DefaultK ELSE wanted') > 0,
                      NEW i \in DOMAIN docs, docs[i].match, docs[i].mine, found' = <<>>
               PROVE  FALSE
    BY <1>1 DEF Searching!FilteredBeforeCut, Searching!Room
  <2>1. i \in Candidates
    <3>1. docs[i].score \in Nat
      BY <1>2
    <3>2. Near(i)
      BY <3>1 DEF Near
    <3> QED BY <3>2 DEF Candidates
  <2>2. A = {} /\ Cardinality(A) = 0
    BY <1>4, NothingListed
  <2>3. 0 >= Size
    BY <1>3, <2>1, <2>2 DEF Best
  <2> QED BY <1>1, <1>3, <1>6, <2>1, <2>2, <2>3
<1>10. Searching!FilteredExactly'
  <2> DEFINE F == {i \in DOMAIN docs :
                      docs[i].match /\ (store \in Searching!Namespaced => docs[i].mine)}
  <2> SUFFICES ASSUME outcome' = "ok", service' = "answers", filter' = "right", threshold' = 0,
                      wanted' > 0,
                      store \notin Searching!SQL \cup
                                   {"bedrockknowledgebases", "opensearch", "milvus"}
               PROVE  /\ \A i \in A : docs[i].match
                      /\ Len(found') = IF wanted' < Cardinality(F) THEN wanted' ELSE Cardinality(F)
    <3>1. Searching!Cardinality(F) = Cardinality(F)
      BY SearchCounts
    <3> QED BY <1>1, <1>4, <3>1 DEF Searching!FilteredExactly, Searching!Found,
                Searching!FilteredSearch, Searching!ExactlyFitting, Searching!Fitting
  <2>1. \A i \in DOMAIN docs : Near(i)
    BY <1>1, <1>2 DEF Near
  <2>2. F = Candidates
    BY <2>1 DEF Candidates
  <2>3. Size = wanted'
    BY <1>1, <1>6
  <2>4. Len(found') = IF wanted' < Cardinality(Candidates) THEN wanted' ELSE Cardinality(Candidates)
    BY <1>3, <1>4, <2>3 DEF Full
  <2>5. \A i \in A : docs[i].match
    BY <1>3 DEF Best, Candidates
  <2> QED BY <2>2, <2>4, <2>5
<1>11. Searching!RadiusStays'
  <2> SUFFICES ASSUME store = "milvus", outcome' = "ok", service' = "answers", threshold' = 0,
                      wanted' > 0, filter' = "none", docs # <<>>, found' = <<>>
               PROVE  \E bound \in 1..(MaxScore + 1) :
                         radius' = bound /\ MaxScore - docs[1].score >= bound
    BY <1>1 DEF Searching!RadiusStays
  <2>1. 1 \in DOMAIN docs
    <3>1. Len(docs) \in Nat /\ DOMAIN docs = 1..Len(docs)
      BY ScoresAre
    <3>2. Len(docs) # 0
      BY <3>1, EmptySeq DEF Searching!TypeOK
    <3> QED BY <3>1, <3>2
  <2>2. A = {} /\ Cardinality(A) = 0
    BY <1>4, NothingListed
  <2>3. 1 \notin Candidates
    <3> SUFFICES ASSUME 1 \in Candidates PROVE FALSE
      OBVIOUS
    <3>1. 0 >= Size
      BY <1>3, <2>2 DEF Best
    <3>2. Size = wanted'
      BY <1>6 DEF Searching!SQL
    <3> QED BY <1>1, <3>1, <3>2
  <2>4. ~Near(1)
    BY <2>1, <2>3 DEF Candidates, Searching!Namespaced
  <2>5. Searching!RadiusAfter = radius /\ radius' = radius
    BY DEF Searching!RadiusAfter, Finds
  <2>6. radius > 0 /\ ~(MaxScore - docs[1].score < radius)
    BY <2>4, <2>5 DEF Near, Searching!Distance, Searching!SQL
  <2>7. docs[1].score \in Nat
    BY <1>2, <2>1
  <2>8. radius \in 1..(MaxScore + 1) /\ radius' = radius /\ MaxScore - docs[1].score >= radius
    BY <1>1, <2>5, <2>6, <2>7
  <2> QED BY <2>8
<1> QED BY <1>7, <1>8, <1>9, <1>10, <1>11

(* A search leaves the types.                                              *)
LEMMA FoundIsTyped == ASSUME Searching!TypeOK, Finds PROVE Searching!TypeOK' /\ (Ranked => Ranked')
<1>1. UNCHANGED <<store, docs>> /\ pc' = "found" /\ Asks /\ radius' \in 0..(MaxScore + 1)
      /\ outcome' \in {"ok", "error"} /\ found' \in Seq(DOMAIN docs)
  BY DEF Finds
<1>2. Searching!TypeOK'
  BY <1>1 DEF Searching!TypeOK, Asks, Searching!Stores, Searching!SQL, Searching!Doc
<1> QED BY <1>1, <1>2 DEF Ranked

(* A search by metadata lists at most so many of those that match.         *)
LEMMA ListsThem ==
    ASSUME Searching!TypeOK, Ranked, Searching!MetadataSearch
    PROVE  Searching!TypeOK' /\ Ranked' /\ AsAsked'
<1> DEFINE those == IF store = "pgvector" THEN Searching!PgvectorSearch
                                      ELSE Searching!WeaviateMetadata
<1>1. /\ UNCHANGED <<store, docs, radius>> /\ pc' = "found" /\ wanted' \in 0..MaxDocs
      /\ threshold' = 0
      /\ filter' \in {"none", "right"} /\ service' = "answers" /\ outcome' = "listed"
      /\ store \in {"pgvector", "weaviate"}
  BY DEF Searching!MetadataSearch
<1>2. /\ \A i \in those : i \in DOMAIN docs /\ docs[i].mine /\ (filter' = "right" => docs[i].match)
      /\ those \in SUBSET (DOMAIN docs)
  BY DEF Searching!PgvectorSearch, Searching!WeaviateMetadata, Searching!Mine, Searching!Matching
<1>3. PICK S \in SUBSET those :
         /\ Searching!Cardinality(S) = Searching!Cardinality(Searching!Atmost(wanted', those))
         /\ found' \in Searching!SetToSeqs(S)
  BY DEF Searching!MetadataSearch
<1> HIDE DEF those
<1>4. wanted' \in Nat /\ MaxDocs \in Nat /\ MaxScore \in Nat
  BY <1>1, BoundsAssumption
<1>5. S \in SUBSET (DOMAIN docs) /\ \A i \in S : i \in DOMAIN docs /\ i \in those
  BY <1>2, <1>3
<1>6. Cardinality(S) \in Nat /\ Cardinality(S) <= wanted'
  <2>1. Cardinality(S) = Cardinality(Searching!Atmost(wanted', those))
    BY <1>3, SearchCounts
  <2>2. Best(Searching!Atmost(wanted', those), those, wanted')
    BY <1>2, <1>4, FirstAreBest
  <2> QED BY <2>1, <2>2 DEF Best
<1>7. found' \in [1..Cardinality(S) -> S]
  BY <1>3, SearchCounts DEF Searching!SetToSeqs
<1>8. found' \in Seq(DOMAIN docs) /\ Len(found') = Cardinality(S)
      /\ Searching!Range(found') \in SUBSET S
  <2> DEFINE s == found'
             D == DOMAIN docs
             c == Cardinality(S)
  <2>1. s \in [1..c -> S] /\ c \in Nat /\ \A i \in S : i \in D
    BY <1>5, <1>6, <1>7
  <2> HIDE DEF s, D, c
  <2>2. s \in Seq(D) /\ DOMAIN s = 1..c
    BY <2>1
  <2>3. Len(s) = c
    BY <2>1, <2>2, LenProperties
  <2>4. Searching!Range(s) \in SUBSET S
    BY <2>1 DEF Searching!Range
  <2> QED BY <2>2, <2>3, <2>4 DEF s, D, c
<1>9. Searching!TypeOK'
  BY <1>1, <1>4, <1>8 DEF Searching!TypeOK
<1>10. \A i \in Searching!Range(found') : /\ docs[i].score \in Nat /\ docs[i].mine
                                          /\ filter' = "right" => docs[i].match
  BY <1>2, <1>5, <1>8, ScoresAre
<1>11. Searching!NoneTooLow'
  BY <1>1, <1>10 DEF Searching!NoneTooLow, Searching!Found
<1>12. Searching!FilterKept' /\ Searching!OthersKeptOut'
  BY <1>1, <1>10 DEF Searching!FilterKept, Searching!OthersKeptOut, Searching!Found
<1>13. Searching!AtMostAsked'
  BY <1>6, <1>8 DEF Searching!AtMostAsked
<1>14. /\ Searching!BestAreFound' /\ Searching!FilteredBeforeCut' /\ Searching!FilteredExactly'
       /\ Searching!RadiusStays' /\ Searching!FailureIsError'
  BY <1>1 DEF Searching!BestAreFound, Searching!FilteredBeforeCut, Searching!FilteredExactly,
              Searching!FilteredSearch, Searching!RadiusStays, Searching!FailureIsError
<1>15. Searching!ScoreIsSimilarity'
  BY <1>1 DEF Searching!ScoreIsSimilarity, Searching!Reported, Searching!Found
<1>16. Ranked'
  BY <1>1 DEF Ranked
<1> QED BY <1>9, <1>11, <1>12, <1>13, <1>14, <1>15, <1>16 DEF AsAsked

(* Nothing was found yet.                                                  *)
LEMMA NoneFound ==
    ASSUME found = <<>>, wanted = 0, threshold = 0, filter = "none", service = "answers",
           outcome = "none"
    PROVE  AsAsked
<1>1. Searching!Range(found) = {} /\ Len(found) = 0
  BY NothingListed
<1> QED BY <1>1 DEF AsAsked, Searching!NoneTooLow, Searching!FilterKept, Searching!OthersKeptOut,
           Searching!AtMostAsked, Searching!BestAreFound, Searching!FilteredBeforeCut,
           Searching!FilteredExactly, Searching!FilteredSearch, Searching!RadiusStays,
           Searching!FailureIsError, Searching!ScoreIsSimilarity, Searching!Found

(* A search begins with the types, its documents ranked.                   *)
LEMMA SearchInit == ASSUME Searching!Init PROVE Searching!TypeOK /\ Ranked /\ AsAsked
<1>1. MaxScore \in Nat /\ MaxDocs \in Nat
  BY BoundsAssumption
<1>2. /\ store \in Searching!Stores /\ radius = 0 /\ pc = "idle" /\ wanted = 0 /\ threshold = 0
      /\ filter = "none" /\ service = "answers" /\ found = <<>> /\ outcome = "none"
  BY DEF Searching!Init
<1>3. PICK n \in 0..MaxDocs : docs \in {f \in [1..n -> Searching!Doc] : \A i, j \in 1..n :
                                           i < j => f[i].score >= f[j].score}
  BY DEF Searching!Init
<1>4. docs \in [1..n -> Searching!Doc] /\ n \in Nat /\ n <= MaxDocs /\ Ranked
  BY <1>1, <1>3 DEF Ranked
<1>5. docs \in Seq(Searching!Doc) /\ Len(docs) = n
  BY <1>4, LenProperties
<1>6. <<>> \in Seq(DOMAIN docs)
  OBVIOUS
<1>7. Searching!TypeOK
  BY <1>1, <1>2, <1>4, <1>5, <1>6 DEF Searching!TypeOK
<1> QED BY <1>2, <1>4, <1>7, NoneFound

(* Each step of a search keeps what its results promise.                   *)
LEMMA SearchSteps ==
    ASSUME Searching!TypeOK, Ranked, AsAsked, [Searching!Next]_(Searching!vars)
    PROVE  Searching!TypeOK' /\ Ranked' /\ AsAsked'
<1>1. CASE Searching!Search
  <2>1. Finds
    BY <1>1, SearchFinds
  <2> QED BY <2>1, FoundIsTyped, FoundIsNear, FoundIsBest DEF AsAsked
<1>2. CASE Searching!MetadataSearch
  BY <1>2, ListsThem
<1>3. CASE Searching!SearchAgain
  <2>1. /\ UNCHANGED <<store, docs, radius>> /\ pc' = "idle" /\ wanted' = 0 /\ threshold' = 0
        /\ filter' = "none" /\ service' = "answers" /\ found' = <<>> /\ outcome' = "none"
    BY <1>3 DEF Searching!SearchAgain
  <2>2. <<>> \in Seq(DOMAIN docs) /\ MaxScore \in Nat /\ MaxDocs \in Nat
    BY BoundsAssumption
  <2>3. Searching!TypeOK'
    BY <2>1, <2>2 DEF Searching!TypeOK
  <2>4. AsAsked'
    <3>1. Searching!Range(found') = {} /\ Len(found') = 0
      BY <2>1, NothingListed
    <3> QED BY <2>1, <3>1 DEF AsAsked, Searching!NoneTooLow, Searching!FilterKept,
               Searching!OthersKeptOut, Searching!AtMostAsked, Searching!BestAreFound,
               Searching!FilteredBeforeCut, Searching!FilteredExactly,
               Searching!FilteredSearch, Searching!RadiusStays, Searching!FailureIsError,
               Searching!ScoreIsSimilarity, Searching!Found
  <2>5. Ranked'
    BY <2>1 DEF Ranked
  <2> QED BY <2>3, <2>4, <2>5
<1>4. CASE UNCHANGED Searching!vars
  <2>1. UNCHANGED <<store, docs, radius, pc, wanted, threshold, filter, service, found, outcome>>
    BY <1>4 DEF Searching!vars
  <2>2. Searching!TypeOK' /\ Ranked'
    BY <2>1 DEF Searching!TypeOK, Ranked
  <2>3. /\ Searching!NoneTooLow' = Searching!NoneTooLow
        /\ Searching!FilterKept' = Searching!FilterKept
        /\ Searching!OthersKeptOut' = Searching!OthersKeptOut
        /\ Searching!AtMostAsked' = Searching!AtMostAsked
        /\ Searching!ScoreIsSimilarity' = Searching!ScoreIsSimilarity
        /\ Searching!FailureIsError' = Searching!FailureIsError
    BY <2>1 DEF Searching!NoneTooLow, Searching!FilterKept, Searching!OthersKeptOut,
               Searching!AtMostAsked, Searching!Found, Searching!ScoreIsSimilarity,
               Searching!Reported, Searching!Distance, Searching!FailureIsError
  <2>4. /\ Searching!BestAreFound' = Searching!BestAreFound
        /\ Searching!FilteredBeforeCut' = Searching!FilteredBeforeCut
        /\ Searching!FilteredExactly' = Searching!FilteredExactly
        /\ Searching!RadiusStays' = Searching!RadiusStays
    BY <2>1 DEF Searching!BestAreFound, Searching!FilteredBeforeCut, Searching!FilteredExactly,
               Searching!FilteredSearch, Searching!ExactlyFitting, Searching!Fitting,
               Searching!RadiusStays, Searching!Found, Searching!Wanted, Searching!Room
  <2> QED BY <2>2, <2>3, <2>4 DEF AsAsked
<1> QED BY <1>1, <1>2, <1>3, <1>4 DEF Searching!Next

-----------------------------------------------------------------------------
(* ChatHistory: those of a list, in their order.                           *)

\* What FlattenSeq has put together when it comes to each list.
Flat(seqs) == CHOOSE f : f = [i \in 1..Len(seqs) |-> IF i = 1 THEN seqs[i]
                                                     ELSE f[i - 1] \o seqs[i]]

(* The sums of the lists exist: a smallest number of lists without them cannot be.  *)
LEMMA SumsExist ==
    ASSUME NEW seqs, NEW n \in Nat
    PROVE  \E f : f = [i \in 1..n |-> IF i = 1 THEN seqs[i] ELSE f[i - 1] \o seqs[i]]
<1> DEFINE Adds(f, m) == f = [i \in 1..m |-> IF i = 1 THEN seqs[i] ELSE f[i - 1] \o seqs[i]]
           bad == {m \in Nat : ~ \E f : Adds(f, m)}
<1>1. SUFFICES ASSUME bad # {} PROVE FALSE
  OBVIOUS
<1>2. PICK m \in bad : \A k \in bad : ~(<<k, m>> \in OpToRel(<, Nat))
  BY <1>1, WFMin, NatLessThanWellFounded
<1>3. m # 0
  <2> DEFINE e == [i \in 1..0 |-> seqs[i]]
  <2>1. e = [i \in 1..0 |-> IF i = 1 THEN seqs[i] ELSE e[i - 1] \o seqs[i]]
    OBVIOUS
  <2>2. \E f : Adds(f, 0)
    BY <2>1
  <2> HIDE DEF Adds
  <2> QED BY <2>2
<1>4. m - 1 \in Nat /\ m - 1 \notin bad
  <2>1. m - 1 \in Nat /\ m \in Nat /\ m - 1 < m
    BY <1>3
  <2>2. <<m - 1, m>> \in OpToRel(<, Nat)
    BY <2>1 DEF OpToRel
  <2> HIDE DEF bad
  <2> QED BY <1>2, <2>1, <2>2
<1>5. PICK f : Adds(f, m - 1)
  BY <1>4
<1> DEFINE g == [i \in 1..m |-> IF i < m THEN f[i]
                                ELSE IF m = 1 THEN seqs[1] ELSE f[m - 1] \o seqs[m]]
<1>6. Adds(g, m)
  <2>1. \A i \in 1..m : g[i] = IF i = 1 THEN seqs[i] ELSE g[i - 1] \o seqs[i]
    <3> TAKE i \in 1..m
    <3>1. CASE i < m
      <4>1. i \in 1..(m - 1) /\ g[i] = f[i]
        BY <3>1, <1>4
      <4>2. f[i] = IF i = 1 THEN seqs[i] ELSE f[i - 1] \o seqs[i]
        BY <4>1, <1>5
      <4>3. i # 1 => i - 1 \in 1..m /\ i - 1 < m /\ g[i - 1] = f[i - 1]
        BY <4>1, <1>4
      <4> QED BY <4>1, <4>2, <4>3
    <3>2. CASE i = m
      <4>1. i # 1 => i - 1 \in 1..m /\ i - 1 < m /\ g[i - 1] = f[i - 1]
        BY <3>2, <1>4
      <4> QED BY <3>2, <4>1
    <3> QED BY <3>1, <3>2, <1>4
  <2> HIDE DEF Adds
  <2>2. g = [i \in 1..m |-> IF i = 1 THEN seqs[i] ELSE g[i - 1] \o seqs[i]]
    BY <2>1
  <2> QED BY <2>2 DEF Adds
<1> QED BY <1>6, <1>2

(* So FlattenSeq puts the lists one after the other.                         *)
LEMMA FlatIs ==
    ASSUME NEW S, NEW seqs \in Seq(Seq(S))
    PROVE  /\ Remembering!FlattenSeq(seqs) = IF seqs = <<>> THEN <<>> ELSE Flat(seqs)[Len(seqs)]
           /\ \A i \in 1..Len(seqs) :
                Flat(seqs)[i] = IF i = 1 THEN seqs[i] ELSE Flat(seqs)[i - 1] \o seqs[i]
<1>1. Len(seqs) \in Nat /\ (Len(seqs) = 0 <=> seqs = <<>>)
  BY EmptySeq, LenProperties
<1>2. Flat(seqs) = [i \in 1..Len(seqs) |-> IF i = 1 THEN seqs[i]
                                         ELSE Flat(seqs)[i - 1] \o seqs[i]]
  <2> DEFINE Adds(f) == f = [i \in 1..Len(seqs) |-> IF i = 1 THEN seqs[i]
                                         ELSE f[i - 1] \o seqs[i]]
  <2>1. \E f : Adds(f)
    BY <1>1, SumsExist
  <2>2. Flat(seqs) = CHOOSE f : Adds(f)
    BY DEF Flat
  <2> HIDE DEF Adds
  <2>3. Adds(Flat(seqs))
    BY <2>1, <2>2, Zenon
  <2> QED BY <2>3 DEF Adds
<1>3. Remembering!FlattenSeq(seqs) = IF Len(seqs) = 0 THEN seqs ELSE Flat(seqs)[Len(seqs)]
  BY DEF Remembering!FlattenSeq, Flat
<1>4. \A i \in 1..Len(seqs) :
                Flat(seqs)[i] = IF i = 1 THEN seqs[i] ELSE Flat(seqs)[i - 1] \o seqs[i]
  <2> DEFINE f == Flat(seqs)
  <2>1. f = [i \in 1..Len(seqs) |-> IF i = 1 THEN seqs[i] ELSE f[i - 1] \o seqs[i]]
    BY <1>2
  <2> HIDE DEF f
  <2>2. \A i \in 1..Len(seqs) : f[i] = IF i = 1 THEN seqs[i] ELSE f[i - 1] \o seqs[i]
    BY <2>1
  <2> QED BY <2>2 DEF f
<1> QED BY <1>1, <1>3, <1>4

\* The elements of a list are those of the first of the lists.
IsOf(flat, seqs, n) ==
    /\ \A x \in DOMAIN flat : \E i \in 1..n : \E j \in DOMAIN seqs[i] :
          flat[x] = seqs[i][j]
    /\ \A i \in 1..n : \A j \in DOMAIN seqs[i] : \E x \in DOMAIN flat :
          flat[x] = seqs[i][j]

(* The lists of two lists of lists, one after the other.                    *)
LEMMA FlatConcat ==
    ASSUME NEW S, NEW ss \in Seq(Seq(S)), NEW tt \in Seq(Seq(S))
    PROVE  /\ Remembering!FlattenSeq(ss) \in Seq(S)
           /\ Remembering!FlattenSeq(ss \o tt)
                = Remembering!FlattenSeq(ss) \o Remembering!FlattenSeq(tt)
<1> DEFINE all == ss \o tt
           m == Len(ss)
           l == Len(tt)
           sum == Remembering!FlattenSeq(ss)
<1>1. /\ m \in Nat /\ l \in Nat /\ all \in Seq(Seq(S)) /\ Len(all) = m + l
      /\ \A k \in 1..m : all[k] = ss[k]
      /\ \A k \in 1..l : all[m + k] = tt[k]
      /\ m = 0 <=> ss = <<>>
      /\ l = 0 <=> tt = <<>>
      /\ m + l = 0 <=> all = <<>>
      /\ \A k \in 1..m : ss[k] \in Seq(S)
      /\ \A k \in 1..l : tt[k] \in Seq(S)
  <2>1. /\ m \in Nat /\ l \in Nat /\ all \in Seq(Seq(S)) /\ Len(all) = m + l
        /\ \A k \in 1..m : all[k] = ss[k]
        /\ \A k \in 1..l : all[m + k] = tt[k]
    BY LenProperties, ConcatProperties
  <2>2. (m = 0 <=> ss = <<>>) /\ (l = 0 <=> tt = <<>>)
    BY EmptySeq
  <2>3. Len(all) = 0 <=> all = <<>>
    BY <2>1, EmptySeq
  <2>4. \A k \in 1..m : ss[k] \in Seq(S)
    BY ElementOfSeq
  <2>5. \A k \in 1..l : tt[k] \in Seq(S)
    BY ElementOfSeq
  <2> QED BY <2>1, <2>2, <2>3, <2>4, <2>5
<1>2. /\ sum = IF m = 0 THEN <<>> ELSE Flat(ss)[m]
      /\ Remembering!FlattenSeq(tt) = IF l = 0 THEN <<>> ELSE Flat(tt)[l]
      /\ Remembering!FlattenSeq(all) = IF m + l = 0 THEN <<>> ELSE Flat(all)[m + l]
      /\ \A i \in 1..m : Flat(ss)[i] = IF i = 1 THEN ss[i] ELSE Flat(ss)[i - 1] \o ss[i]
      /\ \A i \in 1..l : Flat(tt)[i] = IF i = 1 THEN tt[i] ELSE Flat(tt)[i - 1] \o tt[i]
      /\ \A i \in 1..(m + l) : Flat(all)[i] = IF i = 1 THEN all[i]
                                              ELSE Flat(all)[i - 1] \o all[i]
  <2>1. /\ Remembering!FlattenSeq(all) = IF all = <<>> THEN <<>> ELSE Flat(all)[Len(all)]
        /\ \A i \in 1..Len(all) : Flat(all)[i] = IF i = 1 THEN all[i]
                                              ELSE Flat(all)[i - 1] \o all[i]
    <3> HIDE DEF all
    <3> QED BY <1>1, FlatIs
  <2> QED BY <1>1, <2>1, FlatIs
<1> HIDE DEF all, m, l, sum
\* What there is after so many of the lists.
<1> DEFINE Good(n) ==
             IF n <= m
             THEN /\ n = 0 \/ (Flat(ss)[n] \in Seq(S) /\ Flat(all)[n] = Flat(ss)[n])
             ELSE /\ sum \in Seq(S) /\ Flat(tt)[n - m] \in Seq(S)
                  /\ Flat(all)[n] = sum \o Flat(tt)[n - m]
           bad == {n \in 0..(m + l) : ~Good(n)}
<1>3. bad = {}
  <2>1. SUFFICES ASSUME bad # {} PROVE FALSE
    OBVIOUS
  <2>2. PICK n \in bad : \A k \in bad : ~(<<k, n>> \in OpToRel(<, Nat))
    <3>1. bad \subseteq Nat
      BY <1>1
    <3> HIDE DEF bad
    <3> QED BY <2>1, <3>1, WFMin, NatLessThanWellFounded
  <2>3. n \in 1..(m + l) /\ n - 1 \in 0..(m + l) /\ Good(n - 1) /\ n \in Nat
    <3>1. n # 0
      BY <1>1
    <3>2. n \in 1..(m + l) /\ n - 1 \in Nat /\ n \in Nat /\ n - 1 < n /\ n - 1 \in 0..(m + l)
      BY <1>1, <3>1
    <3>3. <<n - 1, n>> \in OpToRel(<, Nat)
      BY <3>2 DEF OpToRel
    <3>4. n - 1 \notin bad
      <4> HIDE DEF bad
      <4> QED BY <2>2, <3>3
    <3> HIDE DEF Good
    <3> QED BY <3>2, <3>4
  <2>4. CASE n <= m
    <3>1. n \in 1..m /\ n - 1 <= m
      BY <1>1, <2>3, <2>4
    <3>2. CASE n = 1
      BY <1>1, <1>2, <2>3, <3>1, <3>2
    <3>3. CASE n # 1
      <4>1. /\ Flat(ss)[n - 1] \in Seq(S) /\ Flat(all)[n - 1] = Flat(ss)[n - 1]
        BY <1>1, <2>3, <3>1, <3>3
      <4>2. Flat(ss)[n] = Flat(ss)[n - 1] \o ss[n] /\ Flat(all)[n] = Flat(ss)[n - 1] \o ss[n]
        BY <1>1, <1>2, <2>3, <3>1, <3>3, <4>1
      <4>3. Flat(ss)[n - 1] \o ss[n] \in Seq(S)
        BY <1>1, <3>1, <4>1, ConcatProperties
      <4> QED BY <2>4, <4>2, <4>3
    <3> QED BY <3>2, <3>3
  <2>5. CASE n > m
    <3> DEFINE j == n - m
    <3>1. j \in 1..l /\ n = m + j /\ ~(n <= m)
      BY <1>1, <2>3, <2>5
    <3>2. sum \in Seq(S)
      <4>1. CASE m = 0
        BY <1>2, <4>1
      <4>2. CASE m # 0 /\ n - 1 <= m
        <5>1. n - 1 = m
          BY <1>1, <2>3, <2>5, <4>2
        <5> QED BY <1>2, <2>3, <4>2, <5>1
      <4>3. CASE ~(n - 1 <= m)
        BY <2>3, <4>3
      <4> QED BY <4>1, <4>2, <4>3
    <3>3. all[n] = tt[j] /\ tt[j] \in Seq(S)
      BY <1>1, <3>1
    <3>4. CASE j = 1
      <4>1. Flat(tt)[j] = tt[j]
        BY <1>2, <3>1, <3>4
      <4>2. Flat(all)[n] = sum \o tt[j]
        <5>1. CASE m = 0
          <6>1. n = 1 /\ sum = <<>> /\ Flat(all)[n] = all[n]
            BY <1>2, <2>3, <3>1, <3>4, <5>1
          <6>2. <<>> \o tt[j] = tt[j]
            BY <3>3, ConcatEmptySeq
          <6> QED BY <3>3, <6>1, <6>2
        <5>2. CASE m # 0
          <6>1. n # 1 /\ n - 1 = m
            BY <1>1, <3>1, <3>4, <5>2
          <6>2. Flat(all)[n] = Flat(all)[n - 1] \o all[n]
            BY <1>2, <2>3, <6>1
          <6>3. Flat(all)[n - 1] = sum
            BY <1>1, <1>2, <2>3, <5>2, <6>1
          <6> QED BY <3>3, <6>2, <6>3
        <5> QED BY <5>1, <5>2
      <4> HIDE DEF j
      <4>3. Flat(tt)[n - m] = tt[j]
        BY <4>1 DEF j
      <4> QED BY <3>1, <3>2, <3>3, <4>2, <4>3
    <3>5. CASE j # 1
      <4>1. ~(n - 1 <= m) /\ (n - 1) - m = j - 1 /\ n # 1 /\ j - 1 \in 1..l
        BY <1>1, <2>3, <3>1, <3>5
      <4>2. Flat(tt)[j - 1] \in Seq(S) /\ Flat(all)[n - 1] = sum \o Flat(tt)[j - 1]
        BY <2>3, <4>1
      <4>3. Flat(tt)[j] = Flat(tt)[j - 1] \o tt[j] /\ Flat(all)[n] = Flat(all)[n - 1] \o all[n]
        BY <1>2, <2>3, <3>1, <3>5, <4>1
      <4>4. Flat(tt)[j - 1] \o tt[j] \in Seq(S)
        BY <3>3, <4>2, ConcatProperties
      <4>5. (sum \o Flat(tt)[j - 1]) \o tt[j] = sum \o (Flat(tt)[j - 1] \o tt[j])
        <5> DEFINE u == Flat(tt)[j - 1]
                   v == tt[j]
        <5>1. sum \in Seq(S) /\ u \in Seq(S) /\ v \in Seq(S)
          BY <3>2, <3>3, <4>2
        <5> HIDE DEF u, v, sum
        <5>2. (sum \o u) \o v = sum \o (u \o v)
          BY <5>1, ConcatAssociative
        <5> QED BY <5>2 DEF u, v
      <4>6. Flat(all)[n] = sum \o Flat(tt)[j] /\ Flat(tt)[j] \in Seq(S)
        BY <3>3, <4>2, <4>3, <4>4, <4>5
      <4> QED BY <3>1, <3>2, <4>6
    <3> QED BY <3>4, <3>5
  <2> QED BY <1>1, <2>3, <2>4, <2>5
<1>4. Good(m) /\ Good(m + l)
  <2>1. m \in 0..(m + l) /\ m + l \in 0..(m + l)
    BY <1>1
  <2> HIDE DEF Good
  <2> QED BY <1>3, <2>1
<1>5. sum \in Seq(S)
  <2>1. CASE m = 0
    BY <1>2, <2>1
  <2>2. CASE m # 0
    BY <1>1, <1>2, <1>4, <2>2
  <2> QED BY <2>1, <2>2
<1>6. Remembering!FlattenSeq(all) = sum \o Remembering!FlattenSeq(tt)
  <2>1. CASE l = 0
    <3>1. Remembering!FlattenSeq(tt) = <<>> /\ m + l = m
      BY <1>1, <1>2, <2>1
    <3>2. Remembering!FlattenSeq(all) = sum
      BY <1>1, <1>2, <1>4, <3>1
    <3>3. sum \o <<>> = sum
      BY <1>5, ConcatEmptySeq
    <3> QED BY <3>1, <3>2, <3>3
  <2>2. CASE l # 0
    <3>1. ~(m + l <= m) /\ (m + l) - m = l /\ m + l # 0
      BY <1>1, <2>2
    <3> QED BY <1>2, <1>4, <2>2, <3>1
  <2> QED BY <2>1, <2>2
<1> QED BY <1>5, <1>6 DEF all, sum

(* A list of none and of one.                                               *)
LEMMA FlatFew ==
    ASSUME NEW S, NEW s \in Seq(S)
    PROVE  Remembering!FlattenSeq(<<>>) = <<>> /\ Remembering!FlattenSeq(<<s>>) = s
<1>1. Remembering!FlattenSeq(<<>>) = <<>>
  <2>1. <<>> \in Seq(Seq({}))
    OBVIOUS
  <2> QED BY <2>1, FlatIs
<1> DEFINE one == <<s>>
<1>2. one \in Seq(Seq(S)) /\ Len(one) = 1 /\ one # <<>> /\ one[1] = s
  OBVIOUS
<1> HIDE DEF one
<1>3. Remembering!FlattenSeq(one) = Flat(one)[1] /\ Flat(one)[1] = one[1]
  BY <1>2, FlatIs
<1> QED BY <1>1, <1>2, <1>3 DEF one

(* One list more.                                                           *)
LEMMA FlatMore ==
    ASSUME NEW S, NEW ss \in Seq(Seq(S)), NEW s \in Seq(S)
    PROVE  Remembering!FlattenSeq(Append(ss, s)) = Remembering!FlattenSeq(ss) \o s
<1>1. Append(ss, s) = ss \o <<s>> /\ <<s>> \in Seq(Seq(S))
  BY AppendIsConcat
<1>2. Remembering!FlattenSeq(ss \o <<s>>)
        = Remembering!FlattenSeq(ss) \o Remembering!FlattenSeq(<<s>>)
  BY <1>1, FlatConcat
<1> QED BY <1>1, <1>2, FlatFew

\* Each of a list alone, or nothing.
Sifted(l, set) == [k \in DOMAIN l |-> Remembering!Only(l[k], l[k] \in set)]

(* A list is sifted one by one.                                             *)
LEMMA SiftedIs ==
    ASSUME NEW S, NEW l \in Seq(S), NEW set
    PROVE  /\ Sifted(l, set) \in Seq(Seq(S)) /\ Len(Sifted(l, set)) = Len(l)
           /\ \A k \in 1..Len(l) : Sifted(l, set)[k] = Remembering!Only(l[k], l[k] \in set)
           /\ Remembering!Those(l, set) = Remembering!FlattenSeq(Sifted(l, set))
<1>1. DOMAIN l = 1..Len(l) /\ Len(l) \in Nat /\ \A k \in 1..Len(l) : l[k] \in S
  BY LenProperties, ElementOfSeq
<1>2. \A k \in 1..Len(l) : Remembering!Only(l[k], l[k] \in set) \in Seq(S)
  BY <1>1 DEF Remembering!Only
<1> QED BY <1>1, <1>2 DEF Sifted, Remembering!Those

(* Those of a list are of that list.                                        *)
LEMMA ThoseTyped ==
    ASSUME NEW S, NEW s \in Seq(S), NEW set
    PROVE  Remembering!Those(s, set) \in Seq(S)
<1> DEFINE l == Sifted(s, set)
<1>1. l \in Seq(Seq(S)) /\ Remembering!Those(s, set) = Remembering!FlattenSeq(l)
      /\ <<>> \in Seq(Seq(S))
  BY SiftedIs
<1> HIDE DEF l
<1>2. Remembering!FlattenSeq(l) \in Seq(S)
  BY <1>1, FlatConcat
<1> QED BY <1>1, <1>2

(* Those of two lists are those of each.                                    *)
LEMMA ThoseIs ==
    ASSUME NEW S, NEW s \in Seq(S), NEW t \in Seq(S), NEW set
    PROVE  Remembering!Those(s \o t, set) = Remembering!Those(s, set) \o Remembering!Those(t, set)
<1> DEFINE lists(l) == Sifted(l, set)
<1>1. ASSUME NEW l \in Seq(S)
      PROVE  /\ lists(l) \in Seq(Seq(S)) /\ Len(lists(l)) = Len(l)
             /\ \A k \in 1..Len(l) : lists(l)[k] = Remembering!Only(l[k], l[k] \in set)
             /\ Remembering!Those(l, set) = Remembering!FlattenSeq(lists(l))
  BY SiftedIs
<1>2. s \o t \in Seq(S)
  BY ConcatProperties
<1>3. lists(s \o t) = lists(s) \o lists(t)
  <2> DEFINE a == lists(s)
             b == lists(t)
             c == lists(s \o t)
             m == Len(s)
             n == Len(t)
  <2>1. m \in Nat /\ n \in Nat
    BY LenProperties
  <2>2. /\ Len(s \o t) = m + n
        /\ \A k \in 1..(m + n) : (s \o t)[k] = IF k <= m THEN s[k] ELSE t[k - m]
    BY ConcatProperties
  <2>3. /\ a \in Seq(Seq(S)) /\ b \in Seq(Seq(S)) /\ c \in Seq(Seq(S))
        /\ Len(a) = m /\ Len(b) = n /\ Len(c) = m + n
        /\ \A k \in 1..m : a[k] = Remembering!Only(s[k], s[k] \in set)
        /\ \A k \in 1..n : b[k] = Remembering!Only(t[k], t[k] \in set)
        /\ \A k \in 1..(m + n) : c[k] = Remembering!Only((s \o t)[k], (s \o t)[k] \in set)
    BY <1>1, <1>2, <2>2
  <2> HIDE DEF a, b, c, m, n, lists
  <2>4. /\ a \o b \in Seq(Seq(S)) /\ Len(a \o b) = m + n
        /\ \A k \in 1..(m + n) : (a \o b)[k] = IF k <= m THEN a[k] ELSE b[k - m]
    BY <2>3, ConcatProperties
  <2>5. ASSUME NEW k \in 1..(m + n) PROVE c[k] = (a \o b)[k]
    <3>1. CASE k <= m
      <4>1. k \in 1..m
        BY <2>1, <3>1
      <4>2. (s \o t)[k] = s[k] /\ (a \o b)[k] = a[k]
        BY <2>2, <2>4, <3>1
      <4> QED BY <2>3, <4>1, <4>2
    <3>2. CASE ~(k <= m)
      <4> DEFINE j == k - m
      <4>1. j \in 1..n
        BY <2>1, <3>2
      <4>2. (s \o t)[k] = t[j] /\ (a \o b)[k] = b[j]
        BY <2>2, <2>4, <3>2
      <4> HIDE DEF j
      <4> QED BY <2>3, <4>1, <4>2
    <3> QED BY <3>1, <3>2
  <2>6. c = a \o b
    BY <2>3, <2>4, <2>5, SeqEqual
  <2> QED BY <2>6 DEF a, b, c
<1>4. /\ lists(s) \in Seq(Seq(S)) /\ lists(t) \in Seq(Seq(S))
      /\ Remembering!Those(s, set) = Remembering!FlattenSeq(lists(s))
      /\ Remembering!Those(t, set) = Remembering!FlattenSeq(lists(t))
      /\ Remembering!Those(s \o t, set) = Remembering!FlattenSeq(lists(s \o t))
  BY <1>1, <1>2
<1> HIDE DEF lists
<1>5. Remembering!FlattenSeq(lists(s) \o lists(t))
        = Remembering!FlattenSeq(lists(s)) \o Remembering!FlattenSeq(lists(t))
  BY <1>4, FlatConcat
<1> QED BY <1>3, <1>4, <1>5

(* Those of one thing.                                                      *)
LEMMA ThoseOfOne ==
    ASSUME NEW e, NEW set
    PROVE  Remembering!Those(<<e>>, set) = Remembering!Only(e, e \in set)
           /\ Remembering!Those(<<>>, set) = <<>>
<1>1. [k \in DOMAIN <<e>> |-> Remembering!Only(<<e>>[k], <<e>>[k] \in set)]
        = <<Remembering!Only(e, e \in set)>>
  OBVIOUS
<1>2. [k \in DOMAIN <<>> |-> Remembering!Only(<<>>[k], <<>>[k] \in set)] = <<>>
  OBVIOUS
<1>3. Remembering!Only(e, e \in set) \in Seq({e})
  <2>1. <<e>> \in Seq({e}) /\ <<>> \in Seq({e})
    OBVIOUS
  <2> QED BY <2>1 DEF Remembering!Only
<1> DEFINE one == Remembering!Only(e, e \in set)
<1>4. one \in Seq({e})
  BY <1>3
<1> HIDE DEF one
<1>5. Remembering!FlattenSeq(<<one>>) = one /\ Remembering!FlattenSeq(<<>>) = <<>>
  BY <1>4, FlatFew
<1>6. Remembering!Those(<<e>>, set) = Remembering!FlattenSeq(<<one>>)
  BY <1>1 DEF Remembering!Those, one
<1>7. Remembering!Those(<<>>, set) = Remembering!FlattenSeq(<<>>)
  BY <1>2 DEF Remembering!Those
<1> QED BY <1>5, <1>6, <1>7 DEF one

(* All of a list that is in the set, and none of one that is not.           *)
LEMMA ThoseAllOrNone ==
    ASSUME NEW S, NEW s \in Seq(S), NEW set
    PROVE  /\ S \subseteq set => Remembering!Those(s, set) = s
           /\ S \cap set = {} => Remembering!Those(s, set) = <<>>
<1> DEFINE Good(l) == /\ S \subseteq set => Remembering!Those(l, set) = l
                      /\ S \cap set = {} => Remembering!Those(l, set) = <<>>
           bad == {n \in Nat : \E l \in Seq(S) : Len(l) = n /\ ~Good(l)}
<1>0. \A x, y \in Seq(S) : Remembering!Those(x \o y, set)
        = Remembering!Those(x, set) \o Remembering!Those(y, set)
  <2> SUFFICES ASSUME NEW x \in Seq(S), NEW y \in Seq(S)
               PROVE  Remembering!Those(x \o y, set)
                        = Remembering!Those(x, set) \o Remembering!Those(y, set)
    OBVIOUS
  <2> QED BY ThoseIs
<1>1. SUFFICES ASSUME bad # {} PROVE FALSE
  <2>1. Len(s) \in Nat
    BY LenProperties
  <2> QED BY <2>1
<1>2. PICK n \in bad : \A k \in bad : ~(<<k, n>> \in OpToRel(<, Nat))
  BY <1>1, WFMin, NatLessThanWellFounded
<1>3. PICK l \in Seq(S) : Len(l) = n /\ ~Good(l) /\ n \in Nat
  BY <1>2
<1>4. l # <<>>
  BY <1>3, ThoseOfOne
<1>5. PICK r \in Seq(S), e \in S : l = Append(r, e)
  BY <1>4, SequenceEmptyOrAppend
<1>6. Good(r)
  <2>1. Len(r) \in Nat /\ Len(l) = Len(r) + 1
    BY <1>5, LenProperties, AppendProperties
  <2>2. <<Len(r), n>> \in OpToRel(<, Nat)
    BY <1>3, <2>1 DEF OpToRel
  <2> QED BY <1>2, <2>1, <2>2
<1>7. l = r \o <<e>> /\ <<e>> \in Seq(S)
  BY <1>5, AppendIsConcat
<1>8. Remembering!Those(l, set) = Remembering!Those(r, set) \o Remembering!Only(e, e \in set)
  <2>1. Remembering!Those(r \o <<e>>, set)
          = Remembering!Those(r, set) \o Remembering!Those(<<e>>, set)
    <3> DEFINE one == <<e>>
    <3>1. one \in Seq(S) /\ r \in Seq(S)
      BY <1>7
    <3> HIDE DEF one, Good, bad
    <3>2. Remembering!Those(r \o one, set)
            = Remembering!Those(r, set) \o Remembering!Those(one, set)
      BY <1>0, <3>1
    <3> QED BY <3>2 DEF one
  <2>2. Remembering!Those(<<e>>, set) = Remembering!Only(e, e \in set)
    BY ThoseOfOne
  <2> QED BY <1>7, <2>1, <2>2
<1>9. Good(l)
  <2>1. S \subseteq set => Remembering!Those(l, set) = l
    BY <1>6, <1>7, <1>8 DEF Remembering!Only
  <2>2. S \cap set = {} => Remembering!Those(l, set) = <<>>
    BY <1>6, <1>8 DEF Remembering!Only
  <2> QED BY <2>1, <2>2
<1> QED BY <1>3, <1>9

(* Those of a list are in the set and of that list.                         *)
LEMMA ThoseAreIn ==
    ASSUME NEW S, NEW s \in Seq(S), NEW set
    PROVE  /\ Remembering!Those(s, set) \in Seq(S \cap set)
           /\ Remembering!Range(Remembering!Those(s, set)) \subseteq Remembering!Range(s)
<1> DEFINE l == Sifted(s, set)
           T == Remembering!Range(s) \cap S \cap set
           some == Remembering!Those(s, set)
<1>1. /\ l \in Seq(Seq(S)) /\ Len(l) = Len(s) /\ some = Remembering!FlattenSeq(l)
      /\ <<>> \in Seq(Seq(T))
      /\ \A k \in 1..Len(s) : l[k] = Remembering!Only(s[k], s[k] \in set)
  BY SiftedIs
<1>2. DOMAIN s = 1..Len(s) /\ Len(s) \in Nat
      /\ \A k \in 1..Len(s) : s[k] \in S /\ s[k] \in Remembering!Range(s)
  BY LenProperties, ElementOfSeq DEF Remembering!Range
<1> HIDE DEF l
<1>3. ASSUME NEW k \in 1..Len(s) PROVE l[k] \in Seq(T)
  <2>1. CASE s[k] \in set
    <3>1. s[k] \in T /\ l[k] = <<s[k]>>
      BY <1>1, <1>2, <2>1 DEF Remembering!Only
    <3> HIDE DEF T
    <3> QED BY <3>1
  <2>2. CASE s[k] \notin set
    <3>1. l[k] = <<>>
      BY <1>1, <2>2 DEF Remembering!Only
    <3> QED BY <3>1
  <2> QED BY <2>1, <2>2
<1>4. l \in [1..Len(s) -> Seq(T)]
  BY <1>1, <1>3, LenProperties
<1> HIDE DEF T, some
<1>5. l \in Seq(Seq(T))
  BY <1>2, <1>4
<1>6. some \in Seq(T)
  BY <1>1, <1>5, FlatConcat
<1>7. Remembering!Range(some) \subseteq Remembering!Range(s)
  <2>1. \A k \in DOMAIN some : some[k] \in T
    BY <1>6, LenProperties, ElementOfSeq
  <2> QED BY <2>1 DEF Remembering!Range, T
<1>8. some \in Seq(S \cap set)
  <2>1. T \subseteq S \cap set
    BY DEF T
  <2> QED BY <1>6, <2>1
<1> QED BY <1>7, <1>8 DEF some

(* Those of those are those of both.                                        *)
LEMMA ThoseOfThose ==
    ASSUME NEW S, NEW s \in Seq(S), NEW A, NEW B
    PROVE  Remembering!Those(Remembering!Those(s, A), B) = Remembering!Those(s, A \cap B)
<1> DEFINE Good(l) == Remembering!Those(Remembering!Those(l, A), B) = Remembering!Those(l, A \cap B)
           bad == {n \in Nat : \E l \in Seq(S) : Len(l) = n /\ ~Good(l)}
<1>0. ASSUME NEW x \in Seq(S), NEW y \in Seq(S)
      PROVE  Remembering!Those(x \o y, B) = Remembering!Those(x, B) \o Remembering!Those(y, B)
  BY ThoseIs
<1>1. SUFFICES ASSUME bad # {} PROVE FALSE
  <2>1. Len(s) \in Nat
    BY LenProperties
  <2> QED BY <2>1
<1>2. PICK n \in bad : \A k \in bad : ~(<<k, n>> \in OpToRel(<, Nat))
  BY <1>1, WFMin, NatLessThanWellFounded
<1>3. PICK l \in Seq(S) : Len(l) = n /\ ~Good(l) /\ n \in Nat
  BY <1>2
<1>4. l # <<>>
  BY <1>3, ThoseOfOne
<1>5. PICK r \in Seq(S), e \in S : l = Append(r, e)
  BY <1>4, SequenceEmptyOrAppend
<1>6. Good(r)
  <2>1. Len(r) \in Nat /\ Len(l) = Len(r) + 1
    BY <1>5, LenProperties, AppendProperties
  <2>2. <<Len(r), n>> \in OpToRel(<, Nat)
    BY <1>3, <2>1 DEF OpToRel
  <2> QED BY <1>2, <2>1, <2>2
<1>7. l = r \o <<e>> /\ <<e>> \in Seq(S)
  BY <1>5, AppendIsConcat
<1>8. \A set : Remembering!Those(l, set)
        = Remembering!Those(r, set) \o Remembering!Only(e, e \in set)
  <2> SUFFICES ASSUME NEW set
               PROVE  Remembering!Those(l, set)
                        = Remembering!Those(r, set) \o Remembering!Only(e, e \in set)
    OBVIOUS
  <2>1. Remembering!Those(r \o <<e>>, set)
          = Remembering!Those(r, set) \o Remembering!Those(<<e>>, set)
    <3> DEFINE one == <<e>>
    <3>1. one \in Seq(S) /\ r \in Seq(S)
      BY <1>7
    <3> HIDE DEF one, Good, bad
    <3>2. Remembering!Those(r \o one, set)
            = Remembering!Those(r, set) \o Remembering!Those(one, set)
      BY <3>1, ThoseIs
    <3> QED BY <3>2 DEF one
  <2>2. Remembering!Those(<<e>>, set) = Remembering!Only(e, e \in set)
    BY ThoseOfOne
  <2> QED BY <1>7, <2>1, <2>2
<1> DEFINE ra == Remembering!Those(r, A)
           ea == Remembering!Only(e, e \in A)
<1>9. ra \in Seq(S) /\ ea \in Seq(S)
  BY ThoseTyped DEF Remembering!Only
<1>10. Remembering!Those(ea, B) = Remembering!Only(e, e \in A \cap B)
  <2>1. CASE e \in A
    BY <2>1, ThoseOfOne DEF Remembering!Only
  <2>2. CASE e \notin A
    BY <2>2, ThoseOfOne DEF Remembering!Only
  <2> QED BY <2>1, <2>2
<1>11. Remembering!Those(l, A) = ra \o ea
  BY <1>8
<1> HIDE DEF ra, ea
<1>12. Remembering!Those(ra \o ea, B) = Remembering!Those(ra, B) \o Remembering!Those(ea, B)
  <2> HIDE DEF Good, bad
  <2> QED BY <1>0, <1>9
<1>13. Remembering!Those(ra, B) = Remembering!Those(r, A \cap B)
  BY <1>6 DEF ra
<1>14. Remembering!Those(l, A \cap B)
         = Remembering!Those(r, A \cap B) \o Remembering!Only(e, e \in A \cap B)
  BY <1>8
<1>15. Good(l)
  BY <1>10, <1>11, <1>12, <1>13, <1>14
<1> QED BY <1>3, <1>15

(* Lists that are sifted alike give the same.                               *)
LEMMA SiftedAlike ==
    ASSUME NEW l, NEW m, NEW set, DOMAIN l = DOMAIN m,
           \A k \in DOMAIN l : Remembering!Only(l[k], l[k] \in set)
             = Remembering!Only(m[k], m[k] \in set)
    PROVE  Remembering!Those(l, set) = Remembering!Those(m, set)
<1>1. [k \in DOMAIN l |-> Remembering!Only(l[k], l[k] \in set)]
      = [k \in DOMAIN m |-> Remembering!Only(m[k], m[k] \in set)]
  OBVIOUS
<1> QED BY <1>1 DEF Remembering!Those

-----------------------------------------------------------------------------
(* ChatHistory: what is written.                                           *)

(* The bounds of a history, and a session for each caller.                 *)
LEMMA HistoryBounds ==
    /\ MaxCalls \in Nat /\ Limit \in Nat /\ Remembering!Sessions = Callers
    /\ (CHOOSE s \in Remembering!Sessions : TRUE) \in Callers
<1>1. MaxCalls \in Nat /\ Limit \in Nat /\ Remembering!Sessions = Callers /\ Callers # {}
  BY BoundsAssumption DEF Remembering!Sessions
<1>2. PICK s : s \in Callers
  BY <1>1
<1> QED BY <1>1, <1>2

(* What is sure after a write.                                             *)
LEMMA SureIs ==
    ASSUME Remembering!TypeOK, NEW c \in Callers, NEW f \in BOOLEAN, Remembering!SureUnless(c, f)
    PROVE  /\ unsure' \in [Callers -> BOOLEAN] /\ session[c] \in Callers
           /\ \A z \in Callers \ {session[c]} : unsure'[z] = unsure[z]
           /\ unsure'[session[c]] <=> unsure[session[c]] \/ f \/ open \/ Remembering!Busy(c)
<1>1. session[c] \in Callers /\ unsure \in [Callers -> BOOLEAN] /\ open \in BOOLEAN
  BY HistoryBounds DEF Remembering!TypeOK
<1> DEFINE v == unsure[session[c]] \/ f \/ open \/ Remembering!Busy(c)
<1>2. v \in BOOLEAN
  OBVIOUS
<1>3. unsure' = [unsure EXCEPT ![session[c]] = v]
  BY DEF Remembering!SureUnless
<1> HIDE DEF v
<1>4. /\ unsure' \in [Callers -> BOOLEAN]
      /\ \A z \in Callers \ {session[c]} : unsure'[z] = unsure[z]
      /\ unsure'[session[c]] = v
  BY <1>1, <1>2, <1>3
<1> QED BY <1>1, <1>4 DEF v

(* The messages of a session and of the others are messages.               *)
LEMMA RowsAreRows ==
    ASSUME NEW s \in Callers
    PROVE  /\ Remembering!Row = Remembering!Rows(Callers, Remembering!Types)
           /\ Remembering!Rows({s}, Remembering!Types) \subseteq Remembering!Row
           /\ \A z \in Callers \ {s} :
                 Remembering!Rows({s}, Remembering!Types)
                    \cap Remembering!Rows({z}, Remembering!Types) = {}
           /\ \A m : m \in Seq(Remembering!Rows({s}, Remembering!Types))
                => m \in Seq(Remembering!Row)
<1>1. Remembering!Row = Remembering!Rows(Callers, Remembering!Types)
  BY HistoryBounds DEF Remembering!Row
<1>2. Remembering!Rows({s}, Remembering!Types) \subseteq Remembering!Row
  BY <1>1 DEF Remembering!Rows
<1>3. \A z \in Callers \ {s} :
         Remembering!Rows({s}, Remembering!Types) \cap Remembering!Rows({z}, Remembering!Types) = {}
  BY DEF Remembering!Rows
<1> DEFINE own == Remembering!Rows({s}, Remembering!Types)
           row == Remembering!Row
<1>4. own \subseteq row
  BY <1>2
<1> HIDE DEF own, row
<1>5. \A m : m \in Seq(own) => m \in Seq(row)
  BY <1>4
<1> QED BY <1>1, <1>2, <1>3, <1>5 DEF own, row

(* Of messages of a session all are kept by it and none by another.        *)
LEMMA KeptOfOwn ==
    ASSUME NEW s \in Callers, NEW m \in Seq(Remembering!Rows({s}, Remembering!Types))
    PROVE  /\ Remembering!KeptOf(m, s) = m
           /\ \A z \in Callers \ {s} : Remembering!KeptOf(m, z) = <<>>
<1> DEFINE own(z) == Remembering!Rows({z}, Remembering!Types)
<1>1. m \in Seq(own(s)) /\ \A z \in Callers \ {s} : own(s) \cap own(z) = {}
  BY RowsAreRows
<1>2. \A z : Remembering!KeptOf(m, z) = Remembering!Those(m, own(z))
  BY DEF Remembering!KeptOf
<1> HIDE DEF own
<1>3. Remembering!Those(m, own(s)) = m
  BY <1>1, ThoseAllOrNone
<1>4. ASSUME NEW z \in Callers \ {s} PROVE Remembering!Those(m, own(z)) = <<>>
  BY <1>1, ThoseAllOrNone
<1> QED BY <1>2, <1>3, <1>4

(* What is kept of messages of a session written after others.             *)
LEMMA KeptAfter ==
    ASSUME NEW all \in Seq(Remembering!Row), NEW s \in Callers,
           NEW m \in Seq(Remembering!Rows({s}, Remembering!Types))
    PROVE  /\ all \o m \in Seq(Remembering!Row) /\ m \in Seq(Remembering!Row)
           /\ Remembering!KeptOf(all \o m, s) = Remembering!KeptOf(all, s) \o m
           /\ \A z \in Callers \ {s} : Remembering!KeptOf(all \o m, z) = Remembering!KeptOf(all, z)
<1>1. m \in Seq(Remembering!Row)
  BY RowsAreRows
<1>2. all \o m \in Seq(Remembering!Row)
  BY <1>1, ConcatProperties
<1>3. ASSUME NEW z \in Callers
      PROVE  /\ Remembering!KeptOf(all \o m, z)
                  = Remembering!KeptOf(all, z) \o Remembering!KeptOf(m, z)
             /\ Remembering!KeptOf(all, z) \in Seq(Remembering!Row)
  <2> DEFINE row == Remembering!Row
             own == Remembering!Rows({z}, Remembering!Types)
  <2>1. all \in Seq(row) /\ m \in Seq(row)
    BY <1>1
  <2> HIDE DEF row, own
  <2>2. Remembering!Those(all \o m, own) = Remembering!Those(all, own) \o Remembering!Those(m, own)
    BY <2>1, ThoseIs
  <2>3. Remembering!Those(all, own) \in Seq(row)
    BY <2>1, ThoseTyped
  <2> QED BY <2>2, <2>3 DEF row, own, Remembering!KeptOf
<1>4. ASSUME NEW z \in Callers \ {s}
      PROVE  Remembering!KeptOf(all \o m, z) = Remembering!KeptOf(all, z)
  <2>1. Remembering!KeptOf(m, z) = <<>>
    BY <1>4, KeptOfOwn
  <2> QED BY <1>3, <2>1, ConcatEmptySeq
<1>5. Remembering!KeptOf(m, s) = m
  BY KeptOfOwn
<1> QED BY <1>1, <1>2, <1>3, <1>4, <1>5

(* What is kept of the messages of the others.                             *)
LEMMA KeptOfOthers ==
    ASSUME rows \in Seq(Remembering!Row), NEW s \in Callers
    PROVE  /\ Remembering!Others(s) \in Seq(Remembering!Row)
           /\ Remembering!KeptOf(Remembering!Others(s), s) = <<>>
           /\ \A z \in Callers \ {s} : Remembering!KeptOf(Remembering!Others(s), z)
                = Remembering!Kept(z)
<1> DEFINE others == Remembering!Rows(Remembering!Sessions \ {s}, Remembering!Types)
           own(z) == Remembering!Rows({z}, Remembering!Types)
<1>1. /\ Remembering!Others(s) = Remembering!Those(rows, others)
      /\ \A l, z : Remembering!KeptOf(l, z) = Remembering!Those(l, own(z))
      /\ \A z : Remembering!Kept(z) = Remembering!Those(rows, own(z))
  BY DEF Remembering!Others, Remembering!KeptOf, Remembering!Kept
<1>2. others \cap own(s) = {} /\ \A z \in Callers \ {s} : others \cap own(z) = own(z)
  BY HistoryBounds DEF Remembering!Rows
<1> HIDE DEF others, own
<1>3. \A B : Remembering!Those(Remembering!Those(rows, others), B)
        = Remembering!Those(rows, others \cap B)
  BY ThoseOfThose
<1>4. Remembering!Those(rows, {}) = <<>>
  <2>1. Remembering!Row \cap {} = {}
    OBVIOUS
  <2> QED BY <2>1, ThoseAllOrNone
<1>5. Remembering!Others(s) \in Seq(Remembering!Row)
  BY <1>1, ThoseTyped
<1> QED BY <1>1, <1>2, <1>3, <1>4, <1>5

\* What the steps of a caller leave of what is stored and told.
Saves(c) ==
    /\ rows' \in Seq(Remembering!Row) /\ saved' \in Seq(Remembering!Row) /\ open' \in BOOLEAN
    /\ said' \in [Callers -> Seq(Remembering!Row)] /\ unsure' \in [Callers -> BOOLEAN]
    /\ ~open' => rows' = saved'
    /\ \A z \in Callers \ {session[c]} :
          /\ said'[z] = said[z] /\ unsure'[z] = unsure[z]
          /\ Remembering!KeptOf(saved', z) = Remembering!KeptOf(saved, z)
    /\ ~unsure'[session[c]] =>
          /\ ~unsure[session[c]] /\ Remembering!KeptOf(saved', session[c]) = said'[session[c]]
          /\ said' = said \/ ~Remembering!Busy(c)

\* What they leave of what the callers do.
Hands(c) ==
    /\ UNCHANGED <<store, overwrite, session>> /\ call' \in 0..MaxCalls
    /\ pc' \in [Callers -> {"idle", "append", "insert", "answer"}]
    /\ held' \in [Callers -> Seq(Remembering!Row)]
    /\ outcome'.how \in {"ok", "error", "panic"} /\ outcome'.session \in Callers
    /\ \A d \in Callers \ {c} : pc'[d] = pc[d] /\ held'[d] = held[d]
    /\ held'[c] \in Seq(Remembering!Rows({session[c]}, Remembering!Types))
    /\ pc'[c] = "append" =>
          /\ held'[c] # <<>>
          /\ ~unsure'[session[c]] =>
                held'[c] = Append(said'[session[c]], Remembering!Last(held'[c]))
    /\ pc'[c] = "insert" /\ ~unsure'[session[c]] => said'[session[c]] = <<>>

\* Nothing is read.
Quiet == /\ outcome'.op \notin {"read", "load"}
         /\ outcome'.how = "panic" => store' = "zep" /\ outcome'.op = "add"

(* A step of a caller keeps the invariant of the history.                  *)
LEMMA StepKeeps ==
    ASSUME Remembering!IInv, NEW c \in Callers, Saves(c), Hands(c)
    PROVE  Remembering!IInv'
<1>0. Remembering!Sessions = Callers /\ UNCHANGED <<store, overwrite, session>>
      /\ session \in [Callers -> Callers]
      /\ pc \in [Callers -> {"idle", "append", "insert", "answer"}]
  BY HistoryBounds DEF Hands, Remembering!IInv, Remembering!TypeOK
<1>1. Remembering!TypeOK'
  BY <1>0 DEF Saves, Hands, Remembering!TypeOK, Remembering!IInv, Remembering!Stores,
     Remembering!SQL,
              Remembering!Row, Remembering!Rows, Remembering!Types, Remembering!Sessions
<1>2. Remembering!AllSaved'
  BY DEF Saves, Remembering!AllSaved
<1>3. Remembering!ToldIsSaved'
  <2> SUFFICES ASSUME NEW z \in Callers, ~unsure'[z]
               PROVE  Remembering!KeptOf(saved', z) = said'[z]
    BY <1>0 DEF Remembering!ToldIsSaved, Remembering!KeptOf, Remembering!Rows, Remembering!Types
  <2>1. CASE z = session[c]
    BY <2>1 DEF Saves
  <2>2. CASE z # session[c]
    <3>1. ~unsure[z] /\ Remembering!KeptOf(saved', z) = Remembering!KeptOf(saved, z)
          /\ said'[z] = said[z]
      BY <2>2 DEF Saves
    <3> QED BY <1>0, <3>1 DEF Remembering!IInv, Remembering!ToldIsSaved
  <2> QED BY <2>1, <2>2
<1>4. Remembering!HeldIsToCome'
  <2> SUFFICES ASSUME NEW d \in Callers
               PROVE  /\ held'[d] \in Seq(Remembering!Rows({session[d]}, Remembering!Types))
                      /\ pc'[d] = "append" =>
                            /\ held'[d] # <<>>
                            /\ ~unsure'[session[d]] =>
                                  held'[d] = Append(said'[session[d]], Remembering!Last(held'[d]))
                      /\ pc'[d] = "insert" /\ ~unsure'[session[d]] => said'[session[d]] = <<>>
    BY <1>0 DEF Remembering!HeldIsToCome, Remembering!Rows, Remembering!Types, Remembering!Last
  <2>1. CASE d = c
    BY <2>1 DEF Hands
  <2>2. CASE d # c
    <3>1. pc'[d] = pc[d] /\ held'[d] = held[d]
      BY <2>2 DEF Hands
    <3>2. /\ held[d] \in Seq(Remembering!Rows({session[d]}, Remembering!Types))
          /\ pc[d] = "append" =>
                /\ held[d] # <<>>
                /\ ~unsure[session[d]] => held[d]
                     = Append(said[session[d]], Remembering!Last(held[d]))
          /\ pc[d] = "insert" /\ ~unsure[session[d]] => said[session[d]] = <<>>
      BY DEF Remembering!IInv, Remembering!HeldIsToCome
    <3>3. ASSUME pc[d] # "idle", ~unsure'[session[d]]
          PROVE  ~unsure[session[d]] /\ said'[session[d]] = said[session[d]]
      <4>1. CASE session[d] = session[c]
        <5>1. Remembering!Busy(c)
          BY <2>2, <3>3, <4>1 DEF Remembering!Busy
        <5> QED BY <3>3, <4>1, <5>1 DEF Saves
      <4>2. CASE session[d] # session[c]
        <5>1. session[d] \in Callers
          BY <1>0
        <5> QED BY <3>3, <4>2, <5>1 DEF Saves
      <4> QED BY <4>1, <4>2
    <3>4. pc[d] = "append" /\ ~unsure'[session[d]] =>
             held[d] = Append(said'[session[d]], Remembering!Last(held[d]))
      BY <3>2, <3>3
    <3>5. pc[d] = "insert" /\ ~unsure'[session[d]] => said'[session[d]] = <<>>
      BY <3>2, <3>3
    <3> QED BY <3>1, <3>2, <3>4, <3>5
  <2> QED BY <2>1, <2>2
<1> QED BY <1>1, <1>2, <1>3, <1>4 DEF Remembering!IInv

(* What is written is saved, unless a transaction is open.                 *)
LEMMA WrittenSaves ==
    ASSUME Remembering!IInv, NEW c \in Callers, NEW f \in BOOLEAN, NEW all \in Seq(Remembering!Row),
           Remembering!Writes(all), open' = open, Remembering!SureUnless(c, f),
           said' \in [Callers -> Seq(Remembering!Row)],
           \A z \in Callers \ {session[c]} : /\ said'[z] = said[z]
                                             /\ Remembering!KeptOf(all, z) = Remembering!Kept(z),
           ~f /\ ~unsure[session[c]] => Remembering!KeptOf(all, session[c]) = said'[session[c]]
    PROVE  Saves(c)
<1>1. /\ unsure' \in [Callers -> BOOLEAN] /\ session[c] \in Callers
      /\ \A z \in Callers \ {session[c]} : unsure'[z] = unsure[z]
      /\ unsure'[session[c]] <=> unsure[session[c]] \/ f \/ open \/ Remembering!Busy(c)
  BY SureIs DEF Remembering!IInv
<1>2. /\ rows' = all /\ saved' = IF open THEN saved ELSE all
      /\ open \in BOOLEAN /\ saved \in Seq(Remembering!Row)
      /\ ~open => rows = saved
  BY DEF Remembering!Writes, Remembering!IInv, Remembering!TypeOK, Remembering!AllSaved
<1>3. ASSUME NEW z \in Callers \ {session[c]}
      PROVE  Remembering!KeptOf(saved', z) = Remembering!KeptOf(saved, z)
  BY <1>2 DEF Remembering!Kept
<1> QED BY <1>1, <1>2, <1>3 DEF Saves

(* What is not written leaves what was told.                               *)
LEMMA UnwrittenSaves ==
    ASSUME Remembering!IInv, NEW c \in Callers, UNCHANGED <<rows, saved, open, said>>,
           \/ unsure' = unsure
           \/ \E f \in BOOLEAN : Remembering!SureUnless(c, f)
    PROVE  Saves(c)
<1>1. /\ Remembering!TypeOK /\ Remembering!AllSaved /\ Remembering!ToldIsSaved
      /\ session[c] \in Callers /\ Remembering!Sessions = Callers
  BY HistoryBounds DEF Remembering!IInv, Remembering!TypeOK
<1>2. /\ unsure' \in [Callers -> BOOLEAN]
      /\ \A z \in Callers \ {session[c]} : unsure'[z] = unsure[z]
      /\ ~unsure'[session[c]] => ~unsure[session[c]]
  <2>1. CASE unsure' = unsure
    BY <1>1, <2>1 DEF Remembering!TypeOK
  <2>2. CASE \E f \in BOOLEAN : Remembering!SureUnless(c, f)
    <3>1. PICK f \in BOOLEAN : Remembering!SureUnless(c, f)
      BY <2>2
    <3> QED BY <1>1, <3>1, SureIs
  <2> QED BY <2>1, <2>2
<1>3. ~unsure[session[c]] => Remembering!KeptOf(saved, session[c]) = said[session[c]]
  BY <1>1 DEF Remembering!ToldIsSaved
<1>4. /\ rows \in Seq(Remembering!Row) /\ saved \in Seq(Remembering!Row) /\ open \in BOOLEAN
      /\ said \in [Callers -> Seq(Remembering!Row)] /\ (~open => rows = saved)
  BY <1>1 DEF Remembering!TypeOK, Remembering!AllSaved
<1> QED BY <1>1, <1>2, <1>3, <1>4 DEF Saves

-----------------------------------------------------------------------------
(* ChatHistory: the steps of a caller.                                     *)

(* Where a call ends nothing is in hand.                                   *)
LEMMA EndsHands ==
    ASSUME Remembering!IInv, NEW c \in Callers, NEW op, NEW how \in {"ok", "error", "panic"},
           Remembering!Ends(c, op, how), UNCHANGED <<store, overwrite, session>>,
             call' \in 0..MaxCalls
    PROVE  Hands(c) /\ outcome'.op = op /\ outcome'.how = how
<1>1. /\ pc \in [Callers -> {"idle", "append", "insert", "answer"}]
      /\ held \in [Callers -> Seq(Remembering!Row)]
      /\ session[c] \in Callers
  BY HistoryBounds DEF Remembering!IInv, Remembering!TypeOK
<1>2. /\ pc' = [pc EXCEPT ![c] = "idle"] /\ held' = [held EXCEPT ![c] = <<>>]
      /\ outcome' = [Remembering!Outcome EXCEPT !.op = op, !.session = session[c], !.how = how,
                        !.now = Remembering!KeptOf(rows', session[c])]
  BY DEF Remembering!Ends, Remembering!Goto
<1>3. outcome'.op = op /\ outcome'.how = how /\ outcome'.session = session[c]
  BY <1>2 DEF Remembering!Outcome
<1>4. <<>> \in Seq(Remembering!Row)
      /\ <<>> \in Seq(Remembering!Rows({session[c]}, Remembering!Types))
  OBVIOUS
<1>5. /\ pc' \in [Callers -> {"idle", "append", "insert", "answer"}] /\ pc'[c] = "idle"
      /\ \A d \in Callers \ {c} : pc'[d] = pc[d]
  BY <1>1, <1>2
<1>6. /\ held' \in [Callers -> Seq(Remembering!Row)] /\ held'[c] = <<>>
      /\ \A d \in Callers \ {c} : held'[d] = held[d]
  BY <1>1, <1>2, <1>4
<1> QED BY <1>1, <1>3, <1>4, <1>5, <1>6 DEF Hands

(* Where it goes on, what it has in hand is still to come.                 *)
LEMMA GoesHands ==
    ASSUME Remembering!IInv, NEW c \in Callers, NEW label \in {"append", "insert", "answer"},
           NEW m \in Seq(Remembering!Rows({session[c]}, Remembering!Types)),
           Remembering!Goto(c, label), held' = [held EXCEPT ![c] = m],
           outcome' = Remembering!Outcome,
           UNCHANGED <<store, overwrite, session>>, call' \in 0..MaxCalls,
           label = "append" =>
              /\ m # <<>>
              /\ ~unsure'[session[c]] => m = Append(said'[session[c]], Remembering!Last(m)),
           label = "insert" /\ ~unsure'[session[c]] => said'[session[c]] = <<>>
    PROVE  Hands(c) /\ Quiet
<1>1. /\ pc \in [Callers -> {"idle", "append", "insert", "answer"}]
      /\ held \in [Callers -> Seq(Remembering!Row)]
      /\ session[c] \in Callers
  BY HistoryBounds DEF Remembering!IInv, Remembering!TypeOK
<1>2. m \in Seq(Remembering!Row)
  BY <1>1, RowsAreRows
<1>3. outcome'.op = "none" /\ outcome'.how = "ok" /\ outcome'.session \in Callers
  BY HistoryBounds DEF Remembering!Outcome
<1>4. /\ pc' \in [Callers -> {"idle", "append", "insert", "answer"}] /\ pc'[c] = label
      /\ \A d \in Callers \ {c} : pc'[d] = pc[d]
  BY <1>1 DEF Remembering!Goto
<1>5. /\ held' \in [Callers -> Seq(Remembering!Row)] /\ held'[c] = m
      /\ \A d \in Callers \ {c} : held'[d] = held[d]
  BY <1>1, <1>2
<1>6. Quiet
  BY <1>3 DEF Quiet
<1> QED BY <1>3, <1>4, <1>5, <1>6 DEF Hands

(* New messages are of the session of who writes them.                     *)
LEMMA RowsOfIs ==
    ASSUME Remembering!IInv, NEW c \in Callers, Remembering!Starts(c),
           NEW types \in Seq(Remembering!Types), Len(types) <= 2
    PROVE  /\ Remembering!RowsOf(c, types)
                \in Seq(Remembering!Rows({session[c]}, Remembering!Types))
           /\ Len(Remembering!RowsOf(c, types)) = Len(types) /\ call' \in 0..MaxCalls
           /\ \A k \in 1..Len(types) : /\ Remembering!RowsOf(c, types)[k].session = session[c]
                                       /\ Remembering!RowsOf(c, types)[k].call \in 1..MaxCalls
<1>1. call \in 0..MaxCalls /\ call < MaxCalls /\ call' = call + 1 /\ MaxCalls \in Nat
  BY HistoryBounds DEF Remembering!IInv, Remembering!TypeOK, Remembering!Starts
<1>2. call + 1 \in 1..MaxCalls /\ call' \in 0..MaxCalls
  BY <1>1
<1>3. Len(types) \in Nat /\ DOMAIN types = 1..Len(types)
      /\ \A k \in 1..Len(types) : types[k] \in Remembering!Types
  BY LenProperties, ElementOfSeq
<1> DEFINE new == Remembering!RowsOf(c, types)
           own == Remembering!Rows({session[c]}, Remembering!Types)
<1>4. \A k \in 1..Len(types) : k \in 1..2
  BY <1>3
<1>5. new = [k \in 1..Len(types) |->
                [session |-> session[c], type |-> types[k], call |-> call + 1, at |-> k]]
  BY <1>3 DEF Remembering!RowsOf
<1>6. \A k \in 1..Len(types) : new[k] \in own /\ new[k].session = session[c]
                             /\ new[k].call \in 1..MaxCalls
  BY <1>2, <1>3, <1>4, <1>5 DEF Remembering!Rows
<1>7. DOMAIN new = 1..Len(types)
  BY <1>5
<1>8. new \in [1..Len(types) -> own]
  BY <1>5, <1>6
<1> HIDE DEF new, own
<1>9. new \in Seq(own)
  BY <1>3, <1>8
<1>10. Len(new) = Len(types)
  BY <1>3, <1>7, <1>9, LenProperties
<1> QED BY <1>2, <1>6, <1>9, <1>10 DEF new, own

(* One message, and the lists of them.                                     *)
LEMMA ListsAre ==
    /\ \A type \in Remembering!Types : <<type>> \in Seq(Remembering!Types) /\ Len(<<type>>) = 1
    /\ \A list \in Remembering!Lists : list \in Seq(Remembering!Types) /\ Len(list) <= 2
BY DEF Remembering!Types, Remembering!Lists

(* What a session is told.                                                 *)
LEMMA ToldIs ==
    ASSUME Remembering!IInv, NEW c \in Callers, NEW m \in Seq(Remembering!Row),
           Remembering!Told(c, m)
    PROVE  /\ said' \in [Callers -> Seq(Remembering!Row)] /\ said'[session[c]] = m
           /\ \A z \in Callers \ {session[c]} : said'[z] = said[z]
<1>1. said \in [Callers -> Seq(Remembering!Row)] /\ session[c] \in Callers
  BY HistoryBounds DEF Remembering!IInv, Remembering!TypeOK
<1> QED BY <1>1 DEF Remembering!Told

\* Where sure and saved, a session keeps what it was told.
Sure(s) == ~unsure[s] => /\ Remembering!KeptOf(saved, s) = said[s]
                         /\ ~open => Remembering!Kept(s) = said[s]

(* What is sure of the history.                                            *)
LEMMA SessionIs ==
    ASSUME Remembering!IInv, NEW c \in Callers
    PROVE  /\ session[c] \in Callers /\ Sure(session[c])
           /\ said[session[c]] \in Seq(Remembering!Row)
           /\ rows \in Seq(Remembering!Row) /\ saved \in Seq(Remembering!Row)
           /\ Remembering!Kept(session[c])
                \in Seq(Remembering!Rows({session[c]}, Remembering!Types))
           /\ Remembering!Kept(session[c]) \in Seq(Remembering!Row)
           /\ call \in 0..MaxCalls /\ open \in BOOLEAN
           /\ pc \in [Callers -> {"idle", "append", "insert", "answer"}]
           /\ held[c] \in Seq(Remembering!Rows({session[c]}, Remembering!Types))
<1>1. /\ session[c] \in Callers /\ said[session[c]] \in Seq(Remembering!Row)
      /\ rows \in Seq(Remembering!Row) /\ saved \in Seq(Remembering!Row)
      /\ call \in 0..MaxCalls /\ open \in BOOLEAN
      /\ pc \in [Callers -> {"idle", "append", "insert", "answer"}]
  BY HistoryBounds DEF Remembering!IInv, Remembering!TypeOK
<1>2. ~unsure[session[c]] => Remembering!KeptOf(saved, session[c]) = said[session[c]]
  BY <1>1, HistoryBounds DEF Remembering!IInv, Remembering!ToldIsSaved
<1>3. ~open => rows = saved
  BY DEF Remembering!IInv, Remembering!AllSaved
<1>4. Sure(session[c])
  BY <1>2, <1>3 DEF Sure, Remembering!Kept
<1> DEFINE own == Remembering!Rows({session[c]}, Remembering!Types)
           row == Remembering!Row
<1>5. own \subseteq row /\ Remembering!Kept(session[c]) = Remembering!Those(rows, own)
  BY <1>1, RowsAreRows DEF Remembering!Kept, Remembering!KeptOf
<1>6. row \cap own = own
  BY <1>5
<1> HIDE DEF own, row
<1>7. Remembering!Those(rows, own) \in Seq(own) /\ Remembering!Those(rows, own) \in Seq(row)
  <2>1. rows \in Seq(row)
    BY <1>1 DEF row
  <2>2. Remembering!Those(rows, own) \in Seq(row \cap own)
        /\ Remembering!Those(rows, own) \in Seq(row)
    BY <2>1, ThoseAreIn, ThoseTyped
  <2> QED BY <1>6, <2>2
<1>8. held[c] \in Seq(own)
  BY DEF Remembering!IInv, Remembering!HeldIsToCome, own
<1> QED BY <1>1, <1>4, <1>5, <1>7, <1>8 DEF own, row

(* Written after what there is.                                            *)
LEMMA AfterSaves ==
    ASSUME Remembering!IInv, NEW c \in Callers, NEW f \in BOOLEAN,
           NEW m \in Seq(Remembering!Rows({session[c]}, Remembering!Types)),
           Remembering!Writes(rows \o m), open' = open, Remembering!SureUnless(c, f),
           (f /\ said' = said) \/ Remembering!Told(c, said[session[c]] \o m)
    PROVE  Saves(c)
<1> DEFINE s == session[c]
           all == rows \o m
<1>1. /\ s \in Callers /\ Sure(s) /\ said[s] \in Seq(Remembering!Row)
      /\ rows \in Seq(Remembering!Row)
      /\ m \in Seq(Remembering!Rows({s}, Remembering!Types)) /\ open \in BOOLEAN
  BY SessionIs
<1>2. /\ all \in Seq(Remembering!Row) /\ m \in Seq(Remembering!Row)
      /\ Remembering!KeptOf(all, s) = Remembering!Kept(s) \o m
      /\ \A z \in Callers \ {s} : Remembering!KeptOf(all, z) = Remembering!Kept(z)
  BY <1>1, KeptAfter DEF Remembering!Kept
<1>3. said[s] \o m \in Seq(Remembering!Row)
  BY <1>1, <1>2, ConcatProperties
<1>4. /\ said' \in [Callers -> Seq(Remembering!Row)]
      /\ \A z \in Callers \ {s} : said'[z] = said[z]
      /\ f \/ said'[s] = said[s] \o m
  <2>1. CASE f /\ said' = said
    BY <2>1, HistoryBounds DEF Remembering!IInv, Remembering!TypeOK
  <2>2. CASE Remembering!Told(c, said[session[c]] \o m)
    BY <1>3, <2>2, ToldIs
  <2> QED BY <2>1, <2>2
<1>5. CASE open
  <2>1. /\ unsure' \in [Callers -> BOOLEAN] /\ unsure'[s]
        /\ \A z \in Callers \ {s} : unsure'[z] = unsure[z]
    BY <1>5, SureIs DEF Remembering!IInv
  <2>2. rows' = all /\ saved' = saved /\ saved \in Seq(Remembering!Row)
    BY <1>5, SessionIs DEF Remembering!Writes
  <2> HIDE DEF all
  <2> QED BY <1>2, <1>4, <1>5, <2>1, <2>2 DEF Saves
<1>6. CASE ~open
  <2>1. ~f /\ ~unsure[s] => Remembering!KeptOf(all, s) = said'[s]
    BY <1>1, <1>2, <1>4, <1>6 DEF Sure
  <2>2. all \in Seq(Remembering!Row) /\ Remembering!Writes(all)
    BY <1>2
  <2>3. /\ said' \in [Callers -> Seq(Remembering!Row)]
        /\ \A z \in Callers \ {session[c]} : /\ said'[z] = said[z]
                                             /\ Remembering!KeptOf(all, z) = Remembering!Kept(z)
    BY <1>2, <1>4
  <2> HIDE DEF all
  <2> QED BY <2>1, <2>2, <2>3, WrittenSaves
<1> QED BY <1>5, <1>6

(* Written instead of what the session had.                                *)
LEMMA OverSaves ==
    ASSUME Remembering!IInv, NEW c \in Callers, NEW f \in BOOLEAN,
           NEW m \in Seq(Remembering!Rows({session[c]}, Remembering!Types)),
           NEW t \in Seq(Remembering!Row),
           Remembering!Writes(Remembering!Others(session[c]) \o m), open' = open,
           Remembering!SureUnless(c, f),
           (f /\ said' = said) \/ Remembering!Told(c, t),
           f \/ unsure[session[c]] \/ t = m
    PROVE  Saves(c)
<1> DEFINE s == session[c]
           all == Remembering!Others(s) \o m
<1>1. /\ s \in Callers /\ rows \in Seq(Remembering!Row)
      /\ m \in Seq(Remembering!Rows({s}, Remembering!Types))
  BY SessionIs
<1>2. /\ Remembering!Others(s) \in Seq(Remembering!Row)
      /\ Remembering!KeptOf(Remembering!Others(s), s) = <<>>
      /\ \A z \in Callers \ {s} : Remembering!KeptOf(Remembering!Others(s), z) = Remembering!Kept(z)
  BY <1>1, KeptOfOthers
<1>3. /\ all \in Seq(Remembering!Row) /\ m \in Seq(Remembering!Row)
      /\ Remembering!KeptOf(all, s) = <<>> \o m
      /\ \A z \in Callers \ {s} : Remembering!KeptOf(all, z) = Remembering!Kept(z)
  <2> DEFINE o == Remembering!Others(s)
  <2>1. o \in Seq(Remembering!Row)
    BY <1>2
  <2> HIDE DEF o, s
  <2>2. /\ o \o m \in Seq(Remembering!Row) /\ m \in Seq(Remembering!Row)
        /\ Remembering!KeptOf(o \o m, s) = Remembering!KeptOf(o, s) \o m
        /\ \A z \in Callers \ {s} : Remembering!KeptOf(o \o m, z) = Remembering!KeptOf(o, z)
    BY <1>1, <2>1, KeptAfter
  <2> QED BY <1>2, <2>2 DEF o
<1>4. Remembering!KeptOf(all, s) = m
  BY <1>3, ConcatEmptySeq
<1>5. /\ said' \in [Callers -> Seq(Remembering!Row)]
      /\ \A z \in Callers \ {s} : said'[z] = said[z]
      /\ f \/ said'[s] = t
  <2>1. CASE f /\ said' = said
    BY <2>1, HistoryBounds DEF Remembering!IInv, Remembering!TypeOK
  <2>2. CASE Remembering!Told(c, t)
    BY <2>2, ToldIs
  <2> QED BY <2>1, <2>2
<1>6. ~f /\ ~unsure[session[c]] => Remembering!KeptOf(all, session[c]) = said'[session[c]]
  BY <1>4, <1>5
<1>7. /\ all \in Seq(Remembering!Row) /\ Remembering!Writes(all)
      /\ \A z \in Callers \ {session[c]} : /\ said'[z] = said[z]
                                           /\ Remembering!KeptOf(all, z) = Remembering!Kept(z)
  BY <1>3, <1>5
<1> HIDE DEF all
<1> QED BY <1>5, <1>6, <1>7, WrittenSaves

(* AddMessage of the memory, read and then written over the others.         *)
LEMMA MemoryAdds ==
    ASSUME Remembering!IInv, NEW c \in Callers, Remembering!MemoryAdd(c)
    PROVE  Saves(c) /\ Hands(c) /\ Quiet
<1> DEFINE s == session[c]
<1>1. PICK type \in Remembering!Types :
         /\ Remembering!Starts(c)
         /\ held' = [held EXCEPT ![c] = Remembering!Kept(s) \o Remembering!RowsOf(c, <<type>>)]
         /\ Remembering!Goto(c, "append") /\ Remembering!SureUnless(c, FALSE)
         /\ outcome' = Remembering!Outcome
         /\ UNCHANGED <<store, overwrite, session, rows, saved, open, said>>
  BY DEF Remembering!MemoryAdd
<1>2. Saves(c)
  <2>1. \E f \in BOOLEAN : Remembering!SureUnless(c, f)
    BY <1>1
  <2> QED BY <1>1, <2>1, UnwrittenSaves
<1> DEFINE new == Remembering!RowsOf(c, <<type>>)
           own == Remembering!Rows({s}, Remembering!Types)
           kept == Remembering!Kept(s)
<1>3. new \in Seq(own) /\ Len(new) = 1 /\ call' \in 0..MaxCalls
  <2> DEFINE one == <<type>>
  <2>1. one \in Seq(Remembering!Types) /\ Len(one) = 1 /\ Len(one) <= 2
    BY ListsAre
  <2>2. Remembering!Starts(c)
    BY <1>1
  <2> HIDE DEF one
  <2>3. /\ Remembering!RowsOf(c, one) \in Seq(Remembering!Rows({session[c]}, Remembering!Types))
        /\ Len(Remembering!RowsOf(c, one)) = Len(one) /\ call' \in 0..MaxCalls
    BY <2>1, <2>2, RowsOfIs
  <2> QED BY <2>1, <2>3 DEF one
<1>4. kept \in Seq(own) /\ s \in Callers /\ Sure(s)
  BY SessionIs
<1>5. ~unsure'[s] => kept = said'[s]
  <2>1. ~unsure'[s] => ~unsure[s] /\ ~open
    BY <1>1, SureIs DEF Remembering!IInv
  <2> QED BY <1>1, <1>4, <2>1 DEF Sure
<1> HIDE DEF new, own, kept, s
<1>6. new = <<new[1]>> /\ new[1] \in own
  BY <1>3
<1>7. /\ kept \o new \in Seq(own) /\ kept \o new = Append(kept, new[1])
      /\ Len(kept \o new) = Len(kept) + 1 /\ Len(kept) \in Nat
      /\ (kept \o new)[Len(kept) + 1] = new[1]
  <2>1. kept \o new \in Seq(own) /\ Len(kept) \in Nat
    BY <1>3, <1>4, ConcatProperties, LenProperties
  <2>2. kept \o <<new[1]>> = Append(kept, new[1])
    BY <1>4, <1>6, AppendIsConcat
  <2>3. kept \o new = Append(kept, new[1])
    BY <1>6, <2>2
  <2>4. Len(Append(kept, new[1])) = Len(kept) + 1 /\ Append(kept, new[1])[Len(kept) + 1] = new[1]
    BY <1>4, <1>6, <2>1, AppendProperties
  <2> QED BY <2>1, <2>3, <2>4
<1>8. Remembering!Last(kept \o new) = new[1] /\ kept \o new # <<>>
  <2>1. Remembering!Last(kept \o new) = new[1]
    BY <1>7 DEF Remembering!Last
  <2>2. Len(kept \o new) # 0
    BY <1>7
  <2> QED BY <1>7, <2>1, <2>2, EmptySeq
<1>9. ~unsure'[s] => kept \o new = Append(said'[s], Remembering!Last(kept \o new))
  BY <1>5, <1>7, <1>8
<1>10. Hands(c) /\ Quiet
  <2> DEFINE m == kept \o new
  <2>1. /\ m \in Seq(Remembering!Rows({session[c]}, Remembering!Types)) /\ m # <<>>
        /\ ~unsure'[session[c]] => m = Append(said'[session[c]], Remembering!Last(m))
    BY <1>7, <1>8, <1>9 DEF own, s
  <2>2. held' = [held EXCEPT ![c] = m]
    BY <1>1 DEF kept, new, s
  <2> HIDE DEF m
  <2> QED BY <1>1, <1>3, <2>1, <2>2, GoesHands
<1> QED BY <1>2, <1>10

\* Its second part writes them.
LEMMA AppendsThem ==
    ASSUME Remembering!IInv, NEW c \in Callers, Remembering!Appends(c)
    PROVE  Saves(c) /\ Hands(c) /\ Quiet
<1> DEFINE m == held[c]
           t == Append(said[session[c]], Remembering!Last(held[c]))
<1>1. /\ pc[c] = "append" /\ Remembering!Writes(Remembering!Others(session[c]) \o m)
      /\ Remembering!Told(c, t) /\ Remembering!SureUnless(c, FALSE)
      /\ Remembering!Ends(c, "add", "ok")
      /\ UNCHANGED <<store, overwrite, session, open, call>>
  BY DEF Remembering!Appends
<1>2. /\ m \in Seq(Remembering!Rows({session[c]}, Remembering!Types)) /\ m # <<>>
      /\ unsure[session[c]] \/ t = m
  BY <1>1 DEF Remembering!IInv, Remembering!HeldIsToCome
<1>3. said[session[c]] \in Seq(Remembering!Row) /\ session[c] \in Callers /\ call \in 0..MaxCalls
  BY SessionIs
<1>4. t \in Seq(Remembering!Row)
  <2>1. m \in Seq(Remembering!Row)
    BY <1>2, <1>3, RowsAreRows
  <2>2. Len(m) \in 1..Len(m)
    BY <1>2, <2>1, LenProperties, EmptySeq
  <2>3. Remembering!Last(m) \in Remembering!Row
    BY <2>1, <2>2, ElementOfSeq DEF Remembering!Last
  <2> QED BY <1>3, <2>3, AppendProperties
<1> HIDE DEF m, t
<1>5. Saves(c)
  BY <1>1, <1>2, <1>4, OverSaves
<1>6. Hands(c) /\ outcome'.op = "add" /\ outcome'.how = "ok"
  BY <1>1, <1>3, EndsHands
<1> QED BY <1>5, <1>6 DEF Quiet

(* One statement or request.                                               *)
LEMMA InsertsThem ==
    ASSUME Remembering!IInv, NEW c \in Callers, NEW types \in Seq(Remembering!Types),
           Len(types) <= 2,
           Remembering!Inserts(c, types)
    PROVE  Saves(c) /\ Hands(c) /\ Quiet
<1> DEFINE new == Remembering!RowsOf(c, types)
<1>1. /\ Remembering!Starts(c) /\ Remembering!Writes(rows \o new) /\ open' = open
      /\ Remembering!Told(c, said[session[c]] \o new) /\ Remembering!SureUnless(c, FALSE)
      /\ Remembering!Ends(c, "add", "ok") /\ UNCHANGED <<store, overwrite, session>>
  BY DEF Remembering!Inserts
<1>2. new \in Seq(Remembering!Rows({session[c]}, Remembering!Types)) /\ call' \in 0..MaxCalls
  BY <1>1, RowsOfIs
<1> HIDE DEF new
<1>3. Saves(c)
  BY <1>1, <1>2, AfterSaves
<1>4. Hands(c) /\ outcome'.op = "add" /\ outcome'.how = "ok"
  BY <1>1, <1>2, EndsHands
<1> QED BY <1>3, <1>4 DEF Quiet

(* AddMessage and AddMessages of the databases.                            *)
LEMMA StoresInsert ==
    ASSUME Remembering!IInv, NEW c \in Callers,
           \/ Remembering!SqliteAdd(c) \/ Remembering!MongoAdd(c) \/ Remembering!AlloyDBAdd(c)
           \/ Remembering!CloudSQLAdd(c) \/ Remembering!AlloyDBAddMessages(c)
           \/ Remembering!CloudSQLAddMessages(c)
    PROVE  Saves(c) /\ Hands(c) /\ Quiet
<1>1. \/ \E type \in Remembering!Types : Remembering!Inserts(c, <<type>>)
      \/ \E list \in Remembering!Lists : Remembering!Inserts(c, list)
  BY DEF Remembering!SqliteAdd, Remembering!MongoAdd, Remembering!AlloyDBAdd,
     Remembering!CloudSQLAdd,
         Remembering!AlloyDBAddMessages, Remembering!CloudSQLAddMessages
<1>2. CASE \E type \in Remembering!Types : Remembering!Inserts(c, <<type>>)
  <2>1. PICK type \in Remembering!Types : Remembering!Inserts(c, <<type>>)
    BY <1>2
  <2>2. <<type>> \in Seq(Remembering!Types) /\ Len(<<type>>) <= 2
    BY ListsAre
  <2> QED BY <2>1, <2>2, InsertsThem
<1>3. CASE \E list \in Remembering!Lists : Remembering!Inserts(c, list)
  <2>1. PICK list \in Remembering!Lists : Remembering!Inserts(c, list)
    BY <1>3
  <2>2. list \in Seq(Remembering!Types) /\ Len(list) <= 2
    BY ListsAre
  <2> QED BY <2>1, <2>2, InsertsThem
<1> QED BY <1>1, <1>2, <1>3

(* AddMessage of zep, which may panic.                                     *)
LEMMA ZepAdds ==
    ASSUME Remembering!IInv, NEW c \in Callers, Remembering!ZepAdd(c)
    PROVE  Saves(c) /\ Hands(c) /\ Quiet
<1>1. PICK type \in Remembering!Types :
         \/ Remembering!Inserts(c, <<type>>)
         \/ /\ Remembering!Starts(c) /\ Remembering!WritesNothing
            /\ Remembering!Ends(c, "add", "panic")
            /\ UNCHANGED <<store, overwrite, session, said, unsure>>
  BY DEF Remembering!ZepAdd
<1>2. CASE Remembering!Inserts(c, <<type>>)
  <2>1. <<type>> \in Seq(Remembering!Types) /\ Len(<<type>>) <= 2
    BY ListsAre
  <2> QED BY <1>2, <2>1, InsertsThem
<1>3. CASE /\ Remembering!Starts(c) /\ Remembering!WritesNothing
           /\ Remembering!Ends(c, "add", "panic")
           /\ UNCHANGED <<store, overwrite, session, said, unsure>>
  <2>1. call' \in 0..MaxCalls
    <3>1. call \in 0..MaxCalls /\ call < MaxCalls /\ call' = call + 1 /\ MaxCalls \in Nat
      BY <1>3, HistoryBounds, SessionIs DEF Remembering!Starts
    <3> QED BY <3>1
  <2>2. Saves(c)
    BY <1>3, UnwrittenSaves DEF Remembering!WritesNothing
  <2>3. Hands(c) /\ outcome'.op = "add" /\ outcome'.how = "panic"
    BY <1>3, <2>1, EndsHands
  <2>4. store' = "zep"
    BY <1>3 DEF Remembering!ZepAdd
  <2> QED BY <2>2, <2>3, <2>4 DEF Quiet
<1> QED BY <1>1, <1>2, <1>3

(* A message that is not reached, or whose reply is not.                   *)
LEMMA FailsToAdd ==
    ASSUME Remembering!IInv, NEW c \in Callers, Remembering!AddFails(c)
    PROVE  Saves(c) /\ Hands(c) /\ Quiet
<1> DEFINE one == <<"human">>
           new == Remembering!RowsOf(c, one)
<1>1. /\ Remembering!Starts(c) /\ Remembering!SureUnless(c, TRUE)
      /\ Remembering!Ends(c, "add", "error")
      /\ UNCHANGED <<store, overwrite, session, open, said>>
      /\ Remembering!Writes(rows \o new) \/ UNCHANGED <<rows, saved>>
  BY DEF Remembering!AddFails
<1>2. one \in Seq(Remembering!Types) /\ Len(one) <= 2
  BY DEF Remembering!Types
<1> HIDE DEF one
<1>3. new \in Seq(Remembering!Rows({session[c]}, Remembering!Types)) /\ call' \in 0..MaxCalls
  BY <1>1, <1>2, RowsOfIs
<1> HIDE DEF new
<1>4. Saves(c)
  <2>1. CASE Remembering!Writes(rows \o new)
    BY <1>1, <1>3, <2>1, AfterSaves
  <2>2. CASE UNCHANGED <<rows, saved>>
    <3>1. \E f \in BOOLEAN : Remembering!SureUnless(c, f)
      BY <1>1
    <3> QED BY <1>1, <2>2, <3>1, UnwrittenSaves
  <2> QED BY <1>1, <2>1, <2>2
<1>5. Hands(c) /\ outcome'.op = "add" /\ outcome'.how = "error"
  BY <1>1, <1>3, EndsHands
<1> QED BY <1>4, <1>5 DEF Quiet

(* The element after the end of a list is the one that is put behind it.   *)
LEMMA OneBehind ==
    ASSUME NEW S, NEW s \in Seq(S), NEW t \in Seq(S), Len(t) = 1
    PROVE  /\ Len(s) \in Nat /\ Len(s \o t) = Len(s) + 1
           /\ (s \o t)[Len(s) + 1] = t[1]
<1>1. Len(s) \in Nat
  BY LenProperties
<1>2. Len(s \o t) = Len(s) + 1
  BY ConcatProperties
<1>3. (s \o t)[Len(s) + 1] = t[1]
  <2> DEFINE n == Len(s) + 1
             st == s \o t
  <2>1. n \in 1..(Len(s) + Len(t)) /\ ~(n <= Len(s)) /\ n - Len(s) = 1
    BY <1>1
  <2>2. \A i \in 1..(Len(s) + Len(t)) :
            st[i] = IF i <= Len(s) THEN s[i] ELSE t[i - Len(s)]
    BY ConcatProperties
  <2> HIDE DEF n, st
  <2>3. st[n] = IF n <= Len(s) THEN s[n] ELSE t[n - Len(s)]
    BY <2>1, <2>2
  <2>4. st[n] = t[n - Len(s)]
    BY <2>1, <2>3, Zenon
  <2>5. st[n] = t[1]
    BY <2>1, <2>4, Zenon
  <2> QED BY <2>5 DEF n, st
<1> QED BY <1>1, <1>2, <1>3

(* SaveContext of zep, its question and its answer.                        *)
LEMMA SavesContext ==
    ASSUME Remembering!IInv, NEW c \in Callers,
           Remembering!SaveContext(c) \/ Remembering!SaveContextEnds(c)
    PROVE  Saves(c) /\ Hands(c) /\ Quiet
<1> DEFINE own == Remembering!Rows({session[c]}, Remembering!Types)
<1>1. CASE Remembering!SaveContext(c)
  <2> DEFINE one == <<"human">>
             new == Remembering!RowsOf(c, one)
             next == [Remembering!Last(rows') EXCEPT !.type = "ai", !.at = 2]
             m == <<next>>
  <2>1. /\ Remembering!Starts(c) /\ Remembering!Writes(rows \o new) /\ open' = open
        /\ Remembering!Told(c, said[session[c]] \o new) /\ Remembering!SureUnless(c, FALSE)
        /\ held' = [held EXCEPT ![c] = m] /\ Remembering!Goto(c, "answer")
        /\ outcome' = Remembering!Outcome /\ UNCHANGED <<store, overwrite, session>>
    BY <1>1 DEF Remembering!SaveContext
  <2>2. one \in Seq(Remembering!Types) /\ Len(one) <= 2 /\ Len(one) = 1
    BY DEF Remembering!Types
  <2> HIDE DEF one
  <2>3. new \in Seq(own) /\ Len(new) = 1 /\ call' \in 0..MaxCalls
    BY <2>1, <2>2, RowsOfIs
  <2> HIDE DEF new
  <2>4. Saves(c)
    BY <2>1, <2>3, AfterSaves
  <2>5. next \in own
    <3>1. rows \in Seq(Remembering!Row) /\ session[c] \in Callers /\ own \subseteq Remembering!Row
      BY SessionIs, RowsAreRows
    <3>2. new \in Seq(Remembering!Row)
      BY <2>3, <3>1, RowsAreRows
    <3>3. /\ Len(rows) \in Nat /\ Len(rows \o new) = Len(rows) + 1
          /\ (rows \o new)[Len(rows) + 1] = new[1]
      BY <2>3, <3>1, <3>2, OneBehind
    <3>4. rows' = rows \o new
      BY <2>1 DEF Remembering!Writes
    <3>5. Remembering!Last(rows') = new[1]
      BY <3>3, <3>4 DEF Remembering!Last
    <3>6. new[1] \in own
      BY <2>3, ElementOfSeq
    <3>7. ASSUME NEW r \in own PROVE [r EXCEPT !.type = "ai", !.at = 2] \in own
      <4> DEFINE ai == [r EXCEPT !.type = "ai"]
      <4>1. 2 \in 1..2 /\ "ai" \in Remembering!Types
        BY DEF Remembering!Types
      <4>2. ai \in own
        BY <4>1 DEF Remembering!Rows
      <4> HIDE DEF ai
      <4>3. [ai EXCEPT !.at = 2] \in own
        BY <4>1, <4>2 DEF Remembering!Rows
      <4> QED BY <4>3 DEF ai
    <3> HIDE DEF own
    <3> QED BY <3>5, <3>6, <3>7
  <2> HIDE DEF next, own
  <2>6. m \in Seq(own)
    BY <2>5
  <2> HIDE DEF m
  <2>7. Hands(c) /\ Quiet
    BY <2>1, <2>3, <2>6, GoesHands DEF own
  <2> QED BY <2>4, <2>7
<1>2. CASE Remembering!SaveContextEnds(c)
  <2> DEFINE m == held[c]
  <2>1. \E how \in {"ok", "error"} :
           /\ Remembering!Ends(c, "save", how)
           /\ IF how = "ok"
              THEN Remembering!Writes(rows \o m) /\ Remembering!Told(c, said[session[c]] \o m)
              ELSE UNCHANGED <<rows, saved, said>>
    BY <1>2 DEF Remembering!SaveContextEnds
  <2>2. PICK how \in {"ok", "error"} :
           /\ Remembering!Ends(c, "save", how)
           /\ IF how = "ok"
              THEN Remembering!Writes(rows \o m) /\ Remembering!Told(c, said[session[c]] \o m)
              ELSE UNCHANGED <<rows, saved, said>>
    BY <2>1
  <2>3. Remembering!SureUnless(c, FALSE) /\ UNCHANGED <<store, overwrite, session, open, call>>
    BY <1>2 DEF Remembering!SaveContextEnds
  <2>4. m \in Seq(Remembering!Rows({session[c]}, Remembering!Types)) /\ call \in 0..MaxCalls
    BY SessionIs
  <2> HIDE DEF m
  <2>5. Saves(c)
    <3>1. CASE how = "ok"
      BY <2>2, <2>3, <2>4, <3>1, AfterSaves
    <3>2. CASE how = "error"
      <4>1. \E f \in BOOLEAN : Remembering!SureUnless(c, f)
        BY <2>3
      <4> QED BY <2>2, <2>3, <3>2, <4>1, UnwrittenSaves
    <3> QED BY <3>1, <3>2
  <2>6. Hands(c) /\ outcome'.op = "save" /\ outcome'.how \in {"ok", "error"}
    BY <2>2, <2>3, <2>4, EndsHands
  <2> QED BY <2>5, <2>6 DEF Quiet
<1> QED BY <1>1, <1>2

(* Clear, and one that fails.                                              *)
LEMMA Clears ==
    ASSUME Remembering!IInv, NEW c \in Callers, Remembering!Clear(c) \/ Remembering!ClearFails(c)
    PROVE  Saves(c) /\ Hands(c) /\ Quiet
<1> DEFINE own == Remembering!Rows({session[c]}, Remembering!Types)
           none == <<>>
           others == Remembering!Others(session[c])
<1>1. \E f \in BOOLEAN, how \in {"ok", "error"} :
         /\ Remembering!SureUnless(c, f) /\ Remembering!Ends(c, "clear", how)
         /\ \/ Remembering!Writes(others) /\ (Remembering!Told(c, none) \/ (f /\ said' = said))
            \/ UNCHANGED <<rows, saved, said>>
  <2>1. CASE Remembering!Clear(c)
    BY <2>1 DEF Remembering!Clear
  <2>2. CASE Remembering!ClearFails(c)
    BY <2>2 DEF Remembering!ClearFails
  <2> QED BY <2>1, <2>2
<1>2. PICK f \in BOOLEAN, how \in {"ok", "error"} :
         /\ Remembering!SureUnless(c, f) /\ Remembering!Ends(c, "clear", how)
         /\ \/ Remembering!Writes(others) /\ (Remembering!Told(c, none) \/ (f /\ said' = said))
            \/ UNCHANGED <<rows, saved, said>>
  BY <1>1
<1>3. Remembering!Starts(c) /\ UNCHANGED <<store, overwrite, session, open>>
  BY DEF Remembering!Clear, Remembering!ClearFails
<1>4. call' \in 0..MaxCalls
  <2>1. call \in 0..MaxCalls /\ call < MaxCalls /\ call' = call + 1 /\ MaxCalls \in Nat
    BY <1>3, HistoryBounds, SessionIs DEF Remembering!Starts
  <2> QED BY <2>1
<1>5. none \in Seq(own) /\ none \in Seq(Remembering!Row)
  OBVIOUS
<1>6. others \o none = others
  <2>1. others \in Seq(Remembering!Row)
    BY SessionIs, KeptOfOthers
  <2> QED BY <2>1, ConcatEmptySeq
<1>7. Saves(c)
  <2>1. CASE Remembering!Writes(others) /\ (Remembering!Told(c, none) \/ (f /\ said' = said))
    <3>1. Remembering!Writes(others \o none) /\ open' = open
      BY <1>3, <1>6, <2>1
    <3> HIDE DEF none
    <3> QED BY <1>2, <1>5, <2>1, <3>1, OverSaves DEF own
  <2>2. CASE UNCHANGED <<rows, saved, said>>
    <3>1. \E g \in BOOLEAN : Remembering!SureUnless(c, g)
      BY <1>2
    <3> QED BY <1>3, <2>2, <3>1, UnwrittenSaves
  <2> QED BY <1>2, <2>1, <2>2
<1>8. Hands(c) /\ outcome'.op = "clear" /\ outcome'.how \in {"ok", "error"}
  BY <1>2, <1>3, <1>4, EndsHands
<1> QED BY <1>7, <1>8 DEF Quiet

-----------------------------------------------------------------------------
(* ChatHistory: replacing the messages.                                    *)

(* A call that begins is counted.                                          *)
LEMMA StartsIs ==
    ASSUME Remembering!IInv, NEW c \in Callers, Remembering!Starts(c)
    PROVE  call' \in 0..MaxCalls
<1>1. call \in 0..MaxCalls /\ call < MaxCalls /\ call' = call + 1 /\ MaxCalls \in Nat
  BY HistoryBounds, SessionIs DEF Remembering!Starts
<1> QED BY <1>1

(* SetMessages that writes over what there was.                            *)
LEMMA ReplacesThem ==
    ASSUME Remembering!IInv, NEW c \in Callers, Remembering!Starts(c),
           NEW list \in Remembering!Lists, Remembering!Replaces(c, Remembering!RowsOf(c, list)),
           UNCHANGED <<store, overwrite, session>>
    PROVE  Saves(c) /\ Hands(c) /\ Quiet
<1> DEFINE m == Remembering!RowsOf(c, list)
<1>1. /\ Remembering!Writes(Remembering!Others(session[c]) \o m) /\ open' = open
      /\ Remembering!Told(c, m) /\ Remembering!SureUnless(c, FALSE)
      /\ Remembering!Ends(c, "set", "ok")
  BY DEF Remembering!Replaces
<1>2. list \in Seq(Remembering!Types) /\ Len(list) <= 2
  BY ListsAre
<1>3. m \in Seq(Remembering!Rows({session[c]}, Remembering!Types)) /\ call' \in 0..MaxCalls
  BY <1>2, RowsOfIs
<1>4. m \in Seq(Remembering!Row)
  <2>1. session[c] \in Callers
    BY SessionIs
  <2> HIDE DEF m
  <2> QED BY <1>3, <2>1, RowsAreRows
<1> HIDE DEF m
<1>5. Saves(c)
  BY <1>1, <1>3, <1>4, OverSaves
<1>6. Hands(c) /\ outcome'.op = "set" /\ outcome'.how = "ok"
  BY <1>1, <1>3, EndsHands
<1> QED BY <1>5, <1>6 DEF Quiet

(* SetMessages that does nothing.                                          *)
LEMMA NothingSet ==
    ASSUME Remembering!IInv, NEW c \in Callers, Remembering!Starts(c), NEW how \in {"ok", "error"},
           Remembering!WritesNothing, UNCHANGED <<said, unsure>>, Remembering!Ends(c, "set", how),
           UNCHANGED <<store, overwrite, session>>
    PROVE  Saves(c) /\ Hands(c) /\ Quiet
<1>1. call' \in 0..MaxCalls
  BY StartsIs
<1>2. Saves(c)
  BY UnwrittenSaves DEF Remembering!WritesNothing
<1>3. Hands(c) /\ outcome'.op = "set" /\ outcome'.how = how
  BY <1>1, EndsHands
<1> QED BY <1>2, <1>3 DEF Quiet

(* SetMessages of the memory, of zep and of sqlite3.                       *)
LEMMA SetsAtOnce ==
    ASSUME Remembering!IInv, NEW c \in Callers,
           Remembering!MemorySet(c) \/ Remembering!ZepSet(c) \/ Remembering!SqliteSet(c)
    PROVE  Saves(c) /\ Hands(c) /\ Quiet
<1>1. Remembering!Starts(c) /\ UNCHANGED <<store, overwrite, session>>
  BY DEF Remembering!MemorySet, Remembering!ZepSet, Remembering!SqliteSet
<1>2. \/ \E list \in Remembering!Lists : Remembering!Replaces(c, Remembering!RowsOf(c, list))
      \/ Remembering!Ignores(c)
      \/ /\ Remembering!WritesNothing /\ UNCHANGED <<said, unsure>>
         /\ Remembering!Ends(c, "set", "error")
      \/ ~open /\ \E deleted \in BOOLEAN : Remembering!SqliteSetFails(c, deleted)
  BY DEF Remembering!MemorySet, Remembering!ZepSet, Remembering!SqliteSet
<1>3. CASE \E list \in Remembering!Lists : Remembering!Replaces(c, Remembering!RowsOf(c, list))
  BY <1>1, <1>3, ReplacesThem
<1>4. CASE Remembering!Ignores(c)
  BY <1>1, <1>4, NothingSet DEF Remembering!Ignores
<1>5. CASE /\ Remembering!WritesNothing /\ UNCHANGED <<said, unsure>>
           /\ Remembering!Ends(c, "set", "error")
  BY <1>1, <1>5, NothingSet
<1>6. CASE ~open /\ \E deleted \in BOOLEAN : Remembering!SqliteSetFails(c, deleted)
  <2>1. PICK deleted \in BOOLEAN : Remembering!SqliteSetFails(c, deleted)
    BY <1>6
  <2>2. /\ rows' = IF deleted THEN Remembering!Others(session[c]) ELSE rows
        /\ open' = TRUE /\ UNCHANGED <<saved, said>> /\ Remembering!SureUnless(c, FALSE)
        /\ Remembering!Ends(c, "set", "error")
    BY <2>1 DEF Remembering!SqliteSetFails
  <2>3. /\ session[c] \in Callers /\ Sure(session[c]) /\ rows \in Seq(Remembering!Row)
        /\ saved \in Seq(Remembering!Row) /\ said \in [Callers -> Seq(Remembering!Row)]
    BY SessionIs, HistoryBounds DEF Remembering!IInv, Remembering!TypeOK
  <2>4. rows' \in Seq(Remembering!Row)
    BY <2>2, <2>3, KeptOfOthers
  <2>5. /\ unsure' \in [Callers -> BOOLEAN]
        /\ \A z \in Callers \ {session[c]} : unsure'[z] = unsure[z]
        /\ ~unsure'[session[c]] => ~unsure[session[c]]
    BY <2>2, SureIs DEF Remembering!IInv
  <2>6. Saves(c)
    BY <2>2, <2>3, <2>4, <2>5 DEF Saves, Sure
  <2>7. call' \in 0..MaxCalls
    BY <1>1, StartsIs
  <2>8. Hands(c) /\ outcome'.op = "set" /\ outcome'.how = "error"
    BY <1>1, <2>2, <2>7, EndsHands
  <2> QED BY <2>6, <2>8 DEF Quiet
<1> QED BY <1>2, <1>3, <1>4, <1>5, <1>6

(* SetMessages of the others deletes first.                                *)
LEMMA DeletesThem ==
    ASSUME Remembering!IInv, NEW c \in Callers,
           Remembering!MongoSet(c) \/ Remembering!AlloyDBSet(c) \/ Remembering!CloudSQLSet(c)
    PROVE  Saves(c) /\ Hands(c) /\ Quiet
<1> DEFINE none == <<>>
           others == Remembering!Others(session[c])
<1>1. Remembering!Deletes(c)
  BY DEF Remembering!MongoSet, Remembering!AlloyDBSet, Remembering!CloudSQLSet
<1>2. /\ Remembering!Starts(c) /\ Remembering!Writes(others) /\ open' = open
      /\ Remembering!Told(c, none)
      /\ \E list \in Remembering!Lists : held' = [held EXCEPT ![c] = Remembering!RowsOf(c, list)]
      /\ Remembering!Goto(c, "insert") /\ Remembering!SureUnless(c, FALSE)
      /\ outcome' = Remembering!Outcome /\ UNCHANGED <<store, overwrite, session>>
  BY <1>1 DEF Remembering!Deletes
<1>3. PICK list \in Remembering!Lists : held' = [held EXCEPT ![c] = Remembering!RowsOf(c, list)]
  BY <1>2
<1>4. none \in Seq(Remembering!Rows({session[c]}, Remembering!Types))
      /\ none \in Seq(Remembering!Row)
  OBVIOUS
<1>5. Remembering!Writes(others \o none)
  <2>1. others \in Seq(Remembering!Row)
    BY SessionIs, KeptOfOthers
  <2>2. others \o none = others
    BY <2>1, ConcatEmptySeq
  <2> QED BY <1>2, <2>2
<1>6. said'[session[c]] = <<>>
  BY <1>2, <1>4, ToldIs
<1> DEFINE m == Remembering!RowsOf(c, list)
<1>7. m \in Seq(Remembering!Rows({session[c]}, Remembering!Types)) /\ call' \in 0..MaxCalls
  <2>1. list \in Seq(Remembering!Types) /\ Len(list) <= 2
    BY ListsAre
  <2> QED BY <1>2, <2>1, RowsOfIs
<1>8. held' = [held EXCEPT ![c] = m]
  BY <1>3
<1> HIDE DEF none, m
<1>9. Saves(c)
  BY <1>2, <1>4, <1>5, OverSaves
<1>10. Hands(c) /\ Quiet
  BY <1>2, <1>6, <1>7, <1>8, GoesHands
<1> QED BY <1>9, <1>10

(* And inserts then, or fails to.                                          *)
LEMMA RefillsThem ==
    ASSUME Remembering!IInv, NEW c \in Callers, Remembering!Refills(c) \/ Remembering!RefillFails(c)
    PROVE  Saves(c) /\ Hands(c) /\ Quiet
<1> DEFINE own == Remembering!Rows({session[c]}, Remembering!Types)
           all == held[c]
<1>1. /\ all \in Seq(own) /\ call \in 0..MaxCalls /\ said[session[c]] \in Seq(Remembering!Row)
      /\ pc[c] = "insert" /\ UNCHANGED <<store, overwrite, session, open, call>>
  BY SessionIs DEF Remembering!Refills, Remembering!RefillFails
<1>2. CASE Remembering!Refills(c)
  <2>1. /\ Remembering!Writes(rows \o all) /\ Remembering!Told(c, all)
        /\ Remembering!SureUnless(c, FALSE) /\ Remembering!Ends(c, "set", "ok")
    BY <1>2 DEF Remembering!Refills
  <2>2. ~unsure[session[c]] => said[session[c]] = <<>>
    BY <1>1 DEF Remembering!IInv, Remembering!HeldIsToCome
  <2>3. /\ session[c] \in Callers /\ rows \in Seq(Remembering!Row) /\ Sure(session[c])
        /\ open \in BOOLEAN /\ saved \in Seq(Remembering!Row)
    BY SessionIs
  <2>4. all \in Seq(Remembering!Row)
    <3> HIDE DEF all
    <3> QED BY <1>1, <2>3, RowsAreRows DEF own
  <2>5. /\ said' \in [Callers -> Seq(Remembering!Row)] /\ said'[session[c]] = all
        /\ \A z \in Callers \ {session[c]} : said'[z] = said[z]
    BY <2>1, <2>4, ToldIs
  <2> HIDE DEF all
  <2>6. /\ rows \o all \in Seq(Remembering!Row)
        /\ Remembering!KeptOf(rows \o all, session[c]) = Remembering!Kept(session[c]) \o all
        /\ \A z \in Callers \ {session[c]} : Remembering!KeptOf(rows \o all, z)
             = Remembering!Kept(z)
    BY <1>1, <2>3, KeptAfter DEF Remembering!Kept, own
  <2>7. CASE open
    <3>1. /\ unsure' \in [Callers -> BOOLEAN] /\ unsure'[session[c]]
          /\ \A z \in Callers \ {session[c]} : unsure'[z] = unsure[z]
      BY <2>1, <2>7, SureIs DEF Remembering!IInv
    <3>2. rows' = rows \o all /\ saved' = saved
      BY <2>1, <2>7 DEF Remembering!Writes
    <3>3. Saves(c)
      BY <1>1, <2>3, <2>5, <2>6, <2>7, <3>1, <3>2 DEF Saves
    <3>4. Hands(c) /\ outcome'.op = "set" /\ outcome'.how = "ok"
      BY <1>1, <2>1, EndsHands
    <3> QED BY <3>3, <3>4 DEF Quiet
  <2>8. CASE ~open
    <3>1. ~unsure[session[c]] => Remembering!KeptOf(rows \o all, session[c]) = said'[session[c]]
      <4>1. <<>> \o all = all
        BY <2>4, ConcatEmptySeq
      <4> QED BY <2>2, <2>3, <2>5, <2>6, <2>8, <4>1 DEF Sure
    <3> DEFINE written == rows \o all
    <3>2. /\ written \in Seq(Remembering!Row) /\ Remembering!Writes(written)
          /\ ~unsure[session[c]] => Remembering!KeptOf(written, session[c]) = said'[session[c]]
          /\ \A z \in Callers \ {session[c]} : /\ said'[z] = said[z]
                                               /\ Remembering!KeptOf(written, z)
                                                    = Remembering!Kept(z)
      BY <2>1, <2>5, <2>6, <3>1
    <3> HIDE DEF written
    <3>3. Saves(c)
      BY <1>1, <2>1, <2>5, <3>2, WrittenSaves
    <3>4. Hands(c) /\ outcome'.op = "set" /\ outcome'.how = "ok"
      BY <1>1, <2>1, EndsHands
    <3> QED BY <3>3, <3>4 DEF Quiet
  <2> QED BY <2>7, <2>8
<1>3. CASE Remembering!RefillFails(c)
  <2>1. /\ Remembering!SureUnless(c, TRUE) /\ Remembering!Ends(c, "set", "error") /\ said' = said
        /\ \E n \in IF store = "mongo" THEN 0..Len(all) ELSE {0, Len(all)} :
              Remembering!Writes(rows \o SubSeq(all, 1, n))
    BY <1>3 DEF Remembering!RefillFails
  <2> HIDE DEF all, own
  <2>2. Len(all) \in Nat
    BY <1>1, LenProperties
  <2>3. PICK n \in 0..Len(all) : Remembering!Writes(rows \o SubSeq(all, 1, n))
    BY <2>1, <2>2
  <2> DEFINE m == SubSeq(all, 1, n)
  <2>4. m \in Seq(own)
    BY <1>1, <2>2, SubSeqProperties
  <2> HIDE DEF m
  <2>5. Remembering!Writes(rows \o m)
    BY <2>3 DEF m
  <2>6. Saves(c)
    BY <1>1, <2>1, <2>4, <2>5, AfterSaves DEF own
  <2>7. Hands(c) /\ outcome'.op = "set" /\ outcome'.how = "error"
    BY <1>1, <2>1, EndsHands
  <2> QED BY <2>6, <2>7 DEF Quiet
<1> QED BY <1>2, <1>3

-----------------------------------------------------------------------------
(* ChatHistory: what is read.                                              *)

\* The types of messages, with nil.
Anything == Remembering!Rows(Callers, Remembering!Types \cup {"nil"})
TalkRows == Remembering!Rows(Callers, {"human", "ai"})

(* What is said between a human and an AI, of a list of messages.          *)
LEMMA TalkIs ==
    /\ \A l : Remembering!Talk(l) = Remembering!Those(l, TalkRows)
    /\ \A r : Remembering!Only(r, r \in TalkRows) = IF r \in TalkRows THEN <<r>> ELSE <<>>
BY HistoryBounds DEF Remembering!Talk, TalkRows, Remembering!Only

(* The messages of a session, one by one.                                  *)
LEMMA KeptAre ==
    ASSUME Remembering!IInv, NEW c \in Callers
    PROVE  /\ DOMAIN Remembering!Kept(session[c]) = 1..Len(Remembering!Kept(session[c]))
           /\ Len(Remembering!Kept(session[c])) \in Nat
           /\ \A k \in DOMAIN Remembering!Kept(session[c]) :
                 /\ Remembering!Kept(session[c])[k] \in Remembering!Row
                 /\ Remembering!Kept(session[c])[k].session = session[c]
                 /\ Remembering!Kept(session[c])[k].type \in Remembering!Types
                 /\ Remembering!Kept(session[c])[k]
                      \in Remembering!Range(Remembering!Kept(session[c]))
<1> DEFINE kept == Remembering!Kept(session[c])
           own == Remembering!Rows({session[c]}, Remembering!Types)
<1>1. kept \in Seq(own) /\ kept \in Seq(Remembering!Row)
  BY SessionIs
<1> HIDE DEF kept, own
<1>2. DOMAIN kept = 1..Len(kept) /\ Len(kept) \in Nat
  BY <1>1, LenProperties
<1>3. \A k \in DOMAIN kept : kept[k] \in Remembering!Row /\ kept[k] \in own
  BY <1>1, <1>2, ElementOfSeq
<1>4. \A r \in own : r.session = session[c] /\ r.type \in Remembering!Types
  BY DEF own, Remembering!Rows
<1>5. \A k \in DOMAIN kept : kept[k] \in Remembering!Range(kept)
  BY DEF Remembering!Range
<1> QED BY <1>2, <1>3, <1>4, <1>5 DEF kept

\* A read of a session is all its talk, of its messages, and refused or a panic
\* only for a message that cannot be read.
ReadWell(read, s) ==
    /\ read.how = "ok" =>
          IF store = "sqlite3" /\ Len(Remembering!Kept(s)) > Limit
          THEN Remembering!IsPrefix(Remembering!Talk(read.messages), Remembering!Talk(Remembering!Kept(s)))
          ELSE Remembering!Talk(read.messages) = Remembering!Talk(Remembering!Kept(s))
    /\ \A m \in Remembering!Range(read.messages) :
          \/ m \in Remembering!Range(Remembering!Kept(s))
          \/ store = "zep" /\ m.type \in {"system", "tool"} /\ m.session = s
          \/ store = "mongo" /\ m.type = "nil"
    /\ read.how = "error" =>
          store \in Remembering!SQL
          /\ ~(Remembering!TypesOf(Remembering!Kept(s)) \subseteq Remembering!Readable)
    /\ read.how \in {"ok", "error"}
    /\ "nil" \in Remembering!TypesOf(read.messages) =>
          store = "mongo" /\ ~(Remembering!TypesOf(Remembering!Kept(s)) \subseteq {"human", "ai"})

(* No message of a session is nil.                                         *)
LEMMA NoNil ==
    ASSUME NEW s, NEW l \in Seq(Remembering!Rows({s}, Remembering!Types))
    PROVE  "nil" \notin Remembering!TypesOf(l) /\ Remembering!TypesOf(l) \subseteq Remembering!Types
<1> DEFINE own == Remembering!Rows({s}, Remembering!Types)
<1>1. \A r \in own : r.type \in Remembering!Types
  BY DEF Remembering!Rows
<1> HIDE DEF own
<1>2. \A k \in DOMAIN l : l[k] \in own
  <2>1. l \in Seq(own)
    BY DEF own
  <2> QED BY <2>1, LenProperties, ElementOfSeq
<1>3. \A k \in DOMAIN l : l[k].type \in Remembering!Types
  BY <1>1, <1>2
<1>4. "nil" \notin Remembering!Types
  BY DEF Remembering!Types
<1> QED BY <1>3, <1>4 DEF Remembering!TypesOf

(* A read of sqlite3 has a limit.                                          *)
LEMMA SqliteReads ==
    ASSUME Remembering!IInv, NEW c \in Callers, store = "sqlite3"
    PROVE  ReadWell(Remembering!SqliteMessages(session[c]), session[c])
<1> DEFINE s == session[c]
           kept == Remembering!Kept(s)
           n == IF Len(kept) < Limit THEN Len(kept) ELSE Limit
           first == SubSeq(kept, 1, n)
           readable == Remembering!Rows({s}, Remembering!Readable)
           own == Remembering!Rows({s}, Remembering!Types)
           shown == Remembering!Those(first, readable)
<1>1. /\ Remembering!SqliteMessages(s).how = "ok"
      /\ Remembering!SqliteMessages(s).messages = Remembering!Those(first, readable)
  BY DEF Remembering!SqliteMessages, Remembering!Read
<1>2. kept \in Seq(own) /\ Limit \in Nat /\ Len(kept) \in Nat /\ s \in Callers
  BY SessionIs, HistoryBounds, LenProperties
<1>3. n \in 0..Len(kept) /\ n \in Nat
  BY <1>2
<1> HIDE DEF own, kept, s
<1>4. first \in Seq(own) /\ Len(first) = n /\ (n = Len(kept) => first = kept)
      /\ \A k \in 1..n : first[k] = kept[k]
  <2>1. \A k \in 1..n : kept[k] \in own
    BY <1>2, <1>3, ElementOfSeq
  <2> HIDE DEF n
  <2>2. /\ first \in Seq(own) /\ Len(first) = IF 1 <= n THEN n - 1 + 1 ELSE 0
        /\ \A k \in 1..(n - 1 + 1) : first[k] = kept[1 + k - 1]
    BY <1>3, <2>1, SubSeqProperties
  <2>3. Len(first) = n /\ \A k \in 1..n : first[k] = kept[k]
    BY <1>3, <2>2
  <2>4. n = Len(kept) => first = kept
    BY <1>2, <2>2, <2>3, SeqEqual
  <2> QED BY <2>2, <2>3, <2>4
<1>5. Remembering!Range(first) \subseteq Remembering!Range(kept)
  <2>1. DOMAIN first = 1..n /\ DOMAIN kept = 1..Len(kept)
    BY <1>2, <1>4, LenProperties
  <2> HIDE DEF first, n
  <2>2. ASSUME NEW k \in 1..n PROVE first[k] \in Remembering!Range(kept)
    <3>1. k \in DOMAIN kept /\ first[k] = kept[k]
      <4>1. k \in 1..Len(kept)
        BY <1>2, <1>3
      <4>2. first[k] = kept[k]
        BY <1>4
      <4> QED BY <2>1, <4>1, <4>2
    <3> QED BY <3>1 DEF Remembering!Range
  <2>3. \A e \in Remembering!Range(first) : \E k \in 1..n : e = first[k]
    BY <2>1 DEF Remembering!Range
  <2> QED BY <2>2, <2>3
<1> HIDE DEF first, n
<1>6. Remembering!Talk(shown) = Remembering!Talk(first)
  <2> DEFINE r == readable
  <2> HIDE DEF r
  <2>1. Remembering!Talk(Remembering!Those(first, r)) = Remembering!Those(first, r \cap TalkRows)
    BY <1>4, ThoseOfThose, TalkIs
  <2> USE DEF r
  <2>2. own \cap TalkRows = readable \cap TalkRows
    BY <1>2 DEF own, TalkRows, Remembering!Rows, Remembering!Readable, Remembering!Types
  <2>3. Remembering!Those(first, own) = first
    BY <1>4, ThoseAllOrNone
  <2>4. Remembering!Those(Remembering!Those(first, own), TalkRows)
          = Remembering!Those(first, own \cap TalkRows)
    BY <1>4, ThoseOfThose
  <2> QED BY <2>1, <2>2, <2>3, <2>4, TalkIs
<1>7. ASSUME Len(kept) > Limit
      PROVE  Remembering!IsPrefix(Remembering!Talk(shown), Remembering!Talk(kept))
  <2> DEFINE rest == SubSeq(kept, n + 1, Len(kept))
  <2>1. n = Limit /\ n + 1 <= Len(kept)
    BY <1>2, <1>7 DEF n
  <2>2. \A k \in (n + 1)..Len(kept) : kept[k] \in own
    BY <1>2, <1>3, ElementOfSeq
  <2>3. /\ rest \in Seq(own) /\ Len(rest) = Len(kept) - n
        /\ \A k \in 1..(Len(kept) - n) : rest[k] = kept[n + k]
    <3>1. n + 1 \in Int /\ Len(kept) \in Int /\ Len(kept) - (n + 1) + 1 = Len(kept) - n
      BY <1>2, <1>3
    <3>2. /\ rest \in Seq(own)
          /\ Len(rest) = IF n + 1 <= Len(kept) THEN Len(kept) - (n + 1) + 1 ELSE 0
          /\ \A k \in 1..(Len(kept) - (n + 1) + 1) : rest[k] = kept[(n + 1) + k - 1]
      BY <2>2, <3>1, SubSeqProperties
    <3>3. \A k \in 1..(Len(kept) - n) : (n + 1) + k - 1 = n + k
      BY <1>3
    <3> HIDE DEF rest
    <3> QED BY <1>2, <1>3, <2>1, <3>1, <3>2, <3>3
  <2> HIDE DEF rest
  <2>4. first \o rest = kept
    <3>1. /\ first \o rest \in Seq(own) /\ Len(first \o rest) = n + (Len(kept) - n)
          /\ \A k \in 1..(n + (Len(kept) - n)) : (first \o rest)[k]
               = IF k <= n THEN first[k] ELSE rest[k - n]
      <4>1. /\ first \in Seq(own) /\ rest \in Seq(own) /\ Len(first) = n
            /\ Len(rest) = Len(kept) - n
        BY <1>4, <2>3
      <4>2. /\ first \o rest \in Seq(own) /\ Len(first \o rest) = Len(first) + Len(rest)
            /\ \A k \in 1..(Len(first) + Len(rest)) :
                  (first \o rest)[k] = IF k <= Len(first) THEN first[k] ELSE rest[k - Len(first)]
        BY <4>1, ConcatProperties
      <4> QED BY <4>1, <4>2
    <3>2. Len(first \o rest) = Len(kept)
      BY <1>2, <1>3, <3>1
    <3>3. ASSUME NEW k \in 1..Len(kept) PROVE (first \o rest)[k] = kept[k]
      <4>1. (first \o rest)[k] = IF k <= n THEN first[k] ELSE rest[k - n]
        BY <1>2, <1>3, <3>1
      <4>2. CASE k <= n
        BY <1>3, <1>4, <4>1, <4>2
      <4>3. CASE ~(k <= n)
        <5>1. k - n \in 1..(Len(kept) - n) /\ n + (k - n) = k
          BY <1>2, <1>3, <4>3
        <5> QED BY <2>3, <4>1, <4>3, <5>1
      <4> QED BY <4>2, <4>3
    <3> QED BY <1>2, <3>1, <3>2, <3>3, SeqEqual
  <2> DEFINE a == Remembering!Talk(first)
             b == Remembering!Talk(rest)
  <2>5. Remembering!Talk(kept) = a \o b /\ a \in Seq(own) /\ b \in Seq(own)
    <3>1. Remembering!Those(first \o rest, TalkRows)
          = Remembering!Those(first, TalkRows) \o Remembering!Those(rest, TalkRows)
      BY <1>4, <2>3, ThoseIs
    <3>2. Remembering!Those(first, TalkRows) \in Seq(own)
          /\ Remembering!Those(rest, TalkRows) \in Seq(own)
      BY <1>4, <2>3, ThoseTyped
    <3> QED BY <2>4, <3>1, <3>2, TalkIs
  <2> HIDE DEF a, b
  <2>6. Remembering!IsPrefix(a, a \o b)
    <3>1. /\ Len(a) \in Nat /\ Len(b) \in Nat /\ Len(a \o b) = Len(a) + Len(b)
          /\ SubSeq(a \o b, 1, Len(a)) = a
      BY <2>5, ConcatProperties, LenProperties, SubSeqOfConcat1, SubSeqFull
    <3>2. SubSeq(a, 1, Len(a)) = a
      BY <2>5, SubSeqFull
    <3> QED BY <3>1, <3>2 DEF Remembering!IsPrefix
  <2> QED BY <1>6, <2>5, <2>6 DEF a
<1>8. ASSUME ~(Len(kept) > Limit) PROVE Remembering!Talk(shown) = Remembering!Talk(kept)
  <2>1. n = Len(kept)
    BY <1>2, <1>8 DEF n
  <2> QED BY <1>4, <1>6, <2>1
<1>9. shown \in Seq(own) /\ Remembering!Range(shown) \subseteq Remembering!Range(kept)
  BY <1>4, <1>5, ThoseTyped, ThoseAreIn
<1> HIDE DEF shown
<1>10. "nil" \notin Remembering!TypesOf(shown)
  BY <1>9, NoNil DEF own
<1> QED BY <1>1, <1>7, <1>8, <1>9, <1>10 DEF ReadWell, kept, s, shown

(* A read that gives the messages as they are, one by one or with another type
   for those that are not of the talk, has all of the talk.                   *)
LEMMA AlikeReads ==
    ASSUME Remembering!IInv, NEW c \in Callers, NEW l,
           DOMAIN l = DOMAIN Remembering!Kept(session[c]),
           \A k \in DOMAIN l :
              LET r == Remembering!Kept(session[c])[k]
              IN IF r.type \in {"human", "ai"} THEN l[k] = r
                 ELSE l[k] = r \/ l[k].type \notin {"human", "ai"}
    PROVE  Remembering!Talk(l) = Remembering!Talk(Remembering!Kept(session[c]))
<1> DEFINE kept == Remembering!Kept(session[c])
<1>1. \A r : r.type \notin {"human", "ai"} => r \notin TalkRows
  BY DEF TalkRows, Remembering!Rows
<1>2. ASSUME NEW k \in DOMAIN l
      PROVE  Remembering!Only(l[k], l[k] \in TalkRows)
               = Remembering!Only(kept[k], kept[k] \in TalkRows)
  <2>1. l[k] = kept[k] \/ (kept[k] \notin TalkRows /\ l[k] \notin TalkRows)
    BY <1>1
  <2> QED BY <2>1 DEF Remembering!Only
<1> HIDE DEF kept
<1>3. DOMAIN l = DOMAIN kept
  BY DEF kept
<1>4. Remembering!Those(l, TalkRows) = Remembering!Those(kept, TalkRows)
  BY <1>2, <1>3, SiftedAlike
<1> QED BY <1>4, TalkIs DEF kept

(* The memory reads what it has, and the SQL stores do or refuse.          *)
LEMMA PlainReads ==
    ASSUME Remembering!IInv, NEW c \in Callers
    PROVE  /\ store = "memory" =>
                 ReadWell(Remembering!Read("ok", Remembering!Kept(session[c])), session[c])
           /\ store = "alloydb" => ReadWell(Remembering!AlloyDBMessages(session[c]), session[c])
           /\ store = "cloudsql" => ReadWell(Remembering!CloudSQLMessages(session[c]), session[c])
<1> DEFINE kept == Remembering!Kept(session[c])
<1>1. "nil" \notin Remembering!TypesOf(kept)
  BY SessionIs, NoNil
<1>2. "nil" \notin Remembering!TypesOf(<<>>) /\ Remembering!Range(<<>>) = {}
  BY DEF Remembering!TypesOf, Remembering!Range
<1> HIDE DEF kept
<1>3. ASSUME store \in {"memory", "alloydb", "cloudsql"}, NEW read,
             \/ read = [how |-> "ok", messages |-> kept]
             \/ /\ read = [how |-> "error", messages |-> <<>>] /\ store \in Remembering!SQL
                /\ ~(Remembering!TypesOf(kept) \subseteq Remembering!Readable)
      PROVE  ReadWell(read, session[c])
  <2>1. CASE read = [how |-> "ok", messages |-> kept]
    BY <1>1, <1>3, <2>1 DEF ReadWell, kept
  <2>2. CASE /\ read = [how |-> "error", messages |-> <<>>] /\ store \in Remembering!SQL
             /\ ~(Remembering!TypesOf(kept) \subseteq Remembering!Readable)
    BY <1>2, <2>2 DEF ReadWell, kept
  <2> QED BY <1>3, <2>1, <2>2
<1>4. store = "memory" => ReadWell(Remembering!Read("ok", kept), session[c])
  BY <1>3 DEF Remembering!Read
<1>5. store = "alloydb" => ReadWell(Remembering!AlloyDBMessages(session[c]), session[c])
  <2> SUFFICES ASSUME store = "alloydb"
               PROVE ReadWell(Remembering!AlloyDBMessages(session[c]), session[c])
    OBVIOUS
  <2>1. Remembering!AlloyDBMessages(session[c])
        = IF Remembering!TypesOf(kept) \subseteq Remembering!Readable
          THEN [how |-> "ok", messages |-> kept] ELSE [how |-> "error", messages |-> <<>>]
    BY DEF Remembering!AlloyDBMessages, Remembering!Read, kept
  <2>2. store \in Remembering!SQL
    BY DEF Remembering!SQL
  <2> QED BY <1>3, <2>1, <2>2
<1>6. store = "cloudsql" => ReadWell(Remembering!CloudSQLMessages(session[c]), session[c])
  <2> SUFFICES ASSUME store = "cloudsql"
               PROVE ReadWell(Remembering!CloudSQLMessages(session[c]), session[c])
    OBVIOUS
  <2>1. Remembering!CloudSQLMessages(session[c])
        = IF Remembering!TypesOf(kept) \subseteq Remembering!Readable
          THEN [how |-> "ok", messages |-> kept] ELSE [how |-> "error", messages |-> <<>>]
    BY DEF Remembering!CloudSQLMessages, Remembering!Read, kept
  <2>2. store \in Remembering!SQL
    BY DEF Remembering!SQL
  <2> QED BY <1>3, <2>1, <2>2
<1> QED BY <1>4, <1>5, <1>6 DEF kept

(* mongo reads nil for what it does not know.                              *)
LEMMA MongoReads ==
    ASSUME Remembering!IInv, NEW c \in Callers, store = "mongo"
    PROVE  ReadWell(Remembering!MongoMessages(session[c]), session[c])
<1> DEFINE kept == Remembering!Kept(session[c])
           l == [k \in DOMAIN kept |-> Remembering!ToChatMessage(kept[k])]
<1>1. Remembering!MongoMessages(session[c]) = [how |-> "ok", messages |-> l]
  BY DEF Remembering!MongoMessages, Remembering!Read
<1>2. /\ DOMAIN l = DOMAIN kept
      /\ \A k \in DOMAIN kept : l[k] = Remembering!ToChatMessage(kept[k])
  OBVIOUS
<1>3. ASSUME NEW k \in DOMAIN kept
      PROVE  IF kept[k].type \in {"human", "ai"} THEN l[k] = kept[k] ELSE l[k].type = "nil"
  <2>1. kept[k] \in Remembering!Row
    BY KeptAre
  <2>2. \A r \in Remembering!Row : [r EXCEPT !.type = "nil"].type = "nil"
    BY DEF Remembering!Row, Remembering!Rows
  <2> HIDE DEF kept, l
  <2> QED BY <1>2, <2>1, <2>2 DEF Remembering!ToChatMessage
<1>4. \A k \in DOMAIN kept : /\ kept[k] \in Remembering!Range(kept)
                             /\ kept[k].type \in Remembering!Types
  BY KeptAre
<1>5. Remembering!Talk(l) = Remembering!Talk(kept)
  <2>1. \A k \in DOMAIN l : IF kept[k].type \in {"human", "ai"} THEN l[k] = kept[k]
                            ELSE l[k] = kept[k] \/ l[k].type \notin {"human", "ai"}
    <3> HIDE DEF l, kept
    <3> QED BY <1>2, <1>3
  <2> HIDE DEF l
  <2> QED BY <1>2, <2>1, AlikeReads
<1> HIDE DEF l, kept
<1>6. \A m \in Remembering!Range(l) : m \in Remembering!Range(kept) \/ m.type = "nil"
  BY <1>2, <1>3, <1>4 DEF Remembering!Range
<1>7. "nil" \in Remembering!TypesOf(l) => ~(Remembering!TypesOf(kept) \subseteq {"human", "ai"})
  <2> SUFFICES ASSUME NEW k \in DOMAIN kept, l[k].type = "nil"
               PROVE kept[k].type \notin {"human", "ai"}
    BY <1>2 DEF Remembering!TypesOf
  <2>1. kept[k].type # "nil"
    BY <1>4 DEF Remembering!Types
  <2> QED BY <1>3, <2>1
<1> QED BY <1>1, <1>5, <1>6, <1>7 DEF ReadWell, kept

(* zep reads all but the results of tools, after what it knows itself.     *)
LEMMA ZepReads ==
    ASSUME Remembering!IInv, NEW c \in Callers, store = "zep",
           NEW read \in Remembering!ZepMessages(session[c])
    PROVE  ReadWell(read, session[c])
<1> DEFINE s == session[c]
           kept == Remembering!Kept(s)
           own == Remembering!Rows({s}, Remembering!Types)
           others == Remembering!Rows({s}, Remembering!Types \ {"tool"})
           some == Remembering!Those(kept, others)
           named(r) == IF r.type = "function" THEN [r EXCEPT !.type = "tool"] ELSE r
           l == [k \in DOMAIN some |-> named(some[k])]
           fact == Remembering!Facts(s)
<1>1. read = [how |-> "ok", messages |-> l] \/ read = [how |-> "ok", messages |-> <<fact>> \o l]
  BY DEF Remembering!ZepMessages, Remembering!messagesFromZepMessages, Remembering!Read
<1>2. kept \in Seq(own) /\ s \in Callers
  BY SessionIs
<1>3. \A r \in own : /\ r.session = s /\ r.type \in Remembering!Types
                     /\ named(r) \in own /\ named(r).session = s
                     /\ IF r.type = "function" THEN named(r).type = "tool" ELSE named(r) = r
  BY DEF Remembering!Rows, Remembering!Types
<1>4. fact.type = "system" /\ fact.session = s
  BY DEF Remembering!Facts
<1>5. own \cap TalkRows = others \cap TalkRows
  BY <1>2 DEF TalkRows, Remembering!Rows, Remembering!Types
<1>6. \A r : r.type \notin {"human", "ai"} => r \notin TalkRows
  BY DEF TalkRows, Remembering!Rows
<1> HIDE DEF own, kept, s, others, named, fact
<1>7. some \in Seq(own) /\ Remembering!Range(some) \subseteq Remembering!Range(kept)
  BY <1>2, ThoseTyped, ThoseAreIn
<1>8. Remembering!Talk(some) = Remembering!Talk(kept)
  <2>1. Remembering!Those(some, TalkRows) = Remembering!Those(kept, others \cap TalkRows)
    BY <1>2, ThoseOfThose
  <2>2. Remembering!Those(kept, own) = kept
    BY <1>2, ThoseAllOrNone
  <2>3. Remembering!Those(Remembering!Those(kept, own), TalkRows)
          = Remembering!Those(kept, own \cap TalkRows)
    BY <1>2, ThoseOfThose
  <2> HIDE DEF some
  <2> QED BY <1>5, <2>1, <2>2, <2>3, TalkIs
<1> HIDE DEF some
<1>9. /\ DOMAIN some = 1..Len(some) /\ Len(some) \in Nat /\ \A k \in DOMAIN some : some[k] \in own
      /\ \A k \in DOMAIN some : some[k] \in Remembering!Range(kept)
  <2>1. /\ DOMAIN some = 1..Len(some) /\ Len(some) \in Nat /\ \A k \in DOMAIN some : some[k] \in own
    BY <1>7, LenProperties, ElementOfSeq
  <2>2. \A k \in DOMAIN some : some[k] \in Remembering!Range(some)
    BY DEF Remembering!Range
  <2> QED BY <1>7, <2>1, <2>2
<1>10. DOMAIN l = DOMAIN some /\ \A k \in DOMAIN some : l[k] = named(some[k]) /\ l[k] \in own
  BY <1>3, <1>9
<1>11. l \in Seq(own)
  BY <1>9, <1>10
<1> HIDE DEF l
<1>12. Remembering!Talk(l) = Remembering!Talk(some)
  <2>1. ASSUME NEW k \in DOMAIN l
        PROVE  Remembering!Only(l[k], l[k] \in TalkRows)
                 = Remembering!Only(some[k], some[k] \in TalkRows)
    <3>1. some[k] \in own /\ l[k] = named(some[k])
      BY <1>9, <1>10
    <3>2. l[k] = some[k] \/ (some[k] \notin TalkRows /\ l[k] \notin TalkRows)
      BY <1>3, <1>6, <3>1
    <3> QED BY <3>2 DEF Remembering!Only
  <2>2. Remembering!Those(l, TalkRows) = Remembering!Those(some, TalkRows)
    BY <1>10, <2>1, SiftedAlike
  <2> QED BY <2>2, TalkIs
<1>13. Remembering!Talk(<<fact>> \o l) = Remembering!Talk(l)
  <2> DEFINE all == own \cup {fact}
             one == <<fact>>
  <2>1. one \in Seq(all) /\ l \in Seq(all)
    BY <1>11
  <2>2. Remembering!Those(one, TalkRows) = <<>>
    <3>1. fact \notin TalkRows
      BY <1>4, <1>6
    <3> QED BY <3>1, ThoseOfOne DEF Remembering!Only
  <2> HIDE DEF all, one
  <2>3. /\ Remembering!Those(one \o l, TalkRows)
             = Remembering!Those(one, TalkRows) \o Remembering!Those(l, TalkRows)
        /\ Remembering!Those(l, TalkRows) \in Seq(all)
    <3>1. Remembering!Those(one \o l, TalkRows)
            = Remembering!Those(one, TalkRows) \o Remembering!Those(l, TalkRows)
      BY <2>1, ThoseIs
    <3>2. Remembering!Those(l, TalkRows) \in Seq(all)
      BY <2>1, ThoseTyped
    <3> QED BY <3>1, <3>2
  <2>4. Remembering!Those(one \o l, TalkRows) = Remembering!Those(l, TalkRows)
    BY <2>2, <2>3, ConcatEmptySeq
  <2> QED BY <2>4, TalkIs DEF one
<1>14. \A k \in DOMAIN l : /\ \/ l[k] \in Remembering!Range(kept)
                              \/ l[k].type = "tool" /\ l[k].session = s
                           /\ l[k].type # "nil"
  <2> SUFFICES ASSUME NEW k \in DOMAIN l
               PROVE  /\ \/ l[k] \in Remembering!Range(kept)
                         \/ l[k].type = "tool" /\ l[k].session = s
                      /\ l[k].type # "nil"
    OBVIOUS
  <2>1. some[k] \in own /\ l[k] = named(some[k]) /\ some[k] \in Remembering!Range(kept)
        /\ l[k] \in own
    BY <1>9, <1>10
  <2>2. l[k].type \in Remembering!Types
    BY <1>3, <2>1
  <2> QED BY <1>3, <2>1, <2>2 DEF Remembering!Types
<1>15. ASSUME NEW k \in DOMAIN (<<fact>> \o l)
       PROVE  (<<fact>> \o l)[k] = fact \/ \E j \in DOMAIN l : (<<fact>> \o l)[k] = l[j]
  <2> DEFINE all == own \cup {fact}
             one == <<fact>>
             both == one \o l
  <2>1. one \in Seq(all) /\ l \in Seq(all) /\ Len(one) = 1 /\ one[1] = fact
    BY <1>11
  <2> HIDE DEF all, one
  <2>2. /\ both \in Seq(all) /\ Len(both) = Len(one) + Len(l)
        /\ \A j \in 1..(Len(one) + Len(l)) : both[j]
             = IF j <= Len(one) THEN one[j] ELSE l[j - Len(one)]
    BY <2>1, ConcatProperties
  <2>3. Len(l) \in Nat /\ DOMAIN l = 1..Len(l) /\ DOMAIN both = 1..(1 + Len(l))
    BY <2>1, <2>2, LenProperties
  <2>4. k \in 1..(1 + Len(l))
    BY <2>3 DEF one
  <2>5. both[k] = IF k <= 1 THEN one[k] ELSE l[k - 1]
    BY <2>1, <2>2, <2>4
  <2>6. k = 1 \/ k - 1 \in DOMAIN l
    BY <2>3, <2>4
  <2>7. both[k] = fact \/ \E j \in DOMAIN l : both[k] = l[j]
    BY <2>1, <2>3, <2>4, <2>5, <2>6
  <2> QED BY <2>7 DEF one
<1>16. CASE read = [how |-> "ok", messages |-> l]
  <2>1. \A m \in Remembering!Range(l) : \/ m \in Remembering!Range(kept)
                                        \/ m.type = "tool" /\ m.session = s
    BY <1>14 DEF Remembering!Range
  <2>2. "nil" \notin Remembering!TypesOf(l)
    BY <1>14 DEF Remembering!TypesOf
  <2> QED BY <1>8, <1>12, <1>16, <2>1, <2>2 DEF ReadWell, kept, s
<1>17. CASE read = [how |-> "ok", messages |-> <<fact>> \o l]
  <2> DEFINE all == <<fact>> \o l
  <2>1. \A k \in DOMAIN all : all[k] = fact \/ \E j \in DOMAIN l : all[k] = l[j]
    BY <1>15
  <2>2. Remembering!Talk(all) = Remembering!Talk(l) /\ read = [how |-> "ok", messages |-> all]
    BY <1>13, <1>17
  <2> HIDE DEF all
  <2>3. \A m \in Remembering!Range(all) : \/ m \in Remembering!Range(kept)
                                          \/ m.type \in {"system", "tool"} /\ m.session = s
    BY <1>4, <1>14, <2>1 DEF Remembering!Range
  <2>4. "nil" \notin Remembering!TypesOf(all)
    BY <1>4, <1>14, <2>1 DEF Remembering!TypesOf
  <2> QED BY <1>8, <1>12, <2>2, <2>3, <2>4 DEF ReadWell, kept, s
<1> QED BY <1>1, <1>16, <1>17

(* Every store reads well.                                                 *)
LEMMA StoresRead ==
    ASSUME Remembering!IInv, NEW c \in Callers, NEW read \in Remembering!Messages(session[c])
    PROVE  ReadWell(read, session[c])
<1>1. store \in {"memory", "sqlite3", "mongo", "alloydb", "cloudsql", "zep"}
  BY DEF Remembering!IInv, Remembering!TypeOK, Remembering!Stores
<1>2. CASE store = "memory"
  BY <1>2, PlainReads DEF Remembering!Messages
<1>3. CASE store = "sqlite3"
  BY <1>3, SqliteReads DEF Remembering!Messages
<1>4. CASE store = "mongo"
  BY <1>4, MongoReads DEF Remembering!Messages
<1>5. CASE store = "alloydb"
  BY <1>5, PlainReads DEF Remembering!Messages
<1>6. CASE store = "cloudsql"
  BY <1>6, PlainReads DEF Remembering!Messages
<1>7. CASE store = "zep"
  BY <1>7, ZepReads DEF Remembering!Messages
<1> QED BY <1>1, <1>2, <1>3, <1>4, <1>5, <1>6, <1>7

\* What was said is read.
AsSaid == Remembering!TalkIsRead /\ Remembering!OwnAreRead /\ Remembering!ReadsAreAnswered

(* An answer tells what was read.                                          *)
LEMMA AnswersTell ==
    ASSUME Remembering!IInv, NEW c \in Callers, NEW op \in {"read", "load"}, NEW read,
           Remembering!Answers(c, op, read),
           \/ ReadWell(read, session[c])
           \/ /\ op = "load" /\ read = [how |-> "panic", messages |-> <<>>] /\ store = "mongo"
              /\ ~(Remembering!TypesOf(Remembering!Kept(session[c])) \subseteq {"human", "ai"})
    PROVE  Remembering!IInv' /\ AsSaid'
<1> DEFINE s == session[c]
           kept == Remembering!Kept(s)
<1>1. /\ outcome' = [Remembering!Outcome EXCEPT !.op = op, !.session = s, !.how = read.how,
                        !.messages = read.messages, !.now = kept]
      /\ UNCHANGED <<store, overwrite, session, rows, saved, open, pc, held, call, said, unsure>>
  BY DEF Remembering!Answers
<1>2. /\ outcome'.op = op /\ outcome'.session = s /\ outcome'.how = read.how
      /\ outcome'.messages = read.messages /\ outcome'.now = kept
  BY <1>1 DEF Remembering!Outcome
<1>3. s \in Callers /\ Sure(s) /\ Limit \in Nat
  BY SessionIs, HistoryBounds
<1>4. read.how \in {"ok", "error", "panic"}
  BY DEF ReadWell
<1>5. Remembering!IInv'
  <2>1. Remembering!TypeOK'
    BY <1>1, <1>2, <1>3, <1>4, HistoryBounds DEF Remembering!IInv, Remembering!TypeOK,
       Remembering!Stores,
       Remembering!SQL, Remembering!Row, Remembering!Rows, Remembering!Types, Remembering!Sessions
  <2>2. Remembering!AllSaved' /\ Remembering!ToldIsSaved' /\ Remembering!HeldIsToCome'
    BY <1>1 DEF Remembering!IInv, Remembering!AllSaved, Remembering!ToldIsSaved,
       Remembering!HeldIsToCome,
       Remembering!KeptOf, Remembering!Sessions
  <2> QED BY <2>1, <2>2 DEF Remembering!IInv
<1> HIDE DEF kept, s
<1>6. Remembering!TalkIsRead'
  <2> SUFFICES ASSUME op = "read", read.how = "ok", ~open, ~unsure[s]
               PROVE  IF store = "sqlite3" /\ Len(said[s]) > Limit
                      THEN Remembering!IsPrefix(Remembering!Talk(read.messages), Remembering!Talk(said[s]))
                      ELSE Remembering!Talk(read.messages) = Remembering!Talk(said[s])
    BY <1>1, <1>2 DEF Remembering!TalkIsRead
  <2>1. kept = said[s]
    BY <1>3 DEF Sure, kept
  <2> QED BY <2>1 DEF ReadWell, kept, s
<1>7. Remembering!OwnAreRead'
  <2> SUFFICES ASSUME op = "read", NEW m \in Remembering!Range(read.messages)
               PROVE  \/ m \in Remembering!Range(kept)
                      \/ store = "zep" /\ m.type \in {"system", "tool"} /\ m.session = s
                      \/ store = "mongo" /\ m.type = "nil"
    BY <1>1, <1>2 DEF Remembering!OwnAreRead
  <2> QED BY DEF ReadWell, kept, s
<1>8. Remembering!ReadsAreAnswered'
  BY <1>1, <1>2 DEF Remembering!ReadsAreAnswered, ReadWell, kept, s
<1> QED BY <1>5, <1>6, <1>7, <1>8 DEF AsSaid

(* Messages and LoadMemoryVariables.                                       *)
LEMMA GetsThem ==
    ASSUME Remembering!IInv, NEW c \in Callers, Remembering!Get(c)
    PROVE  Remembering!IInv' /\ AsSaid'
<1>1. CASE Remembering!Reads(c)
  <2>1. PICK read \in Remembering!Messages(session[c]) : Remembering!Answers(c, "read", read)
    BY <1>1 DEF Remembering!Reads
  <2>2. ReadWell(read, session[c])
    BY StoresRead
  <2> QED BY <2>1, <2>2, AnswersTell
<1>2. CASE Remembering!ReadFails(c)
  <2>1. /\ outcome' = [Remembering!Outcome EXCEPT !.op = "read", !.session = session[c], !.how = "error",
                          !.service = FALSE]
        /\ UNCHANGED <<store, overwrite, session, rows, saved, open, pc, held, call, said, unsure>>
    BY <1>2 DEF Remembering!ReadFails
  <2>2. /\ outcome'.op = "read" /\ outcome'.session = session[c] /\ outcome'.how = "error"
        /\ outcome'.messages = <<>> /\ outcome'.service = FALSE
    BY <2>1 DEF Remembering!Outcome
  <2>3. session[c] \in Callers
    BY SessionIs
  <2>4. Remembering!TypeOK'
    BY <2>1, <2>2, <2>3, HistoryBounds DEF Remembering!IInv, Remembering!TypeOK, Remembering!Stores,
       Remembering!SQL, Remembering!Row, Remembering!Rows, Remembering!Types, Remembering!Sessions
  <2>5. Remembering!AllSaved' /\ Remembering!ToldIsSaved' /\ Remembering!HeldIsToCome'
    BY <2>1 DEF Remembering!IInv, Remembering!AllSaved, Remembering!ToldIsSaved,
       Remembering!HeldIsToCome,
       Remembering!KeptOf, Remembering!Sessions
  <2>6. Remembering!Range(<<>>) = {}
    BY DEF Remembering!Range
  <2>7. AsSaid'
    BY <2>2, <2>6 DEF AsSaid, Remembering!TalkIsRead, Remembering!OwnAreRead,
       Remembering!ReadsAreAnswered
  <2> QED BY <2>4, <2>5, <2>7 DEF Remembering!IInv
<1>3. CASE Remembering!LoadMemoryVariables(c)
  <2>1. PICK read \in Remembering!Messages(session[c]) :
           Remembering!Answers(c, "load", Remembering!GetBufferString(read))
    BY <1>3 DEF Remembering!LoadMemoryVariables
  <2>2. ReadWell(read, session[c])
    BY StoresRead
  <2>3. CASE read.how = "ok" /\ "nil" \in Remembering!TypesOf(read.messages)
    <3>1. Remembering!GetBufferString(read) = [how |-> "panic", messages |-> <<>>]
      BY <2>3 DEF Remembering!GetBufferString, Remembering!Read
    <3>2. /\ store = "mongo"
          /\ ~(Remembering!TypesOf(Remembering!Kept(session[c])) \subseteq {"human", "ai"})
      BY <2>2, <2>3 DEF ReadWell
    <3> QED BY <2>1, <3>1, <3>2, AnswersTell
  <2>4. CASE ~(read.how = "ok" /\ "nil" \in Remembering!TypesOf(read.messages))
    <3>1. Remembering!GetBufferString(read) = read
      BY <2>4 DEF Remembering!GetBufferString
    <3> QED BY <2>1, <2>2, <3>1, AnswersTell
  <2> QED BY <2>3, <2>4
<1> QED BY <1>1, <1>2, <1>3 DEF Remembering!Get

(* The program is stopped and started again.                               *)
LEMMA StopsIt ==
    ASSUME Remembering!IInv, Remembering!Stop
    PROVE  Remembering!IInv' /\ AsSaid'
<1>1. /\ rows' = IF store = "memory" THEN <<>> ELSE saved
      /\ saved' = rows' /\ open' = FALSE
      /\ said' = IF store = "memory" THEN [s \in Callers |-> <<>>] ELSE said
      /\ unsure' = [s \in Callers |->
            unsure[s] \/ \E c \in Callers : session[c] = s /\ pc[c] # "idle"]
      /\ pc' = [c \in Callers |-> "idle"] /\ held' = [c \in Callers |-> <<>>]
      /\ outcome' = Remembering!Outcome /\ UNCHANGED <<store, overwrite, session, call>>
  BY HistoryBounds DEF Remembering!Stop
<1>2. /\ store \in Remembering!Stores /\ overwrite \in BOOLEAN /\ session \in [Callers -> Callers]
      /\ saved \in Seq(Remembering!Row) /\ said \in [Callers -> Seq(Remembering!Row)]
      /\ call \in 0..MaxCalls /\ Remembering!Sessions = Callers
  BY HistoryBounds DEF Remembering!IInv, Remembering!TypeOK
<1>3. outcome'.op = "none" /\ outcome'.how = "ok" /\ outcome'.session \in Callers
  BY <1>1, HistoryBounds DEF Remembering!Outcome
<1>4. <<>> \in Seq(Remembering!Row) /\ \A T : <<>> \in Seq(T)
  OBVIOUS
<1>5. rows' \in Seq(Remembering!Row) /\ said' \in [Callers -> Seq(Remembering!Row)]
  BY <1>1, <1>2, <1>4
<1>6. unsure' \in [Callers -> BOOLEAN] /\ \A s \in Callers : ~unsure'[s] => ~unsure[s]
  BY <1>1
<1>7. /\ pc' \in [Callers -> {"idle", "append", "insert", "answer"}]
      /\ held' \in [Callers -> Seq(Remembering!Row)]
      /\ \A c \in Callers : pc'[c] = "idle" /\ held'[c] = <<>>
  BY <1>1, <1>4
<1>8. Remembering!TypeOK'
  BY <1>1, <1>2, <1>3, <1>5, <1>6, <1>7 DEF Remembering!TypeOK, Remembering!Stores,
     Remembering!SQL, Remembering!Row, Remembering!Rows, Remembering!Types, Remembering!Sessions
<1>9. Remembering!AllSaved'
  BY <1>1 DEF Remembering!AllSaved
<1>10. ASSUME NEW s \in Callers, ~unsure'[s] PROVE Remembering!KeptOf(saved', s) = said'[s]
  <2>1. CASE store = "memory"
    <3>1. saved' = <<>> /\ said'[s] = <<>>
      BY <1>1, <2>1
    <3>2. Remembering!KeptOf(<<>>, s) = <<>>
      BY ThoseOfOne DEF Remembering!KeptOf
    <3> QED BY <3>1, <3>2
  <2>2. CASE store # "memory"
    <3>1. saved' = saved /\ said' = said
      BY <1>1, <2>2
    <3>2. ~unsure[s]
      BY <1>6, <1>10
    <3> QED BY <1>2, <3>1, <3>2 DEF Remembering!IInv, Remembering!ToldIsSaved
  <2> QED BY <2>1, <2>2
<1>11. Remembering!ToldIsSaved'
  BY <1>2, <1>10 DEF Remembering!ToldIsSaved, Remembering!KeptOf, Remembering!Rows,
     Remembering!Types,
                     Remembering!Sessions
<1>12. Remembering!HeldIsToCome'
  BY <1>4, <1>7 DEF Remembering!HeldIsToCome
<1>13. AsSaid'
  BY <1>3 DEF AsSaid, Remembering!TalkIsRead, Remembering!OwnAreRead, Remembering!ReadsAreAnswered
<1> QED BY <1>8, <1>9, <1>11, <1>12, <1>13 DEF Remembering!IInv

(* A history begins empty.                                                 *)
LEMMA HistoryInit == ASSUME Remembering!Init PROVE Remembering!IInv /\ AsSaid
<1>1. /\ store \in Remembering!Stores /\ overwrite \in BOOLEAN
      /\ session \in [Callers -> Callers]
      /\ rows = <<>> /\ saved = <<>> /\ open = FALSE
      /\ pc = [c \in Callers |-> "idle"] /\ held = [c \in Callers |-> <<>>] /\ call = 0
      /\ said = [s \in Callers |-> <<>>] /\ unsure = [s \in Callers |-> FALSE]
      /\ outcome = Remembering!Outcome /\ MaxCalls \in Nat
  BY HistoryBounds DEF Remembering!Init
<1>2. outcome.op = "none" /\ outcome.how = "ok" /\ outcome.session \in Callers
  BY <1>1, HistoryBounds DEF Remembering!Outcome
<1>3. \A T : <<>> \in Seq(T)
  OBVIOUS
<1>4. Remembering!TypeOK
  <2>1. /\ store \in Remembering!Stores /\ overwrite \in BOOLEAN /\ open \in BOOLEAN
        /\ session \in [Callers -> Remembering!Sessions]
    BY <1>1, HistoryBounds
  <2>2. rows \in Seq(Remembering!Row) /\ saved \in Seq(Remembering!Row)
    BY <1>1, <1>3
  <2>3. pc \in [Callers -> {"idle", "append", "insert", "answer"}]
    BY <1>1
  <2>4. held \in [Callers -> Seq(Remembering!Row)]
    BY <1>1, <1>3
  <2>5. call \in 0..MaxCalls
    BY <1>1
  <2>6. said \in [Remembering!Sessions -> Seq(Remembering!Row)]
    BY <1>1, <1>3, HistoryBounds
  <2>7. unsure \in [Remembering!Sessions -> BOOLEAN]
    BY <1>1, HistoryBounds
  <2>8. outcome.how \in {"ok", "error", "panic"} /\ outcome.session \in Remembering!Sessions
    BY <1>2, HistoryBounds
  <2> QED BY <2>1, <2>2, <2>3, <2>4, <2>5, <2>6, <2>7, <2>8 DEF Remembering!TypeOK
<1>5. Remembering!ToldIsSaved
  BY <1>1, HistoryBounds, ThoseOfOne DEF Remembering!ToldIsSaved, Remembering!KeptOf
<1>6. Remembering!AllSaved /\ Remembering!HeldIsToCome
  BY <1>1, <1>3 DEF Remembering!AllSaved, Remembering!HeldIsToCome
<1>7. AsSaid
  BY <1>2 DEF AsSaid, Remembering!TalkIsRead, Remembering!OwnAreRead, Remembering!ReadsAreAnswered
<1> QED BY <1>4, <1>5, <1>6, <1>7 DEF Remembering!IInv

(* Each step of a history keeps the invariant, and reads what was said.    *)
LEMMA HistorySteps ==
    ASSUME Remembering!IInv, AsSaid, [Remembering!Next]_(Remembering!vars)
    PROVE  Remembering!IInv' /\ AsSaid'
<1>1. ASSUME NEW c \in Callers, Remembering!Add(c) \/ Remembering!Save(c) \/ Remembering!Clear(c)
                                \/ Remembering!ClearFails(c) \/ Remembering!Set(c)
      PROVE  Remembering!IInv' /\ AsSaid'
  <2>1. Saves(c) /\ Hands(c) /\ Quiet
    <3>1. CASE Remembering!Add(c)
      BY <3>1, MemoryAdds, AppendsThem, StoresInsert, ZepAdds, FailsToAdd DEF Remembering!Add
    <3>2. CASE Remembering!Save(c)
      BY <3>2, SavesContext DEF Remembering!Save
    <3>3. CASE Remembering!Clear(c) \/ Remembering!ClearFails(c)
      BY <3>3, Clears
    <3>4. CASE Remembering!Set(c)
      BY <3>4, SetsAtOnce, DeletesThem, RefillsThem DEF Remembering!Set
    <3> QED BY <1>1, <3>1, <3>2, <3>3, <3>4
  <2>2. Remembering!IInv'
    BY <2>1, StepKeeps
  <2>3. AsSaid'
    BY <2>1 DEF Quiet, AsSaid, Remembering!TalkIsRead, Remembering!OwnAreRead,
       Remembering!ReadsAreAnswered
  <2> QED BY <2>2, <2>3
<1>2. CASE Remembering!Stop
  BY <1>2, StopsIt
<1>3. CASE UNCHANGED Remembering!vars
  <2>1. UNCHANGED <<store, overwrite, session, rows, saved, open, pc, held, call, said, unsure, outcome>>
    BY <1>3 DEF Remembering!vars
  <2>2. Remembering!IInv'
    BY <2>1 DEF Remembering!IInv, Remembering!TypeOK, Remembering!Stores, Remembering!SQL,
       Remembering!Row,
       Remembering!Rows, Remembering!Types, Remembering!Sessions, Remembering!AllSaved,
       Remembering!ToldIsSaved, Remembering!HeldIsToCome, Remembering!KeptOf
  <2>3. AsSaid'
    BY <2>1 DEF AsSaid, Remembering!TalkIsRead, Remembering!OwnAreRead, Remembering!ReadsAreAnswered
  <2> QED BY <2>2, <2>3
<1> QED BY <1>1, <1>2, <1>3, GetsThem DEF Remembering!Next

-----------------------------------------------------------------------------
(* Embeddings: texts in batches.                                           *)

(* Lists are put together the same wherever that is instantiated.          *)
LEMMA FlattenedAlike == \A s : Embedding!FlattenSeq(s) = Remembering!FlattenSeq(s)
BY DEF Embedding!FlattenSeq, Remembering!FlattenSeq

\* How many texts the first batches have, the word that is embedded for a place,
\* and the texts between two places.
Upto(n) == IF n = Len(batches) THEN Len(given) ELSE n * embedder.size
Worded(i) == IF embedder.method = "query" /\ embedder.strip /\ ~Embedding!KeepsLines
             THEN "plain" ELSE given[i]
Words == [i \in 1..Len(given) |-> Worded(i)]
Between(words, m, n) == [k \in 1..(n - m) |-> [place |-> m + k, text |-> words[m + k]]]

\* The batches are of the texts, one after the other, none empty or too large.
Batched ==
    /\ Upto(0) = 0 /\ \A n \in 0..Len(batches) : Upto(n) \in 0..Len(given)
    /\ \A n \in 1..Len(batches) :
          /\ Upto(n - 1) < Upto(n) /\ Upto(n) <= Upto(n - 1) + embedder.size
          /\ batches[n] = Between(Words, Upto(n - 1), Upto(n))

\* What was sent are the first of them, with answers that are no failure.
Requested ==
    /\ Len(answers) = Len(sent) /\ Len(sent) <= Len(batches)
    /\ \A n \in 1..Len(sent) :
          /\ sent[n] = batches[n] /\ Embedding!Possible(answers[n], batches[n])
          /\ ~Embedding!CreateEmbeddingFails(embedder.client, answers[n], batches[n])
    /\ Remembering!FlattenSeq(sent) = Between(Words, 0, Upto(Len(sent)))

\* There is a vector for each text that was sent, where that is counted.
Whole(n) == \/ embedder.client \notin Embedding!Unchecked
            \/ answers[n] \in {"each", "empty", "reordered"}
Counted ==
    (\A n \in 1..Len(answers) : Whole(n)) =>
        /\ Len(vectors) = Upto(Len(sent))
        /\ (\A n \in 1..Len(answers) : answers[n] # "reordered") =>
              \A i \in 1..Len(vectors) : vectors[i] \in {0, i}

\* A query is one text, of one batch.
Asking ==
    embedder.method = "query" =>
        /\ Len(given) = 1 /\ embedder.size = 1
        /\ pc = "request" => /\ Len(batches) = 1
                             /\ Len(sent) = 1 => vectors = Embedding!Vectors(answers[1], batches[1])

Stripped == embedder.method = "documents" /\ embedder.strip /\ pc = "request" =>
                \A i \in 1..Len(given) : given[i] = "plain"

EmbedInv ==
    /\ Embedding!TypeOK /\ Asking /\ Stripped
    /\ pc # "returned" => outcome = "none"
    /\ pc = "called" => batches = <<>> /\ sent = <<>> /\ answers = <<>> /\ vectors = <<>>
    /\ pc = "request" => Batched /\ Requested /\ Counted

\* What the properties say of the vectors.
AsTexts == /\ Embedding!TextsAreSent /\ Embedding!VectorsOfTexts
           /\ Embedding!CountedOrOneByOne /\ Embedding!EmbedderPanicsKnown

(* The smaller of two numbers.                                             *)
LEMMA LesserIs ==
    ASSUME NEW m \in Int, NEW n \in Int
    PROVE  Embedding!Min({m, n}) = IF m <= n THEN m ELSE n
<1>1. (IF m <= n THEN m ELSE n) \in {m, n}
      /\ \A y \in {m, n} : (IF m <= n THEN m ELSE n) <= y
  OBVIOUS
<1>2. \A x \in {m, n} : (\A y \in {m, n} : x <= y) => x = IF m <= n THEN m ELSE n
  OBVIOUS
<1> QED BY <1>1, <1>2 DEF Embedding!Min

(* So many batches of a size are needed for so many texts.                 *)
LEMMA BatchesNeeded ==
    ASSUME NEW all \in Nat \ {0}, NEW size \in Nat \ {0}
    PROVE  LET b == (all + size - 1) \div size
           IN /\ b \in Nat \ {0} /\ (b - 1) * size < all /\ all <= b * size
              /\ \A n \in 0..(b - 1) : n * size \in Nat /\ n * size < all
<1> DEFINE b == (all + size - 1) \div size
<1>1. b \in Int /\ size * b <= all + size - 1 /\ all + size - 1 < size * b + size
  OBVIOUS
<1> HIDE DEF b
<1>2. b \in Nat \ {0}
  BY <1>1
<1>3. (b - 1) * size < all /\ all <= b * size
  BY <1>1
<1>4. ASSUME NEW n \in 0..(b - 1) PROVE n * size \in Nat /\ n * size < all
  <2>1. n * size \in Nat /\ n * size <= (b - 1) * size
    BY <1>2
  <2> QED BY <1>2, <1>3, <2>1
<1> QED BY <1>2, <1>3, <1>4 DEF b

(* The batches of the texts are those of all of them.                      *)
LEMMA BatchesAre ==
    ASSUME given' \in Seq(Embedding!Text), embedder' \in Embedding!Embedder,
           embedder'.method = "documents", embedder'.size \in Nat \ {0}, given' # <<>>,
           batches' = Embedding!BatchTexts(given', embedder'.size)
    PROVE  Batched'
<1> DEFINE size == embedder'.size
           all == Len(given')
           b == (all + size - 1) \div size
           Batch(n) == [k \in 1..Embedding!Min({size, all - (n - 1) * size}) |->
                           [place |-> (n - 1) * size + k, text |-> given'[(n - 1) * size + k]]]
<1>1. all \in Nat \ {0} /\ size \in Nat \ {0}
  OBVIOUS
<1>2. /\ b \in Nat \ {0} /\ (b - 1) * size < all /\ all <= b * size
      /\ \A n \in 0..(b - 1) : n * size \in Nat /\ n * size < all
  BY <1>1, BatchesNeeded
<1>3. batches' = [n \in 1..b |-> Batch(n)]
  BY DEF Embedding!BatchTexts
<1> HIDE DEF b, Batch
<1>4. Len(batches') = b /\ DOMAIN batches' = 1..b /\ \A n \in 1..b : batches'[n] = Batch(n)
  BY <1>2, <1>3
<1>5. \A n \in 0..b : Upto(n)' = IF n = b THEN all ELSE n * size
  BY <1>4 DEF Upto
<1> HIDE DEF size, all
<1>6. Upto(0)' = 0 /\ \A n \in 0..b : Upto(n)' \in 0..all
  BY <1>1, <1>2, <1>5
<1>7. ASSUME NEW n \in 1..b
      PROVE  /\ Upto(n - 1)' < Upto(n)' /\ Upto(n)' <= Upto(n - 1)' + size
             /\ Upto(n - 1)' = (n - 1) * size
             /\ Upto(n)' - Upto(n - 1)' = IF size <= all - (n - 1) * size
                                          THEN size ELSE all - (n - 1) * size
             /\ (n - 1) * size \in Nat
  <2>1. n - 1 \in 0..(b - 1) /\ n \in Int /\ size \in Int
    BY <1>1, <1>2
  <2>2. Upto(n - 1)' = (n - 1) * size /\ (n - 1) * size \in Nat /\ (n - 1) * size < all
    BY <1>2, <1>5, <2>1
  <2>3. n * size = (n - 1) * size + size
    BY <2>1
  <2>4. CASE n = b
    BY <1>1, <1>2, <1>5, <2>2, <2>3, <2>4
  <2>5. CASE n # b
    <3>1. n \in 0..(b - 1)
      BY <1>2, <2>5
    <3>2. Upto(n)' = n * size /\ n * size < all /\ n * size \in Nat
      BY <1>2, <1>5, <2>5, <3>1
    <3> QED BY <1>1, <2>2, <2>3, <3>2
  <2> QED BY <2>4, <2>5
<1>8. ASSUME NEW n \in 1..b PROVE batches'[n] = Between(Words, Upto(n - 1), Upto(n))'
  <2>1. all - (n - 1) * size \in Int /\ size \in Int
    BY <1>1, <1>7
  <2>2. Embedding!Min({size, all - (n - 1) * size}) = Upto(n)' - Upto(n - 1)'
    BY <1>7, <2>1, LesserIs
  <2>3. \A i \in 1..all : Words'[i] = given'[i]
    BY DEF Worded, Words, all
  <2>4. \A k \in 1..(Upto(n)' - Upto(n - 1)') : Upto(n - 1)' + k \in 1..all
    <3>1. n - 1 \in 0..b /\ n \in 0..b
      BY <1>2
    <3>2. Upto(n - 1)' \in 0..all /\ Upto(n)' \in 0..all
      BY <1>6, <3>1
    <3> QED BY <1>1, <3>2
  <2> DEFINE u == Upto(n - 1)'
             w == Upto(n)'
  <2>5. batches'[n] = [k \in 1..(w - u) |-> [place |-> u + k, text |-> given'[u + k]]]
    BY <1>4, <1>7, <2>2 DEF Batch, size, all
  <2>6. Between(Words, Upto(n - 1), Upto(n))'
           = [k \in 1..(w - u) |-> [place |-> u + k, text |-> Words'[u + k]]]
    BY DEF Between
  <2>7. \A k \in 1..(w - u) : Words'[u + k] = given'[u + k]
    BY <2>3, <2>4
  <2> HIDE DEF u, w
  <2> QED BY <2>5, <2>6, <2>7
<1> QED BY <1>4, <1>6, <1>7, <1>8 DEF Batched, size, all

(* The texts between two places, as many as they are.                      *)
LEMMA BetweenIs ==
    ASSUME MaxTexts \in Nat, NEW words \in Seq(Embedding!Text), Len(words) <= MaxTexts,
           NEW m \in 0..Len(words), NEW n \in 0..Len(words), m <= n
    PROVE  /\ Between(words, m, n) \in Seq(Embedding!Sent) /\ Len(Between(words, m, n)) = n - m
           /\ \A k \in 1..(n - m) : Between(words, m, n)[k] = [place |-> m + k, text |-> words[m + k]]
           /\ Between(words, 0, m) \o Between(words, m, n) = Between(words, 0, n)
<1>1. Len(words) \in Nat /\ \A i \in 1..Len(words) : words[i] \in Embedding!Text
  OBVIOUS
<1>2. ASSUME NEW i \in 0..Len(words), NEW j \in 0..Len(words), i <= j
      PROVE  /\ Between(words, i, j) \in Seq(Embedding!Sent) /\ Len(Between(words, i, j)) = j - i
             /\ \A k \in 1..(j - i) :
                   Between(words, i, j)[k] = [place |-> i + k, text |-> words[i + k]]
  <2> DEFINE all == Len(words)
  <2>0. all \in Nat /\ all <= MaxTexts /\ i \in 0..all /\ j \in 0..all
    BY <1>1, <1>2
  <2> HIDE DEF all
  <2>1. j - i \in Nat /\ \A k \in 1..(j - i) : i + k \in 1..all /\ i + k \in 1..MaxTexts
    BY <1>2, <2>0
  <2> QED BY <1>1, <2>1 DEF Between, Embedding!Sent, all
<1>3. Between(words, 0, m) \o Between(words, m, n) = Between(words, 0, n)
  <2>1. /\ 0 \in 0..Len(words) /\ m \in Nat /\ n \in Nat /\ 0 <= m /\ 0 <= n
        /\ m - 0 = m /\ n - 0 = n
    BY <1>1
  <2>2. /\ Between(words, 0, m) \in Seq(Embedding!Sent) /\ Len(Between(words, 0, m)) = m
        /\ Between(words, m, n) \in Seq(Embedding!Sent) /\ Len(Between(words, m, n)) = n - m
        /\ Between(words, 0, n) \in Seq(Embedding!Sent) /\ Len(Between(words, 0, n)) = n
    <3>1. /\ Between(words, 0, m) \in Seq(Embedding!Sent) /\ Len(Between(words, 0, m)) = m - 0
          /\ Between(words, 0, n) \in Seq(Embedding!Sent) /\ Len(Between(words, 0, n)) = n - 0
      BY <1>2, <2>1
    <3> QED BY <1>2, <2>1, <3>1
  <2> DEFINE both == Between(words, 0, m) \o Between(words, m, n)
  <2>3. /\ both \in Seq(Embedding!Sent) /\ Len(both) = n
        /\ \A k \in 1..n : both[k] = IF k <= m THEN Between(words, 0, m)[k]
                                               ELSE Between(words, m, n)[k - m]
    <3>1. \A s, t \in Seq(Embedding!Sent) :
             /\ s \o t \in Seq(Embedding!Sent) /\ Len(s \o t) = Len(s) + Len(t)
             /\ \A k \in 1..(Len(s) + Len(t)) : (s \o t)[k] = IF k <= Len(s) THEN s[k]
                                                              ELSE t[k - Len(s)]
      BY ConcatProperties
    <3>2. m + (n - m) = n
      BY <2>1
    <3> QED BY <2>2, <3>1, <3>2
  <2> HIDE DEF both
  <2>4. ASSUME NEW k \in 1..n PROVE both[k] = Between(words, 0, n)[k]
    <3>1. CASE k <= m
      <4>1. k \in 1..(m - 0) /\ k \in 1..(n - 0) /\ 0 + k = k
        BY <2>1, <3>1
      <4>2. /\ Between(words, 0, m)[k] = [place |-> 0 + k, text |-> words[0 + k]]
            /\ Between(words, 0, n)[k] = [place |-> 0 + k, text |-> words[0 + k]]
        BY <1>2, <2>1, <4>1
      <4> QED BY <2>3, <3>1, <4>2
    <3>2. CASE ~(k <= m)
      <4>1. k - m \in 1..(n - m) /\ m + (k - m) = k /\ k \in 1..(n - 0) /\ 0 + k = k
        BY <2>1, <3>2
      <4>2. /\ Between(words, m, n)[k - m] = [place |-> m + (k - m), text |-> words[m + (k - m)]]
            /\ Between(words, 0, n)[k] = [place |-> 0 + k, text |-> words[0 + k]]
        BY <1>2, <2>1, <4>1
      <4> QED BY <2>3, <3>2, <4>1, <4>2
    <3> QED BY <3>1, <3>2
  <2>5. both = Between(words, 0, n)
    BY <2>2, <2>3, <2>4, SeqEqual
  <2> QED BY <2>5 DEF both
<1> QED BY <1>2, <1>3

(* The vectors of a batch, one for each text where that is counted.        *)
LEMMA VectorsAre ==
    ASSUME MaxTexts \in Nat, NEW words \in Seq(Embedding!Text), Len(words) <= MaxTexts,
           NEW m \in 0..Len(words), NEW n \in 0..Len(words), m < n,
           embedder \in Embedding!Embedder, NEW a \in Embedding!Answers,
           Embedding!Possible(a, Between(words, m, n)),
           ~Embedding!CreateEmbeddingFails(embedder.client, a, Between(words, m, n))
    PROVE  LET v == Embedding!Vectors(a, Between(words, m, n))
           IN /\ v \in Seq(0..MaxTexts)
              /\ embedder.client \notin Embedding!Unchecked => a \in {"each", "empty", "reordered"}
              /\ a \in {"each", "empty", "reordered"} => Len(v) = n - m
              /\ a \in {"each", "empty"} => \A k \in 1..(n - m) : v[k] \in {0, m + k}
              /\ v = <<>> => a \in {"none", "less"}
<1> DEFINE batch == Between(words, m, n)
           each == [k \in DOMAIN batch |-> batch[k].place]
           v == Embedding!Vectors(a, batch)
           size == n - m
<1>1. /\ batch \in Seq(Embedding!Sent) /\ Len(batch) = size
      /\ \A k \in 1..size : batch[k].place = m + k
  <2>1. m <= n
    OBVIOUS
  <2>2. /\ batch \in Seq(Embedding!Sent) /\ Len(batch) = n - m
        /\ \A k \in 1..(n - m) : batch[k] = [place |-> m + k, text |-> words[m + k]]
    BY <2>1, BetweenIs
  <2> QED BY <2>2
<1>2. size \in Nat \ {0} /\ \A k \in 1..size : m + k \in 1..MaxTexts
  OBVIOUS
<1> HIDE DEF batch
<1>3. each = [k \in 1..size |-> m + k]
  BY <1>1
<1> HIDE DEF size
<1>4. each \in Seq(0..MaxTexts) /\ Len(each) = size /\ \A k \in 1..size : each[k] = m + k
  BY <1>2, <1>3
<1>5. v = CASE a = "less" -> Embedding!Front(each)
            [] a = "none" -> <<>>
            [] a = "more" -> Append(each, each[Len(each)])
            [] a = "empty" -> Append(Embedding!Front(each), 0)
            [] a = "reordered" -> Embedding!Reverse(each)
            [] OTHER -> each
  BY DEF Embedding!Vectors
<1> HIDE DEF each, v
<1>6. /\ Embedding!Front(each) \in Seq(0..MaxTexts) /\ Len(Embedding!Front(each)) = size - 1
      /\ \A k \in 1..(size - 1) : Embedding!Front(each)[k] = m + k
  BY <1>2, <1>4 DEF Embedding!Front
<1>7. Embedding!Reverse(each) \in Seq(0..MaxTexts) /\ Len(Embedding!Reverse(each)) = size
  BY <1>2, <1>4 DEF Embedding!Reverse
<1>8. a # "failure" /\ embedder.client \in Embedding!Clients
  BY DEF Embedding!CreateEmbeddingFails, Embedding!Embedder
<1>9. CASE a = "each"
  <2>1. v = each
    BY <1>5, <1>9
  <2> QED BY <1>2, <1>4, <1>9, <2>1 DEF size, v, batch
<1>10. CASE a = "empty"
  <2>1. v = Append(Embedding!Front(each), 0)
    BY <1>5, <1>10
  <2>2. v \in Seq(0..MaxTexts) /\ Len(v) = size
    BY <1>2, <1>6, <2>1
  <2>3. \A k \in 1..size : v[k] \in {0, m + k}
    BY <1>2, <1>6, <2>1
  <2>4. v # <<>>
    BY <1>2, <2>2
  <2> QED BY <1>10, <2>2, <2>3, <2>4 DEF size, v, batch
<1>11. CASE a = "reordered"
  <2>1. v = Embedding!Reverse(each)
    BY <1>5, <1>11
  <2>2. v # <<>>
    BY <1>2, <1>7, <2>1
  <2> QED BY <1>7, <1>11, <2>1, <2>2 DEF size, v, batch
<1>12. CASE a \in {"less", "none", "more"}
  <2>1. v \in Seq(0..MaxTexts) /\ Len(v) # size /\ (v = <<>> => a \in {"less", "none"})
    <3>1. CASE a = "less"
      <4>1. v = Embedding!Front(each)
        BY <1>5, <3>1
      <4> QED BY <1>2, <1>6, <3>1, <4>1
    <3>2. CASE a = "none"
      <4>1. v = <<>>
        BY <1>5, <3>2
      <4> QED BY <1>2, <3>2, <4>1
    <3>3. CASE a = "more"
      <4>1. v = Append(each, each[Len(each)])
        BY <1>5, <3>3
      <4>2. v \in Seq(0..MaxTexts) /\ Len(v) = size + 1
        BY <1>2, <1>4, <4>1
      <4>3. Len(v) # size /\ v # <<>>
        BY <1>2, <4>2
      <4> QED BY <4>2, <4>3
    <3> QED BY <1>12, <3>1, <3>2, <3>3
  <2>2. embedder.client \notin Embedding!OneByOne
    BY <1>12 DEF Embedding!Possible, batch
  <2>3. embedder.client \notin Embedding!Checked
    BY <1>1, <2>1 DEF Embedding!CreateEmbeddingFails, batch, v
  <2>4. embedder.client # "unsupported"
    BY DEF Embedding!CreateEmbeddingFails
  <2>5. embedder.client \in Embedding!Unchecked
    BY <1>8, <2>2, <2>3, <2>4 DEF Embedding!Clients
  <2> QED BY <1>12, <2>1, <2>5 DEF v, batch
<1> QED BY <1>8, <1>9, <1>10, <1>11, <1>12 DEF Embedding!Answers

(* A call begins with nothing but its texts.                               *)
LEMMA EmbedInit == ASSUME Embedding!Init PROVE EmbedInv /\ AsTexts
<1>1. MaxTexts \in Nat /\ MaxSize \in Nat
  BY BoundsAssumption
<1>2. /\ embedder \in Embedding!Embedder /\ pc = "called" /\ outcome = "none"
      /\ batches = <<>> /\ sent = <<>> /\ answers = <<>> /\ vectors = <<>>
      /\ embedder.method = "query" => Len(given) = 1 /\ embedder.size = 1
  BY DEF Embedding!Init
<1>3. given \in Seq(Embedding!Text) /\ Len(given) <= MaxTexts
  <2>1. PICK n \in 0..MaxTexts : given \in [1..n -> Embedding!Text]
    BY DEF Embedding!Init
  <2> QED BY <1>1, <2>1
<1>4. \A S : <<>> \in Seq(S)
  OBVIOUS
<1>5. Embedding!TypeOK
  BY <1>2, <1>3, <1>4 DEF Embedding!TypeOK
<1>6. AsTexts
  BY <1>2 DEF AsTexts, Embedding!TextsAreSent, Embedding!VectorsOfTexts,
     Embedding!CountedOrOneByOne, Embedding!EmbedderPanicsKnown
<1> QED BY <1>2, <1>5, <1>6 DEF EmbedInv, Asking, Stripped

(* Until a call returns, or returns an error, nothing is said of vectors.  *)
LEMMA NothingSaid == ASSUME outcome' \in {"none", "error"} PROVE AsTexts'
BY DEF AsTexts, Embedding!TextsAreSent, Embedding!VectorsOfTexts,
   Embedding!CountedOrOneByOne, Embedding!EmbedderPanicsKnown

(* The texts of the caller as they are embedded.                           *)
LEMMA WordsAre ==
    ASSUME Embedding!TypeOK
    PROVE  /\ Words \in Seq(Embedding!Text) /\ Len(Words) = Len(given) /\ Len(given) \in Nat
           /\ Len(given) <= MaxTexts
           /\ \A i \in 1..Len(given) : Words[i] = Worded(i) /\ Worded(i) \in Embedding!Text
<1>1. given \in Seq(Embedding!Text) /\ Len(given) <= MaxTexts /\ Len(given) \in Nat
  BY DEF Embedding!TypeOK
<1>2. \A i \in 1..Len(given) : Worded(i) \in Embedding!Text
  BY <1>1 DEF Worded, Embedding!Text
<1> HIDE DEF Worded
<1> QED BY <1>1, <1>2 DEF Words

(* EmbedDocuments makes the batches, or panics.                            *)
LEMMA Batches ==
    ASSUME EmbedInv, AsTexts, Embedding!EmbedDocuments
    PROVE  EmbedInv' /\ AsTexts'
<1> DEFINE texts == Embedding!MaybeRemoveNewLines(given, embedder.strip)
<1>1. /\ embedder' = embedder /\ embedder \in Embedding!Embedder /\ embedder.method = "documents"
      /\ given' = texts /\ pc = "called"
      /\ UNCHANGED <<sent, answers, vectors>>
      /\ IF Embedding!BatchPanics(texts, embedder.size)
         THEN pc' = "returned" /\ outcome' = "panic" /\ batches' = batches
         ELSE /\ batches' = Embedding!BatchTexts(texts, embedder.size)
              /\ pc' = "request" /\ outcome' = outcome
  BY DEF Embedding!EmbedDocuments, Embedding!Ended, EmbedInv, Embedding!TypeOK
<1>2. /\ given \in Seq(Embedding!Text) /\ Len(given) \in Nat /\ Len(given) <= MaxTexts
      /\ outcome = "none" /\ batches = <<>> /\ sent = <<>> /\ answers = <<>> /\ vectors = <<>>
  BY <1>1 DEF EmbedInv, Embedding!TypeOK
<1>3. /\ texts \in Seq(Embedding!Text) /\ Len(texts) = Len(given)
      /\ embedder.strip => \A i \in 1..Len(texts) : texts[i] = "plain"
  BY <1>2 DEF Embedding!MaybeRemoveNewLines, Embedding!Text
<1>4. embedder.size \in Int /\ embedder.strip \in BOOLEAN
  BY <1>1, BoundsAssumption DEF Embedding!Embedder
<1>5. \A S : <<>> \in Seq(S)
  OBVIOUS
<1> HIDE DEF texts
<1>6. CASE Embedding!BatchPanics(texts, embedder.size)
  <2>1. Embedding!TypeOK'
    BY <1>1, <1>2, <1>3, <1>5, <1>6 DEF Embedding!TypeOK, EmbedInv
  <2>2. EmbedInv'
    BY <1>1, <1>6, <2>1 DEF EmbedInv, Asking, Stripped
  <2>3. embedder.size <= 0
    BY <1>4, <1>6 DEF Embedding!BatchPanics
  <2> QED BY <1>1, <1>6, <2>2, <2>3 DEF AsTexts, Embedding!TextsAreSent,
             Embedding!VectorsOfTexts, Embedding!CountedOrOneByOne, Embedding!EmbedderPanicsKnown
<1>7. CASE ~Embedding!BatchPanics(texts, embedder.size)
  <2>1. Batched' /\ batches' \in Seq(Seq(Embedding!Sent)) /\ Upto(0)' = 0
    <3>1. CASE texts = <<>>
      <4>1. batches' = <<>> /\ given' = <<>>
        BY <1>1, <1>7, <3>1 DEF Embedding!BatchTexts
      <4>2. Upto(0)' = 0 /\ Len(batches') = 0 /\ Len(given') = 0
        BY <4>1 DEF Upto
      <4> QED BY <1>5, <4>1, <4>2 DEF Batched
    <3>2. CASE texts # <<>>
      <4>1. embedder.size \in Nat \ {0}
        BY <1>4, <1>7, <3>2 DEF Embedding!BatchPanics
      <4>2. /\ given' \in Seq(Embedding!Text) /\ embedder' \in Embedding!Embedder
            /\ embedder'.method = "documents" /\ embedder'.size \in Nat \ {0} /\ given' # <<>>
            /\ batches' = Embedding!BatchTexts(given', embedder'.size)
        BY <1>1, <1>3, <1>7, <3>2, <4>1
      <4>3. Batched'
        BY <4>2, BatchesAre
      <4>4. /\ Words' \in Seq(Embedding!Text) /\ Len(Words') = Len(given')
            /\ Len(given') <= MaxTexts /\ MaxTexts \in Nat
        <5>1. \A i \in 1..Len(given') : Worded(i)' = given'[i]
          BY <1>1 DEF Worded
        <5> HIDE DEF Worded
        <5> QED BY <1>1, <1>2, <1>3, <5>1, BoundsAssumption DEF Words
      <4>5. ASSUME NEW n \in 1..Len(batches') PROVE batches'[n] \in Seq(Embedding!Sent)
        <5>1. /\ batches'[n] = Between(Words', Upto(n - 1)', Upto(n)')
              /\ Upto(n - 1)' < Upto(n)'
          BY <4>3 DEF Batched
        <5>2. n - 1 \in 0..Len(batches') /\ n \in 0..Len(batches')
          OBVIOUS
        <5>3. Upto(n - 1)' \in 0..Len(Words') /\ Upto(n)' \in 0..Len(Words')
          BY <4>3, <4>4, <5>2 DEF Batched
        <5> HIDE DEF Words, Upto
        <5>4. Upto(n - 1)' <= Upto(n)'
          BY <4>4, <5>1, <5>3
        <5> QED BY <4>4, <5>1, <5>3, <5>4, BetweenIs
      <4>6. batches' \in Seq(Seq(Embedding!Sent))
        <5>1. \E b \in Nat : batches' \in [1..b -> Seq(Embedding!Sent)]
          <6> DEFINE b == (Len(texts) + embedder.size - 1) \div embedder.size
          <6>1. Len(texts) \in Nat \ {0}
            BY <1>3, <3>2
          <6>2. b \in Nat
            BY <4>1, <6>1, BatchesNeeded
          <6>3. DOMAIN batches' = 1..b /\ batches' = [n \in 1..b |-> batches'[n]]
            BY <1>1, <1>7, <3>2 DEF Embedding!BatchTexts
          <6> HIDE DEF b
          <6>4. Len(batches') = b
            BY <6>2, <6>3
          <6> QED BY <4>5, <6>2, <6>3, <6>4
        <5> QED BY <5>1
      <4> QED BY <4>3, <4>6 DEF Batched
    <3> QED BY <3>1, <3>2
  <2>2. Embedding!TypeOK'
    BY <1>1, <1>2, <1>3, <1>5, <1>7, <2>1 DEF Embedding!TypeOK, EmbedInv
  <2>3. Requested' /\ Counted'
    <3>1. sent' = <<>> /\ answers' = <<>> /\ vectors' = <<>> /\ Len(batches') \in Nat
      BY <1>1, <1>2, <2>1
    <3>2. Remembering!FlattenSeq(<<>>) = <<>>
      BY <1>5, FlatFew
    <3>3. Between(Words, 0, Upto(Len(sent)))' = <<>>
      BY <2>1, <3>1 DEF Between
    <3> QED BY <2>1, <3>1, <3>2, <3>3 DEF Requested, Counted
  <2>4. Stripped' /\ Asking'
    BY <1>1, <1>3 DEF Stripped, Asking
  <2>5. outcome' = "none" /\ pc' = "request"
    BY <1>1, <1>2, <1>7
  <2> QED BY <2>1, <2>2, <2>3, <2>4, <2>5, NothingSaid DEF EmbedInv
<1> QED BY <1>6, <1>7

(* A query is the batch of one text.                                       *)
LEMMA Queries ==
    ASSUME EmbedInv, AsTexts, Embedding!EmbedQuery
    PROVE  EmbedInv' /\ AsTexts'
<1>1. /\ UNCHANGED <<embedder, given, sent, answers, vectors, outcome>>
      /\ pc = "called" /\ pc' = "request" /\ embedder.method = "query"
      /\ batches' = <<<<[place |-> 1, text |-> Worded(1)]>>>>
  BY DEF Embedding!EmbedQuery, Worded
<1>2. /\ Len(given) = 1 /\ embedder.size = 1 /\ outcome = "none"
      /\ sent = <<>> /\ answers = <<>> /\ vectors = <<>>
  BY <1>1 DEF EmbedInv, Asking
<1>3. /\ Worded(1) \in Embedding!Text /\ Words[1] = Worded(1)
      /\ 1 <= MaxTexts
  BY <1>2, WordsAre DEF EmbedInv
<1>4. Words' = Words
  BY <1>1 DEF Words, Worded, Embedding!KeepsLines
<1>5. \A S : <<>> \in Seq(S)
  OBVIOUS
<1> HIDE DEF Worded, Words
<1> DEFINE batch == <<[place |-> 1, text |-> Worded(1)]>>
<1>6. batch \in Seq(Embedding!Sent)
  BY <1>3, BoundsAssumption DEF Embedding!Sent
<1>7. Between(Words, 0, 1) = batch
  BY <1>3 DEF Between
<1> HIDE DEF batch
<1>8. batches' = <<batch>>
  BY <1>1 DEF batch
<1>9. batches' \in Seq(Seq(Embedding!Sent)) /\ Len(batches') = 1 /\ batches'[1] = batch
  BY <1>6, <1>8
<1>10. Embedding!TypeOK'
  BY <1>1, <1>9 DEF Embedding!TypeOK, EmbedInv
<1>11. Upto(0)' = 0 /\ Upto(1)' = 1
  BY <1>1, <1>2, <1>9 DEF Upto
<1>12. Batched'
  <2>1. \A n \in 1..Len(batches') : n = 1
    BY <1>9
  <2>2. \A n \in 0..Len(batches') : n \in {0, 1}
    BY <1>9
  <2>3. /\ Upto(1 - 1)' < Upto(1)' /\ Upto(1)' <= Upto(1 - 1)' + embedder.size
        /\ batches'[1] = Between(Words', Upto(1 - 1)', Upto(1)')
    BY <1>2, <1>4, <1>7, <1>9, <1>11
  <2>4. Len(given') = 1 /\ embedder' = embedder
    BY <1>1, <1>2
  <2> HIDE DEF Upto
  <2> QED BY <1>11, <2>1, <2>2, <2>3, <2>4 DEF Batched
<1>13. Requested' /\ Counted'
  <2>1. sent' = <<>> /\ answers' = <<>> /\ vectors' = <<>>
    BY <1>1, <1>2
  <2>2. Remembering!FlattenSeq(<<>>) = <<>>
    BY <1>5, FlatFew
  <2>3. Between(Words, 0, Upto(Len(sent)))' = <<>>
    BY <1>11, <2>1 DEF Between
  <2> QED BY <1>9, <1>11, <2>1, <2>2, <2>3 DEF Requested, Counted
<1>14. Asking' /\ Stripped'
  BY <1>1, <1>2, <1>9 DEF Asking, Stripped
<1> QED BY <1>1, <1>2, <1>10, <1>12, <1>13, <1>14, NothingSaid DEF EmbedInv

(* Each answer is for the next batch, and its vectors come after the others. *)
LEMMA Creates ==
    ASSUME EmbedInv, AsTexts, NEW a \in Embedding!Answers, Embedding!CreateEmbedding(a)
    PROVE  EmbedInv' /\ AsTexts'
<1> DEFINE n == Len(sent) + 1
           batch == batches[n]
           v == Embedding!Vectors(a, batch)
           fails == Embedding!CreateEmbeddingFails(embedder.client, a, batch)
<1>1. /\ pc = "request" /\ Len(sent) < Len(batches) /\ Embedding!Possible(a, batch)
      /\ answers' = Append(answers, a) /\ sent' = Append(sent, batch)
      /\ UNCHANGED <<embedder, given, batches>>
      /\ IF fails THEN vectors' = <<>> /\ pc' = "returned" /\ outcome' = "error"
         ELSE vectors' = vectors \o v /\ pc' = pc /\ outcome' = outcome
  BY DEF Embedding!CreateEmbedding, Embedding!Ended
<1>2. Embedding!TypeOK /\ Batched /\ Requested /\ Counted /\ Asking /\ Stripped /\ outcome = "none"
  BY <1>1 DEF EmbedInv
<1>3. /\ embedder \in Embedding!Embedder /\ batches \in Seq(Seq(Embedding!Sent))
      /\ sent \in Seq(Seq(Embedding!Sent)) /\ answers \in Seq(Embedding!Answers)
      /\ vectors \in Seq(0..MaxTexts) /\ MaxTexts \in Nat
  BY <1>2, BoundsAssumption DEF Embedding!TypeOK
<1>4. n \in 1..Len(batches) /\ n \in Nat /\ batch \in Seq(Embedding!Sent) /\ Len(sent) = n - 1
  BY <1>1, <1>3
<1>5. /\ sent' \in Seq(Seq(Embedding!Sent)) /\ answers' \in Seq(Embedding!Answers)
      /\ Len(answers) = Len(sent) /\ Len(sent') = n /\ Len(answers') = n
      /\ \A k \in 1..(n - 1) : sent'[k] = sent[k] /\ answers'[k] = answers[k]
      /\ sent'[n] = batch /\ answers'[n] = a
  BY <1>1, <1>2, <1>3, <1>4 DEF Requested
<1>6. CASE fails
  <2>1. Embedding!TypeOK'
    BY <1>1, <1>2, <1>5, <1>6 DEF Embedding!TypeOK
  <2>2. EmbedInv'
    BY <1>1, <1>2, <1>6, <2>1 DEF EmbedInv, Asking, Stripped
  <2> QED BY <1>1, <1>6, <2>2, NothingSaid
<1>7. CASE ~fails
  <2> DEFINE u == Upto(n - 1)
             w == Upto(n)
  <2>1. /\ Words \in Seq(Embedding!Text) /\ Len(Words) = Len(given) /\ Len(given) \in Nat
        /\ Len(Words) <= MaxTexts
    BY <1>2, WordsAre
  <2>2. n - 1 \in 0..Len(batches) /\ n \in 0..Len(batches)
    BY <1>4
  <2>3. u \in 0..Len(Words) /\ w \in 0..Len(Words) /\ u < w /\ batch = Between(Words, u, w)
    BY <1>2, <1>4, <2>1, <2>2 DEF Batched
  <2>4. /\ v \in Seq(0..MaxTexts)
        /\ embedder.client \notin Embedding!Unchecked => a \in {"each", "empty", "reordered"}
        /\ a \in {"each", "empty", "reordered"} => Len(v) = w - u
        /\ a \in {"each", "empty"} => \A k \in 1..(w - u) : v[k] \in {0, u + k}
    <3> HIDE DEF u, w
    <3> QED BY <1>1, <1>3, <1>7, <2>1, <2>3, VectorsAre
  <2>5. Words' = Words /\ \A k : Upto(k)' = Upto(k)
    <3>1. \A k : Upto(k)' = Upto(k)
      BY <1>1 DEF Upto
    <3>2. \A k : Worded(k)' = Worded(k)
      BY <1>1 DEF Worded, Embedding!KeepsLines
    <3> HIDE DEF Worded
    <3>3. Words' = Words
      BY <1>1, <3>2 DEF Words
    <3> QED BY <3>1, <3>3
  <2> HIDE DEF v, n, u, w, batch
  <2>6. vectors' \in Seq(0..MaxTexts) /\ vectors' = vectors \o v
    BY <1>1, <1>3, <1>7, <2>4, ConcatProperties DEF v, batch, n
  <2>7. Embedding!TypeOK'
    BY <1>1, <1>2, <1>5, <1>7, <2>6 DEF Embedding!TypeOK
  <2>8. Batched'
    BY <1>1, <1>2, <2>5 DEF Batched
  <2>9. Requested'
    <3>1. Remembering!FlattenSeq(sent') = Remembering!FlattenSeq(sent) \o batch
      BY <1>1, <1>3, <1>4, FlatMore
    <3>2. 0 \in 0..Len(Words) /\ u <= w
      BY <2>1, <2>3
    <3>3. Remembering!FlattenSeq(sent) = Between(Words, 0, u)
      BY <1>2, <1>4 DEF Requested, u
    <3>4. Remembering!FlattenSeq(sent') = Between(Words, 0, w)
      BY <1>3, <2>1, <2>3, <3>1, <3>2, <3>3, BetweenIs
    <3>5. Between(Words, 0, Upto(Len(sent)))' = Between(Words, 0, w)
      BY <1>5, <2>5 DEF w, Between
    <3>6. ASSUME NEW k \in 1..n
          PROVE  /\ sent'[k] = batches[k] /\ Embedding!Possible(answers'[k], batches[k])
                 /\ ~Embedding!CreateEmbeddingFails(embedder.client, answers'[k], batches[k])
      <4>1. CASE k = n
        BY <1>1, <1>5, <1>7, <4>1 DEF batch
      <4>2. CASE k # n
        <5>1. k \in 1..(n - 1) /\ k \in 1..Len(sent)
          BY <1>4, <4>2
        <5> QED BY <1>2, <1>5, <5>1 DEF Requested
      <4> QED BY <4>1, <4>2
    <3>7. ASSUME NEW k \in 1..n
          PROVE  /\ Embedding!Possible(answers[k], batches[k])'
                 /\ ~Embedding!CreateEmbeddingFails(embedder.client, answers[k], batches[k])'
      <4>1. Embedding!Possible(answers'[k], batches[k])
            /\ ~Embedding!CreateEmbeddingFails(embedder.client, answers'[k], batches[k])
        BY <3>6
      <4> QED BY <1>1, <4>1 DEF Embedding!Possible, Embedding!CreateEmbeddingFails,
                 Embedding!Vectors
    <3> QED BY <1>1, <1>4, <1>5, <3>4, <3>5, <3>6, <3>7 DEF Requested
  <2>10. Counted'
    <3> SUFFICES ASSUME \A k \in 1..Len(answers') : Whole(k)'
                 PROVE  /\ Len(vectors') = Upto(Len(sent))'
                        /\ (\A k \in 1..Len(answers') : answers'[k] # "reordered") =>
                              \A i \in 1..Len(vectors') : vectors'[i] \in {0, i}
      BY DEF Counted
    <3>1. \A k \in 1..(n - 1) : Whole(k)
      <4> SUFFICES ASSUME NEW k \in 1..(n - 1) PROVE Whole(k)
        OBVIOUS
      <4>1. k \in 1..Len(answers')
        BY <1>4, <1>5
      <4> QED BY <1>1, <1>5, <4>1 DEF Whole
    <3>2. Len(vectors) = u
      BY <1>2, <1>4, <1>5, <3>1 DEF Counted, u
    <3>3. a \in {"each", "empty", "reordered"}
      <4>1. n \in 1..Len(answers')
        BY <1>4, <1>5
      <4> QED BY <1>1, <1>5, <2>4, <4>1 DEF Whole
    <3>4. Len(v) = w - u /\ u \in Nat /\ w \in Nat /\ u < w
      BY <2>1, <2>3, <2>4, <3>3
    <3>5. /\ Len(vectors') = w
          /\ \A i \in 1..w : vectors'[i] = IF i <= u THEN vectors[i] ELSE v[i - u]
      <4>1. /\ Len(vectors \o v) = Len(vectors) + Len(v)
            /\ \A i \in 1..(Len(vectors) + Len(v)) :
                  (vectors \o v)[i] = IF i <= Len(vectors) THEN vectors[i] ELSE v[i - Len(vectors)]
        BY <1>3, <2>4, ConcatProperties
      <4>2. u + (w - u) = w
        BY <3>4
      <4> QED BY <2>6, <3>2, <3>4, <4>1, <4>2
    <3>6. Upto(Len(sent))' = w
      BY <1>5, <2>5 DEF w, Upto
    <3>7. ASSUME \A k \in 1..Len(answers') : answers'[k] # "reordered", NEW i \in 1..w
          PROVE  vectors'[i] \in {0, i}
      <4>1. CASE i <= u
        <5>1. \A k \in 1..(n - 1) : answers[k] # "reordered"
          <6> SUFFICES ASSUME NEW k \in 1..(n - 1) PROVE answers[k] # "reordered"
            OBVIOUS
          <6>1. k \in 1..Len(answers') /\ answers'[k] = answers[k]
            BY <1>4, <1>5
          <6> QED BY <3>7, <6>1
        <5>2. i \in 1..Len(vectors)
          BY <3>2, <3>4, <4>1
        <5>3. vectors[i] \in {0, i}
          BY <1>2, <1>4, <1>5, <3>1, <5>1, <5>2 DEF Counted
        <5> QED BY <3>5, <4>1, <5>3
      <4>2. CASE ~(i <= u)
        <5>1. n \in 1..Len(answers')
          BY <1>4, <1>5
        <5>2. a \in {"each", "empty"}
          BY <1>5, <3>3, <3>7, <5>1
        <5>3. i - u \in 1..(w - u) /\ u + (i - u) = i
          BY <3>4, <4>2
        <5>4. v[i - u] \in {0, i}
          BY <2>4, <5>2, <5>3
        <5> QED BY <3>5, <4>2, <5>4
      <4> QED BY <4>1, <4>2
    <3> QED BY <3>5, <3>6, <3>7
  <2>11. Asking' /\ Stripped'
    <3>1. ASSUME embedder.method = "query"
          PROVE  /\ Len(batches) = 1 /\ Len(given) = 1 /\ embedder.size = 1
                 /\ Len(sent') = 1 => vectors' = Embedding!Vectors(answers'[1], batches'[1])
      <4>1. Len(batches) = 1 /\ Len(given) = 1 /\ embedder.size = 1
        BY <1>1, <1>2, <3>1 DEF Asking
      <4>2. n = 1 /\ Len(sent) = 0
        BY <1>4, <4>1
      <4>3. u = 0
        BY <1>2, <4>2 DEF u, Batched
      <4>4. Len(vectors) = 0
        <5>1. 1..Len(answers) = {}
          BY <1>5, <4>2
        <5>2. Upto(Len(sent)) = 0
          BY <1>2, <4>2 DEF Batched
        <5> QED BY <1>2, <5>1, <5>2 DEF Counted
      <4>5. vectors' = v
        <5>1. vectors = <<>>
          BY <1>3, <4>4
        <5> QED BY <2>4, <2>6, <5>1
      <4>6. answers'[1] = a /\ batches'[1] = batch
        BY <1>1, <1>5, <4>2 DEF batch
      <4> QED BY <4>1, <4>5, <4>6 DEF v
    <3> QED BY <1>1, <1>2, <3>1 DEF Asking, Stripped, Embedding!Vectors
  <2> QED BY <1>1, <1>2, <1>7, <2>7, <2>8, <2>9, <2>10, <2>11, NothingSaid DEF EmbedInv
<1> QED BY <1>6, <1>7

(* When all batches are answered their texts are all of them.              *)
LEMMA AllAreSent ==
    ASSUME EmbedInv, pc = "request", Len(sent) = Len(batches)
    PROVE  /\ Len(Remembering!FlattenSeq(sent)) = Len(given) /\ Len(given) \in Nat
           /\ \A i \in 1..Len(given) :
                 /\ Remembering!FlattenSeq(sent)[i].place = i
                 /\ Remembering!FlattenSeq(sent)[i].text = Worded(i)
           /\ \A n \in DOMAIN sent : Len(sent[n]) <= embedder.size
<1>1. /\ Embedding!TypeOK /\ Batched /\ Requested /\ MaxTexts \in Nat
      /\ sent \in Seq(Seq(Embedding!Sent)) /\ embedder.size \in Int
  BY BoundsAssumption DEF EmbedInv, Embedding!TypeOK, Embedding!Embedder
<1>2. /\ Words \in Seq(Embedding!Text) /\ Len(Words) = Len(given) /\ Len(given) \in Nat
      /\ Len(Words) <= MaxTexts
      /\ \A i \in 1..Len(given) : Words[i] = Worded(i)
  BY <1>1, WordsAre
<1>3. Remembering!FlattenSeq(sent) = Between(Words, 0, Len(given))
  BY <1>1 DEF Requested, Upto
<1> HIDE DEF Words, Worded, Upto
<1>4. /\ Len(Between(Words, 0, Len(given))) = Len(given) - 0
      /\ \A k \in 1..(Len(given) - 0) :
            Between(Words, 0, Len(given))[k] = [place |-> 0 + k, text |-> Words[0 + k]]
  <2>1. 0 \in 0..Len(Words) /\ Len(given) \in 0..Len(Words) /\ 0 <= Len(given)
    BY <1>2
  <2> QED BY <1>1, <1>2, <2>1, BetweenIs
<1>5. \A i \in 1..Len(given) :
         Between(Words, 0, Len(given))[i] = [place |-> i, text |-> Worded(i)]
  BY <1>2, <1>4
<1>6. ASSUME NEW n \in DOMAIN sent PROVE Len(sent[n]) <= embedder.size
  <2>1. n \in 1..Len(sent) /\ n \in 1..Len(batches) /\ sent[n] = batches[n]
    BY <1>1 DEF Requested
  <2>2. /\ Upto(n - 1) < Upto(n) /\ Upto(n) <= Upto(n - 1) + embedder.size
        /\ batches[n] = Between(Words, Upto(n - 1), Upto(n))
    BY <1>1, <2>1 DEF Batched
  <2>3. n - 1 \in 0..Len(batches) /\ n \in 0..Len(batches)
    BY <2>1
  <2>4. Upto(n - 1) \in 0..Len(Words) /\ Upto(n) \in 0..Len(Words)
    BY <1>1, <1>2, <2>3 DEF Batched
  <2>5. Upto(n - 1) <= Upto(n)
    BY <1>2, <2>2, <2>4
  <2>6. Len(batches[n]) = Upto(n) - Upto(n - 1)
    BY <1>1, <1>2, <2>2, <2>4, <2>5, BetweenIs
  <2> QED BY <1>1, <1>2, <2>1, <2>2, <2>4, <2>6
<1>7. \A i \in 1..Len(given) :
         /\ Remembering!FlattenSeq(sent)[i].place = i
         /\ Remembering!FlattenSeq(sent)[i].text = Worded(i)
  <2> SUFFICES ASSUME NEW i \in 1..Len(given)
               PROVE  /\ Remembering!FlattenSeq(sent)[i].place = i
                      /\ Remembering!FlattenSeq(sent)[i].text = Worded(i)
    OBVIOUS
  <2>1. Remembering!FlattenSeq(sent)[i] = [place |-> i, text |-> Worded(i)]
    BY <1>3, <1>5
  <2> QED BY <2>1
<1>8. Len(Remembering!FlattenSeq(sent)) = Len(given)
  BY <1>2, <1>3, <1>4
<1> QED BY <1>2, <1>6, <1>7, <1>8

(* A query without a vector was answered with none by one who does not count. *)
LEMMA UnansweredQuery ==
    ASSUME EmbedInv, pc = "request", Len(sent) = Len(batches),
           embedder.method = "query", vectors = <<>>
    PROVE  embedder.client \in Embedding!Unchecked /\ answers = <<"none">>
<1>1. /\ Embedding!TypeOK /\ Batched /\ Requested /\ Asking /\ MaxTexts \in Nat
      /\ embedder \in Embedding!Embedder /\ answers \in Seq(Embedding!Answers)
  BY BoundsAssumption DEF EmbedInv, Embedding!TypeOK
<1>2. Len(batches) = 1 /\ Len(given) = 1 /\ vectors = Embedding!Vectors(answers[1], batches[1])
  BY <1>1 DEF Asking
<1>3. Len(answers) = 1 /\ answers[1] \in Embedding!Answers /\ answers = <<answers[1]>>
  <2>1. Len(answers) = 1
    BY <1>1, <1>2 DEF Requested
  <2> QED BY <1>1, <2>1
<1>4. /\ Words \in Seq(Embedding!Text) /\ Len(Words) = 1 /\ Len(Words) <= MaxTexts
  BY <1>1, <1>2, WordsAre
<1>5. Upto(0) = 0 /\ Upto(1) = 1
  BY <1>1, <1>2 DEF Batched, Upto
<1>6. /\ batches[1] = Between(Words, 0, 1)
      /\ Embedding!Possible(answers[1], batches[1])
      /\ ~Embedding!CreateEmbeddingFails(embedder.client, answers[1], batches[1])
  <2>1. 1 \in 1..Len(batches) /\ 1 \in 1..Len(sent) /\ 1 - 1 = 0
    BY <1>2
  <2>2. batches[1] = Between(Words, Upto(1 - 1), Upto(1))
    BY <1>1, <2>1 DEF Batched
  <2>3. sent[1] = batches[1] /\ Embedding!Possible(answers[1], batches[1])
        /\ ~Embedding!CreateEmbeddingFails(embedder.client, answers[1], batches[1])
    BY <1>1, <2>1 DEF Requested
  <2> QED BY <1>5, <2>1, <2>2, <2>3
<1> HIDE DEF Words
<1>7. 0 \in 0..Len(Words) /\ 1 \in 0..Len(Words) /\ 0 < 1 /\ 0 <= 1
  BY <1>4
<1>8. /\ embedder.client \notin Embedding!Unchecked => answers[1] \in {"each", "empty", "reordered"}
      /\ answers[1] \in {"none", "less"}
  <2> DEFINE words == Words
             a == answers[1]
  <2>1. /\ Embedding!Vectors(a, Between(words, 0, 1)) = <<>>
        /\ Embedding!Possible(a, Between(words, 0, 1))
        /\ ~Embedding!CreateEmbeddingFails(embedder.client, a, Between(words, 0, 1))
    BY <1>2, <1>6
  <2>2. a \in Embedding!Answers /\ words \in Seq(Embedding!Text)
        /\ Len(words) <= MaxTexts /\ 0 \in 0..Len(words) /\ 1 \in 0..Len(words)
    BY <1>3, <1>4, <1>7
  <2> HIDE DEF words, a
  <2>3. \A m \in 0..Len(words), n \in 0..Len(words) :
           (/\ m < n /\ Embedding!Possible(a, Between(words, m, n))
            /\ ~Embedding!CreateEmbeddingFails(embedder.client, a, Between(words, m, n))) =>
             /\ embedder.client \notin Embedding!Unchecked => a \in {"each", "empty", "reordered"}
             /\ Embedding!Vectors(a, Between(words, m, n)) = <<>> => a \in {"none", "less"}
    <3> SUFFICES ASSUME NEW m \in 0..Len(words), NEW n \in 0..Len(words), m < n,
                        Embedding!Possible(a, Between(words, m, n)),
                        ~Embedding!CreateEmbeddingFails(embedder.client, a, Between(words, m, n))
                 PROVE  /\ embedder.client \notin Embedding!Unchecked =>
                              a \in {"each", "empty", "reordered"}
                        /\ Embedding!Vectors(a, Between(words, m, n)) = <<>> =>
                              a \in {"none", "less"}
      OBVIOUS
    <3> QED BY <1>1, <2>2, VectorsAre
  <2>4. 0 < 1
    OBVIOUS
  <2> QED BY <2>1, <2>2, <2>3, <2>4 DEF a
<1>9. Len(batches[1]) = 1
  <2> DEFINE words == Words
  <2>1. words \in Seq(Embedding!Text) /\ Len(words) = 1 /\ Len(words) <= MaxTexts
    BY <1>4
  <2>2. batches[1] = Between(words, 0, 1)
    BY <1>6
  <2> HIDE DEF words
  <2>3. \A m \in 0..Len(words), n \in 0..Len(words) : m <= n => Len(Between(words, m, n)) = n - m
    BY <1>1, <2>1, BetweenIs
  <2>4. 0 \in 0..Len(words) /\ 1 \in 0..Len(words)
    BY <2>1
  <2>5. Len(Between(words, 0, 1)) = 1 - 0
    <3>1. 0 <= 1
      OBVIOUS
    <3> QED BY <2>3, <2>4, <3>1
  <2> QED BY <2>2, <2>5
<1>10. answers[1] # "less"
  <2> SUFFICES ASSUME answers[1] = "less" PROVE FALSE
    OBVIOUS
  <2>1. Embedding!Possible("less", batches[1])
    BY <1>6
  <2>2. Len(batches[1]) > 1
    BY <2>1 DEF Embedding!Possible
  <2> QED BY <1>9, <2>2
<1> QED BY <1>3, <1>8, <1>10

(* A call returns the vectors of its texts.                                *)
LEMMA Returns ==
    ASSUME EmbedInv, AsTexts, Embedding!Return
    PROVE  EmbedInv' /\ AsTexts'
<1> DEFINE asked == embedder.method = "query"
<1>1. /\ pc = "request" /\ pc' = "returned" /\ Len(sent) = Len(batches)
      /\ UNCHANGED <<embedder, given, batches, sent, answers>>
      /\ outcome' = IF asked /\ vectors = <<>> THEN "panic" ELSE "ok"
      /\ vectors' = IF asked /\ vectors # <<>> THEN <<vectors[1]>> ELSE vectors
  BY DEF Embedding!Return, Embedding!Ended
<1>2. /\ Embedding!TypeOK /\ Batched /\ Requested /\ Counted /\ Asking /\ Stripped
      /\ embedder \in Embedding!Embedder /\ vectors \in Seq(0..MaxTexts)
      /\ answers \in Seq(Embedding!Answers) /\ given \in Seq(Embedding!Text)
  BY <1>1 DEF EmbedInv, Embedding!TypeOK
<1>3. vectors' \in Seq(0..MaxTexts) /\ (Len(vectors) = 1 => vectors' = vectors)
  <2>1. CASE asked /\ vectors # <<>>
    <3>1. vectors' = <<vectors[1]>>
      BY <1>1, <2>1
    <3>2. vectors[1] \in 0..MaxTexts
      <4>1. Len(vectors) \in Nat /\ Len(vectors) # 0
        BY <1>2, <2>1
      <4>2. 1 \in 1..Len(vectors)
        BY <4>1
      <4> QED BY <1>2, <4>2, ElementOfSeq
    <3>3. Len(vectors) = 1 => vectors = <<vectors[1]>>
      BY <1>2
    <3>4. vectors' \in Seq(0..MaxTexts)
      BY <3>1, <3>2
    <3> QED BY <3>1, <3>3, <3>4
  <2>2. CASE ~(asked /\ vectors # <<>>)
    <3>1. vectors' = vectors
      BY <1>1, <2>2
    <3> QED BY <1>2, <3>1
  <2> QED BY <2>1, <2>2
<1>4. EmbedInv'
  <2>1. Embedding!TypeOK'
    BY <1>1, <1>2, <1>3 DEF Embedding!TypeOK
  <2> QED BY <1>1, <1>2, <2>1 DEF EmbedInv, Asking, Stripped
<1>5. ASSUME \A n \in 1..Len(answers) : Whole(n)
      PROVE  /\ Len(vectors') = Len(given)
             /\ (\A n \in 1..Len(answers) : answers[n] # "reordered") =>
                   \A i \in 1..Len(vectors') : vectors'[i] \in {0, i}
  <2>1. Len(vectors) = Len(given)
    BY <1>1, <1>2, <1>5 DEF Counted, Upto
  <2>2. vectors' = vectors
    BY <1>1, <1>2, <1>3, <2>1 DEF Asking
  <2> QED BY <1>2, <1>5, <2>1, <2>2 DEF Counted
<1>6. Embedding!TextsAreSent'
  <2> DEFINE all == Remembering!FlattenSeq(sent)
  <2>1. /\ Len(all) = Len(given) /\ Len(given) \in Nat
        /\ \A i \in 1..Len(given) : all[i].place = i /\ all[i].text = Worded(i)
        /\ \A n \in DOMAIN sent : Len(sent[n]) <= embedder.size
    BY <1>1, AllAreSent
  <2>2. Embedding!FlattenSeq(sent) = all
    BY FlattenedAlike
  <2>3. \A i \in 1..Len(given) :
           /\ (embedder.strip /\ (embedder.method = "documents" \/ ~Embedding!KeepsLines)) =>
                 Worded(i) = "plain"
           /\ embedder.method = "documents" => Worded(i) = given[i]
    BY <1>1, <1>2 DEF Worded, Stripped, Embedding!Embedder
  <2>4. DOMAIN all = 1..Len(given)
    <3>1. all \in Seq(Embedding!Sent)
      <4>1. <<>> \in Seq(Seq(Embedding!Sent)) /\ sent \in Seq(Seq(Embedding!Sent))
        BY <1>2 DEF Embedding!TypeOK
      <4> QED BY <4>1, FlatConcat
    <3> QED BY <2>1, <3>1
  <2> HIDE DEF all, Worded
  <2> QED BY <1>1, <2>1, <2>2, <2>3, <2>4 DEF Embedding!TextsAreSent, Embedding!KeepsLines
<1>7. Embedding!VectorsOfTexts' /\ Embedding!CountedOrOneByOne'
  <2>1. ASSUME embedder.client \notin Embedding!Unchecked PROVE Len(vectors') = Len(given)
    BY <1>5, <2>1 DEF Whole
  <2>2. ASSUME ~Embedding!InAnswers("reordered"),
               \A n \in DOMAIN answers :
                  embedder.client \in Embedding!Checked \/ answers[n] \in {"each", "empty"}
        PROVE  /\ Len(vectors') = Len(given)
               /\ \A i \in 1..Len(vectors') : vectors'[i] \in {0, i}
    <3>1. \A n \in 1..Len(answers) : Whole(n)
      BY <1>2, <2>2 DEF Whole, Embedding!Checked, Embedding!Unchecked
    <3>2. \A n \in 1..Len(answers) : answers[n] # "reordered"
      BY <1>2, <2>2 DEF Embedding!InAnswers
    <3> QED BY <1>5, <3>1, <3>2
  <2>3. DOMAIN vectors' = 1..Len(vectors') /\ DOMAIN answers = 1..Len(answers)
    BY <1>2, <1>3
  <2>4. Embedding!CountedOrOneByOne'
    BY <1>1, <2>1 DEF Embedding!CountedOrOneByOne
  <2>5. Embedding!VectorsOfTexts'
    BY <1>1, <2>2, <2>3 DEF Embedding!VectorsOfTexts, Embedding!InAnswers
  <2> QED BY <2>4, <2>5
<1>8. Embedding!EmbedderPanicsKnown'
  <2>1. outcome' = "panic" => embedder.client \in Embedding!Unchecked /\ answers = <<"none">>
    BY <1>1, UnansweredQuery
  <2> QED BY <1>1, <2>1 DEF Embedding!EmbedderPanicsKnown
<1> QED BY <1>4, <1>6, <1>7, <1>8 DEF AsTexts

(* Every step of an embedder keeps what is said of it.                     *)
LEMMA EmbedSteps ==
    ASSUME EmbedInv, AsTexts, [Embedding!Next]_(Embedding!vars)
    PROVE  EmbedInv' /\ AsTexts'
<1>1. CASE Embedding!EmbedDocuments
  BY <1>1, Batches
<1>2. CASE Embedding!EmbedQuery
  BY <1>2, Queries
<1>3. CASE \E a \in Embedding!Answers : Embedding!CreateEmbedding(a)
  BY <1>3, Creates
<1>4. CASE Embedding!Return
  BY <1>4, Returns
<1>5. CASE UNCHANGED Embedding!vars
  <2>1. UNCHANGED <<embedder, given, batches, sent, answers, vectors, pc, outcome>>
    BY <1>5 DEF Embedding!vars
  <2>2. Embedding!TypeOK' /\ Asking' /\ Stripped'
    BY <2>1 DEF EmbedInv, Embedding!TypeOK, Asking, Stripped, Embedding!Vectors
  <2>3. Words' = Words /\ \A n : Upto(n)' = Upto(n)
    <3>1. \A n : Worded(n)' = Worded(n) /\ Upto(n)' = Upto(n)
      BY <2>1 DEF Worded, Upto, Embedding!KeepsLines
    <3> HIDE DEF Worded, Upto
    <3> QED BY <2>1, <3>1 DEF Words
  <2> HIDE DEF Words, Upto
  <2>4. pc = "request" => Batched' /\ Requested' /\ Counted'
    <3>1. pc = "request" => Batched'
      BY <2>1, <2>3 DEF EmbedInv, Batched, Between
    <3>2. pc = "request" => Requested'
      BY <2>1, <2>3 DEF EmbedInv, Requested, Between, Embedding!Possible,
         Embedding!CreateEmbeddingFails, Embedding!Vectors
    <3>3. pc = "request" => Counted'
      BY <2>1, <2>3 DEF EmbedInv, Counted, Whole
    <3> QED BY <3>1, <3>2, <3>3
  <2>5. AsTexts'
    BY <2>1 DEF AsTexts, Embedding!TextsAreSent, Embedding!VectorsOfTexts,
       Embedding!CountedOrOneByOne, Embedding!EmbedderPanicsKnown, Embedding!InAnswers,
       Embedding!KeepsLines
  <2> QED BY <2>1, <2>2, <2>4, <2>5 DEF EmbedInv
<1> QED BY <1>1, <1>2, <1>3, <1>4, <1>5 DEF Embedding!Next

-----------------------------------------------------------------------------
(* Configuration: the options in the order they are given.                 *)

\* The options that are about a field, of the first ones, and what a field is
\* when they are applied.
At(f, n) == {i \in 1..n : /\ f \in Configuring!Sets(pkg, opts[i][1])
                         /\ ~Configuring!Skipped(opts[i][1], opts[i][2])}
Latest(s, n) == [f \in DOMAIN s |-> IF At(f, n) = {} THEN s[f]
                                    ELSE opts[Configuring!Max(At(f, n))][2]]

(* The last of the first so many positions.                                *)
LEMMA LastIs ==
    ASSUME NEW n \in Nat \ {0}, NEW S \in SUBSET (1..n), n \in S
    PROVE  Configuring!Max(S) = n
<1>1. n \in S /\ \A y \in S : n >= y
  OBVIOUS
<1>2. \A x \in S : (\A y \in S : x >= y) => x = n
  OBVIOUS
<1> QED BY <1>1, <1>2 DEF Configuring!Max

(* Of some of the first positions one is the last.                         *)
LEMMA LastExists ==
    ASSUME NEW n \in Nat, NEW S \in SUBSET (1..n), S # {}
    PROVE  Configuring!Max(S) \in S
<1> DEFINE T == {k \in Nat : n - k \in S}
<1>1. PICK x \in S : TRUE
  OBVIOUS
<1>2. n - x \in T
  BY <1>1
<1>3. PICK k \in T : \A j \in T : ~(<<j, k>> \in OpToRel(<, Nat))
  <2>1. T \subseteq Nat /\ T # {}
    BY <1>2
  <2> HIDE DEF T
  <2> QED BY <2>1, WFMin, NatLessThanWellFounded
<1>4. ASSUME NEW y \in S PROVE n - k >= y
  <2>0. k \in Nat /\ n - k \in S /\ y \in 1..n
    OBVIOUS
  <2> SUFFICES ASSUME n - k < y PROVE FALSE
    BY <2>0
  <2>1. n - y < k /\ n - y \in Nat /\ n - (n - y) = y
    BY <2>0
  <2>3. n - y \in T
    BY <2>1
  <2>2. <<n - y, k>> \in OpToRel(<, Nat)
    BY <2>1 DEF OpToRel
  <2> HIDE DEF T
  <2> QED BY <1>3, <2>2, <2>3
<1>5. \E m \in S : \A y \in S : m >= y
  BY <1>3, <1>4
<1> QED BY <1>5 DEF Configuring!Max

(* An option more changes what it is about.                                *)
LEMMA LatestStep ==
    ASSUME NEW s, NEW n \in 1..Len(opts)
    PROVE  Latest(s, n) = Configuring!Apply(Latest(s, n - 1), opts[n])
<1> DEFINE those == Configuring!Sets(pkg, opts[n][1])
<1>1. n \in Nat \ {0} /\ n - 1 \in Nat /\ 1..n = (1..(n - 1)) \cup {n}
  OBVIOUS
<1>2. \A f : At(f, n) = At(f, n - 1) \cup
             (IF f \in those /\ ~Configuring!Skipped(opts[n][1], opts[n][2]) THEN {n} ELSE {})
  BY <1>1 DEF At
<1>3. CASE Configuring!Skipped(opts[n][1], opts[n][2])
  <2>1. \A f : At(f, n) = At(f, n - 1)
    BY <1>2, <1>3
  <2>2. Latest(s, n) = Latest(s, n - 1)
    BY <2>1 DEF Latest
  <2> QED BY <1>3, <2>2 DEF Configuring!Apply
<1>4. CASE ~Configuring!Skipped(opts[n][1], opts[n][2])
  <2> HIDE DEF those
  <2>1. \A f \in those : At(f, n) # {} /\ Configuring!Max(At(f, n)) = n
    <3> SUFFICES ASSUME NEW f \in those
                 PROVE  At(f, n) # {} /\ Configuring!Max(At(f, n)) = n
      OBVIOUS
    <3>1. n \in At(f, n) /\ At(f, n) \in SUBSET (1..n)
      BY <1>2, <1>4 DEF At
    <3> QED BY <1>1, <3>1, LastIs
  <2>2. \A f : f \notin those => At(f, n) = At(f, n - 1)
    BY <1>2
  <2>3. DOMAIN Latest(s, n - 1) = DOMAIN s
        /\ \A f \in DOMAIN s : Latest(s, n - 1)[f] = IF At(f, n - 1) = {} THEN s[f]
                                ELSE opts[Configuring!Max(At(f, n - 1))][2]
    BY DEF Latest
  <2>4. Configuring!Apply(Latest(s, n - 1), opts[n])
           = [f \in DOMAIN s |-> IF f \in those THEN opts[n][2] ELSE Latest(s, n - 1)[f]]
    BY <1>4, <2>3 DEF Configuring!Apply, those
  <2>5. \A f \in DOMAIN s :
           (IF At(f, n) = {} THEN s[f] ELSE opts[Configuring!Max(At(f, n))][2])
              = IF f \in those THEN opts[n][2] ELSE Latest(s, n - 1)[f]
    BY <2>1, <2>2, <2>3
  <2> QED BY <2>4, <2>5 DEF Latest
<1> QED BY <1>3, <1>4

(* The options applied one after the other, whatever their number: a smallest place
   where that is not what the last option says cannot be. *)
LEMMA AppliedIs ==
    ASSUME NEW s, s = [f \in DOMAIN s |-> s[f]], Len(opts) \in Nat
    PROVE  Configuring!Applied(s) = Latest(s, Len(opts))
<1> DEFINE Stages(g) == g = [n \in 0..Len(opts) |->
                                IF n = 0 THEN s ELSE Configuring!Apply(g[n - 1], opts[n])]
<1>1. Latest(s, 0) = s
  <2>1. \A f : At(f, 0) = {}
    BY DEF At
  <2> QED BY <2>1 DEF Latest
<1>2. \E g : Stages(g)
  <2> DEFINE g == [n \in 0..Len(opts) |-> Latest(s, n)]
  <2>1. \A n \in 0..Len(opts) : Latest(s, n) = IF n = 0 THEN s
                                ELSE Configuring!Apply(g[n - 1], opts[n])
    <3> SUFFICES ASSUME NEW n \in 0..Len(opts), n # 0
                 PROVE  Latest(s, n) = Configuring!Apply(g[n - 1], opts[n])
      BY <1>1
    <3>1. n \in 1..Len(opts) /\ n - 1 \in 0..Len(opts)
      OBVIOUS
    <3> QED BY <3>1, LatestStep
  <2>2. Stages(g)
    BY <2>1
  <2> HIDE DEF g, Stages
  <2> QED BY <2>2
<1> DEFINE after == CHOOSE g : Stages(g)
<1>3. Configuring!Applied(s) = after[Len(opts)]
  BY DEF Configuring!Applied
<1>4. Stages(after)
  <2> HIDE DEF Stages
  <2> QED BY <1>2, Zenon
<1> HIDE DEF after
<1>5. \A n \in 0..Len(opts) :
         after[n] = IF n = 0 THEN s ELSE Configuring!Apply(after[n - 1], opts[n])
  BY <1>4
<1> HIDE DEF Stages
<1> DEFINE bad == {n \in 0..Len(opts) : after[n] # Latest(s, n)}
<1>6. bad = {}
  <2> SUFFICES ASSUME bad # {} PROVE FALSE
    OBVIOUS
  <2>1. bad \subseteq Nat
    OBVIOUS
  <2>2. PICK n \in bad : \A k \in bad : ~(<<k, n>> \in OpToRel(<, Nat))
    <3> HIDE DEF bad
    <3> QED BY <2>1, WFMin, NatLessThanWellFounded
  <2>3. n \in 0..Len(opts) /\ after[n] # Latest(s, n)
    OBVIOUS
  <2>4. n # 0
    BY <1>1, <1>5, <2>3
  <2>5. n \in 1..Len(opts) /\ n - 1 \in 0..Len(opts) /\ n - 1 < n
    BY <2>3, <2>4
  <2>6. n - 1 \notin bad
    <3>1. <<n - 1, n>> \in OpToRel(<, Nat)
      BY <2>5 DEF OpToRel
    <3> HIDE DEF bad
    <3> QED BY <2>2, <3>1
  <2>7. after[n - 1] = Latest(s, n - 1)
    BY <2>5, <2>6
  <2> QED BY <1>5, <2>3, <2>4, <2>5, <2>7, LatestStep
<1>7. Len(opts) \in 0..Len(opts)
  OBVIOUS
<1> QED BY <1>3, <1>6, <1>7

(* What the caller has asked of a field is what the field is.              *)
LEMMA AskedIs ==
    ASSUME Configuring!IInv, NEW s, s = [f \in DOMAIN s |-> s[f]], NEW f \in DOMAIN s
    PROVE  /\ DOMAIN Configuring!Applied(s) = DOMAIN s
           /\ Configuring!Asked(f) \in {Configuring!None, "blank", "first", "second", "third"}
           /\ Configuring!Applied(s)[f] = IF Configuring!Asked(f) = Configuring!None
                                          THEN s[f] ELSE Configuring!Asked(f)
<1>1. /\ Len(opts) \in Nat /\ DOMAIN opts = 1..Len(opts)
      /\ \A n \in 1..Len(opts) : opts[n][2] \in {"blank", "first", "second", "third"}
  BY DEF Configuring!IInv, Configuring!TypeOK
<1>2. Configuring!AskedAt(f) = At(f, Len(opts))
  BY <1>1 DEF Configuring!AskedAt, At
<1>3. Configuring!Applied(s) = Latest(s, Len(opts))
  BY <1>1, AppliedIs
<1>4. CASE At(f, Len(opts)) = {}
  <2>1. Configuring!Asked(f) = Configuring!None
    BY <1>2, <1>4 DEF Configuring!Asked
  <2> QED BY <1>3, <1>4, <2>1 DEF Latest
<1>5. CASE At(f, Len(opts)) # {}
  <2>1. Configuring!Asked(f) = opts[Configuring!Max(At(f, Len(opts)))][2]
    BY <1>2, <1>5 DEF Configuring!Asked
  <2>2. Configuring!Max(At(f, Len(opts))) \in 1..Len(opts)
    <3>1. At(f, Len(opts)) \in SUBSET (1..Len(opts))
      BY DEF At
    <3> QED BY <1>1, <1>5, <3>1, LastExists
  <2>3. Configuring!Asked(f) \in {"blank", "first", "second", "third"}
    BY <1>1, <2>1, <2>2
  <2>4. Configuring!Applied(s)[f] = opts[Configuring!Max(At(f, Len(opts)))][2]
    BY <1>3, <1>5 DEF Latest
  <2>5. DOMAIN Configuring!Applied(s) = DOMAIN s
    BY <1>3 DEF Latest
  <2> QED BY <2>1, <2>3, <2>4, <2>5 DEF Configuring!None
<1> QED BY <1>4, <1>5


\* The settings before a package has its own way with them.
Opted == Configuring!Applied(Configuring!Started)
Chosen == Configuring!Late(Opted)

(* What a package reads of the environment it has a field for.             *)
LEMMA ReadIsField ==
    ASSUME NEW p
    PROVE  /\ Configuring!PackageOf(p).env \subseteq Configuring!EnvOf(p)
           /\ Configuring!PackageOf(p).lateEnv \subseteq Configuring!EnvOf(p)
           /\ Configuring!EnvOf(p) \subseteq Configuring!Fields(p)
           /\ p = "googleai" => "apiKey" \in Configuring!EnvOf(p)
<1>1. \A f \in Configuring!EnvOf(p) : f \in Configuring!Fields(p)
  BY DEF Configuring!Fields
<1>2. /\ \A f \in Configuring!PackageOf(p).env : f \in Configuring!EnvOf(p)
      /\ \A f \in Configuring!PackageOf(p).lateEnv : f \in Configuring!EnvOf(p)
      /\ p = "googleai" => "apiKey" \in Configuring!EnvOf(p)
  BY DEF Configuring!EnvOf
<1> QED BY <1>1, <1>2

(* What a field is before the options.                                     *)
LEMMA StartedIs ==
    ASSUME Configuring!IInv
    PROVE  /\ DOMAIN Configuring!Started = Configuring!Fields(pkg)
           /\ Configuring!Started = [f \in DOMAIN Configuring!Started |-> Configuring!Started[f]]
           /\ \A f \in Configuring!Fields(pkg) :
                 Configuring!Started[f] =
                    IF f \in Configuring!Me.env /\ Configuring!Environment[f] # "blank"
                    THEN Configuring!Environment[f]
                    ELSE IF f \in Configuring!Me.default THEN "default" ELSE "blank"
           /\ \A f \in Configuring!EnvOf(pkg) :
                 /\ environment[f] \in {"blank", "before", "after"}
                 /\ Configuring!Environment[f] \in {"blank", "before", "after"}
                 /\ Configuring!Environment[f] = environment[f] \/ (pkg = "palm" /\ pc # "open")
           /\ \A f \in Configuring!Fields(pkg) :
                 Configuring!Started[f] \in {"blank", "default", "before", "after"}
<1>1. /\ environment \in [Configuring!EnvOf(pkg) -> {"blank", "before", "after"}]
      /\ remembered # <<>> => remembered \in [Configuring!EnvOf(pkg) -> {"blank", "before"}]
      /\ pc = "open" => remembered = <<>>
  BY DEF Configuring!IInv, Configuring!TypeOK
<1>2. \A f \in Configuring!EnvOf(pkg) :
         /\ environment[f] \in {"blank", "before", "after"}
         /\ Configuring!Environment[f] \in {"blank", "before", "after"}
         /\ Configuring!Environment[f] = environment[f] \/ (pkg = "palm" /\ pc # "open")
  BY <1>1 DEF Configuring!Environment
<1>3. Configuring!Started = [f \in Configuring!Fields(pkg) |->
         IF f \in Configuring!Me.env /\ Configuring!Environment[f] # "blank"
         THEN Configuring!Environment[f]
         ELSE IF f \in Configuring!Me.default THEN "default" ELSE "blank"]
  BY DEF Configuring!Started
<1>4. \A f \in Configuring!Me.env : f \in Configuring!EnvOf(pkg)
  BY ReadIsField DEF Configuring!Me
<1> DEFINE start == Configuring!Started
<1>5. /\ DOMAIN start = Configuring!Fields(pkg)
      /\ \A f \in Configuring!Fields(pkg) :
           start[f] = IF f \in Configuring!Me.env /\ Configuring!Environment[f] # "blank"
                      THEN Configuring!Environment[f]
                      ELSE IF f \in Configuring!Me.default THEN "default" ELSE "blank"
  BY <1>3
<1>6. start = [f \in DOMAIN start |-> start[f]]
  BY <1>3
<1> HIDE DEF start
<1>7. \A f \in Configuring!Fields(pkg) : start[f] \in {"blank", "default", "before", "after"}
  BY <1>2, <1>4, <1>5
<1> QED BY <1>2, <1>5, <1>6, <1>7 DEF start

(* What is late fills in what is blank, and only that.                     *)
LEMMA LateIs ==
    ASSUME NEW s, NEW f \in DOMAIN s
    PROVE  /\ DOMAIN Configuring!Late(s) = DOMAIN s
           /\ Configuring!Late(s)[f] =
                 IF s[f] # "blank" THEN s[f]
                 ELSE IF f \in Configuring!Me.lateEnv /\ ~Configuring!Unread(s)
                         /\ environment[f] # "blank" THEN environment[f]
                 ELSE IF f \in Configuring!Me.lateDefault THEN "default" ELSE "blank"
BY DEF Configuring!Late, Configuring!WithDefaults, Configuring!WithEnvironment

(* Where the value of a field is from, unless its package overrules it.    *)
LEMMA ChosenIs ==
    ASSUME Configuring!IInv
    PROVE  /\ DOMAIN Chosen = Configuring!Fields(pkg) /\ DOMAIN Opted = Configuring!Fields(pkg)
           /\ \A f \in Configuring!Fields(pkg) :
              LET asked == Configuring!Asked(f)
                  me == Configuring!Me
              IN /\ Opted[f] \in Configuring!Sources /\ Chosen[f] \in Configuring!Sources
                 /\ asked \notin {Configuring!None, "blank"} => Chosen[f] = asked
                 /\ Opted[f] # "blank" => Chosen[f] = Opted[f]
                 /\ asked = Configuring!None /\ f \in me.env
                    /\ Configuring!Environment[f] # "blank" => Chosen[f] = Configuring!Environment[f]
                 /\ asked = Configuring!None /\ f \in me.lateEnv /\ f \notin me.env
                    /\ environment[f] # "blank" /\ ~Configuring!Unread(Opted) =>
                       Chosen[f] = environment[f]
                 /\ asked \in {Configuring!None, "blank"} /\ f \notin me.default
                    /\ (f \in me.env => Configuring!Environment[f] = "blank")
                    /\ f \notin me.lateEnv /\ f \notin me.lateDefault => Chosen[f] = "blank"
                 /\ f \notin me.lateEnv /\ f \notin me.lateDefault => Chosen[f] = Opted[f]
<1> DEFINE start == Configuring!Started
<1>1. /\ DOMAIN start = Configuring!Fields(pkg) /\ start = [f \in DOMAIN start |-> start[f]]
      /\ \A f \in Configuring!Fields(pkg) :
           /\ start[f] = IF f \in Configuring!Me.env /\ Configuring!Environment[f] # "blank"
                         THEN Configuring!Environment[f]
                         ELSE IF f \in Configuring!Me.default THEN "default" ELSE "blank"
           /\ start[f] \in {"blank", "default", "before", "after"}
      /\ \A f \in Configuring!EnvOf(pkg) : environment[f] \in {"blank", "before", "after"}
  BY StartedIs
<1>2. /\ Configuring!Me.lateEnv \subseteq Configuring!EnvOf(pkg)
      /\ Configuring!Me.lateEnv \cap Configuring!Me.default = {}
  BY ReadIsField, PackagesAssumption DEF Configuring!Me, Configuring!IInv, Configuring!TypeOK
<1>3. Opted = Configuring!Applied(start) /\ Chosen = Configuring!Late(Opted)
  BY DEF Opted, Chosen
<1> HIDE DEF start
<1>4. DOMAIN Opted = Configuring!Fields(pkg)
  <2>1. CASE Configuring!Fields(pkg) = {}
    <3>1. Opted = Latest(start, Len(opts))
      BY <1>1, <1>3, AppliedIs DEF Configuring!IInv, Configuring!TypeOK
    <3> QED BY <1>1, <3>1 DEF Latest
  <2>2. CASE Configuring!Fields(pkg) # {}
    BY <1>1, <1>3, <2>2, AskedIs
  <2> QED BY <2>1, <2>2
<1>5. DOMAIN Chosen = Configuring!Fields(pkg)
  BY <1>3, <1>4 DEF Configuring!Late, Configuring!WithDefaults, Configuring!WithEnvironment
<1>6. ASSUME NEW f \in Configuring!Fields(pkg)
      PROVE  LET asked == Configuring!Asked(f)
                 me == Configuring!Me
             IN /\ Opted[f] \in Configuring!Sources /\ Chosen[f] \in Configuring!Sources
                /\ asked \notin {Configuring!None, "blank"} => Chosen[f] = asked
                /\ Opted[f] # "blank" => Chosen[f] = Opted[f]
                /\ asked = Configuring!None /\ f \in me.env
                   /\ Configuring!Environment[f] # "blank" => Chosen[f] = Configuring!Environment[f]
                /\ asked = Configuring!None /\ f \in me.lateEnv /\ f \notin me.env
                   /\ environment[f] # "blank" /\ ~Configuring!Unread(Opted) =>
                      Chosen[f] = environment[f]
                /\ asked \in {Configuring!None, "blank"} /\ f \notin me.default
                   /\ (f \in me.env => Configuring!Environment[f] = "blank")
                   /\ f \notin me.lateEnv /\ f \notin me.lateDefault => Chosen[f] = "blank"
                /\ f \notin me.lateEnv /\ f \notin me.lateDefault => Chosen[f] = Opted[f]
  <2> DEFINE asked == Configuring!Asked(f)
  <2>1. /\ asked \in {Configuring!None, "blank", "first", "second", "third"}
        /\ Opted[f] = IF asked = Configuring!None THEN start[f] ELSE asked
    BY <1>1, <1>3, AskedIs
  <2>2. Chosen[f] =
           IF Opted[f] # "blank" THEN Opted[f]
           ELSE IF f \in Configuring!Me.lateEnv /\ ~Configuring!Unread(Opted)
                   /\ environment[f] # "blank" THEN environment[f]
           ELSE IF f \in Configuring!Me.lateDefault THEN "default" ELSE "blank"
    BY <1>3, <1>4, LateIs
  <2> HIDE DEF asked
  <2>3. Opted[f] \in Configuring!Sources /\ Chosen[f] \in Configuring!Sources
    BY <1>1, <1>2, <2>1, <2>2 DEF Configuring!Sources, Configuring!None
  <2> QED BY <1>1, <1>2, <2>1, <2>2, <2>3 DEF asked, Configuring!None
<1> QED BY <1>4, <1>5, <1>6


(* What is needed of the packages that have their own way with a setting.  *)
LEMMA PackagesAre ==
    /\ "apiVersion" \in Configuring!Fields("openai")
    /\ LET it == Configuring!PackageOf("openai")
       IN "apiVersion" \notin it.env \cup it.default \cup it.lateEnv \cup it.lateDefault
    /\ Configuring!EnvOf("palm") = {"projectID"} /\ Configuring!EnvOf("maritaca") = {}
    /\ LET it == Configuring!PackageOf("palm")
       IN "projectID" \notin it.default \cup it.lateEnv \cup it.lateDefault
    /\ Configuring!EnvOf("mistral") = {"apiKey"} /\ Configuring!EnvOf("jina") = {"APIKey"}
    /\ Configuring!EnvOf("zapier") = {"apiKey"} /\ "client" \in Configuring!Fields("zapier")
    /\ "Model" \in Configuring!Fields("jina")
    /\ "apiVersion" \notin Configuring!EnvOf("openai")
    /\ "accessToken" \notin Configuring!EnvOf("ernie")
    /\ Configuring!EnvOf("googleai") = {"apiKey"} /\ Configuring!EnvOf("chain") = {}
    /\ LET it == Configuring!PackageOf("zapier")
       IN "client" \notin it.lateEnv \cup it.lateDefault
    /\ "apiKey" \in Configuring!EnvOf("azureaisearch")
    /\ \A p \in {"alloydbEngine", "cloudsqlEngine"} :
          /\ Configuring!EnvOf(p) = {}
          /\ {"user", "password", "connPool", "iamAccountEmail"} \subseteq Configuring!Fields(p)
<1>0. /\ Configuring!PackageOf("openai") = Configuring!OpenAI
      /\ Configuring!PackageOf("zapier") = Configuring!Zapier
      /\ Configuring!PackageOf("alloydbEngine") = Configuring!AlloyDBEngine
      /\ Configuring!PackageOf("cloudsqlEngine") = Configuring!CloudSQLEngine
  BY DEF Configuring!PackageOf
<1>11. \A p, f : f \in Configuring!PackageOf(p).option
                 /\ f \notin DOMAIN Configuring!PackageOf(p).joint => f \in Configuring!Fields(p)
  BY DEF Configuring!Fields
<1>12. DOMAIN (<<>>) = {}
  OBVIOUS
<1>1. /\ "apiVersion" \in Configuring!Fields("openai")
      /\ LET it == Configuring!PackageOf("openai")
         IN "apiVersion" \notin it.env \cup it.default \cup it.lateEnv \cup it.lateDefault
  <2>1. /\ Configuring!OpenAI.option = Configuring!OpenAIOptions
        /\ DOMAIN Configuring!OpenAI.joint = {}
        /\ LET it == Configuring!OpenAI
           IN "apiVersion" \notin it.env \cup it.default \cup it.lateEnv \cup it.lateDefault
    BY <1>12 DEF Configuring!Package, Configuring!OpenAI
  <2> QED BY <1>0, <1>11, <2>1 DEF Configuring!OpenAIOptions
<1>2. /\ Configuring!EnvOf("palm") = {"projectID"}
      /\ LET it == Configuring!PackageOf("palm")
         IN "projectID" \notin it.default \cup it.lateEnv \cup it.lateDefault
  BY DEF Configuring!EnvOf, Configuring!PackageOf, Configuring!Package, Configuring!Palm
<1>3. Configuring!EnvOf("maritaca") = {}
  BY DEF Configuring!EnvOf, Configuring!PackageOf, Configuring!Package, Configuring!Maritaca
<1>4. Configuring!EnvOf("mistral") = {"apiKey"}
  BY DEF Configuring!EnvOf, Configuring!PackageOf, Configuring!Package, Configuring!Mistral
<1>5. Configuring!EnvOf("jina") = {"APIKey"}
  BY DEF Configuring!EnvOf, Configuring!PackageOf, Configuring!Package, Configuring!Jina
<1>6. /\ Configuring!EnvOf("zapier") = {"apiKey"}
      /\ LET it == Configuring!PackageOf("zapier")
         IN "client" \notin it.lateEnv \cup it.lateDefault
  BY DEF Configuring!EnvOf, Configuring!PackageOf, Configuring!Package, Configuring!Zapier
<1>7. "client" \in Configuring!Fields("zapier")
  <2>1. "client" \in Configuring!Zapier.option /\ DOMAIN Configuring!Zapier.joint = {}
    BY <1>12 DEF Configuring!Package, Configuring!Zapier
  <2> QED BY <1>0, <1>11, <2>1
<1>8. "apiKey" \in Configuring!EnvOf("azureaisearch")
  BY DEF Configuring!EnvOf, Configuring!PackageOf, Configuring!Package,
     Configuring!AzureAISearch
<1>9. \A p \in {"alloydbEngine", "cloudsqlEngine"} : Configuring!EnvOf(p) = {}
  <2>1. /\ Configuring!AlloyDBEngine.env = {} /\ Configuring!AlloyDBEngine.lateEnv = {}
        /\ Configuring!CloudSQLEngine.env = {} /\ Configuring!CloudSQLEngine.lateEnv = {}
    BY DEF Configuring!Package, Configuring!AlloyDBEngine, Configuring!CloudSQLEngine
  <2> QED BY <1>0, <2>1 DEF Configuring!EnvOf
<1>10. \A p \in {"alloydbEngine", "cloudsqlEngine"} :
          {"user", "password", "connPool", "iamAccountEmail"} \subseteq Configuring!Fields(p)
  <2>1. /\ Configuring!AlloyDBEngine.option = Configuring!EngineOptions
        /\ Configuring!CloudSQLEngine.option = Configuring!EngineOptions
        /\ DOMAIN Configuring!AlloyDBEngine.joint = {"instanceURI"}
        /\ DOMAIN Configuring!CloudSQLEngine.joint = {"instanceURI"}
    BY DEF Configuring!Package, Configuring!AlloyDBEngine, Configuring!CloudSQLEngine
  <2> QED BY <1>0, <1>11, <2>1 DEF Configuring!EngineOptions
<1>13. "Model" \in Configuring!Fields("jina")
  <2>1. /\ Configuring!PackageOf("jina") = Configuring!Jina
        /\ "Model" \in Configuring!Jina.option /\ DOMAIN Configuring!Jina.joint = {}
    BY <1>12 DEF Configuring!PackageOf, Configuring!Package, Configuring!Jina
  <2> QED BY <1>11, <2>1
<1>14. /\ "apiVersion" \notin Configuring!EnvOf("openai")
       /\ "accessToken" \notin Configuring!EnvOf("ernie")
  BY DEF Configuring!EnvOf, Configuring!PackageOf, Configuring!Package, Configuring!OpenAI,
     Configuring!Ernie
<1>15. Configuring!EnvOf("googleai") = {"apiKey"} /\ Configuring!EnvOf("chain") = {}
  BY DEF Configuring!EnvOf, Configuring!PackageOf, Configuring!Package, Configuring!GoogleAI,
     Configuring!Chain
<1> QED BY <1>1, <1>2, <1>3, <1>4, <1>5, <1>6, <1>7, <1>8, <1>9, <1>10, <1>13, <1>14, <1>15

\* The two packages whose engine asks for an account.
Engines == {"alloydbEngine", "cloudsqlEngine"}

\* Why a package gives a field another value than the one that was chosen.
Overrides(s, f, v) ==
    \/ pkg = "openai" /\ f = "apiVersion" /\ s[f] = "blank" /\ v = "default"
    \/ pkg = "googleai" /\ f = "apiKey" /\ ~Configuring!HasAuth /\ v = environment[f]
    \/ pkg = "ernie" /\ f = "accessToken" /\ s[f] = "default" /\ v = "blank"
    \/ pkg = "palm" /\ f = "httpClient" /\ v = "blank"
    \/ pkg = "maritaca" /\ f = "serverURL" /\ v = "default"
    \/ pkg = "mistral" /\ f = "callbacksHandler" /\ v = "default"
    \/ pkg = "jina" /\ f = "BatchSize" /\ s.Model \in Configuring!KnownModels /\ v = "default"
    \/ pkg = "azureaisearch" /\ f = "apiKey" /\ v = environment[f]
    \/ pkg = "zapier" /\ f = "client" /\ s[f] # "blank" /\ v = "default"
    \/ pkg \in Engines /\ f = "user" /\ ~Configuring!HasUser(s)
          /\ \/ v = s.iamAccountEmail
             \/ v = "default" /\ s[f] = "blank"
    \/ pkg = "chain" /\ f = "StreamingFunc" /\ s[f] = "blank" /\ v = "default"

(* A package gives no other field another value.                           *)
LEMMA OverruledIs ==
    ASSUME NEW s, NEW f \in DOMAIN s
    PROVE  /\ DOMAIN Configuring!Overruled(s) = DOMAIN s
           /\ Configuring!Overruled(s)[f] = s[f] \/ Overrides(s, f, Configuring!Overruled(s)[f])
<1> DEFINE t == Configuring!Overruled(s)
<1>1. CASE pkg = "openai"
  <2>1. t = Configuring!AzureVersion(s)
    BY <1>1 DEF Configuring!Overruled
  <2> QED BY <1>1, <2>1 DEF Configuring!AzureVersion, Overrides
<1>2. CASE pkg = "googleai"
  <2>1. t = Configuring!WithKey(s)
    BY <1>2 DEF Configuring!Overruled
  <2> QED BY <1>2, <2>1 DEF Configuring!WithKey, Overrides
<1>3. CASE pkg = "ernie"
  <2>1. t = Configuring!ErnieToken(s)
    BY <1>3 DEF Configuring!Overruled
  <2> QED BY <1>3, <2>1 DEF Configuring!ErnieToken, Overrides
<1>4. CASE pkg = "palm"
  <2>1. t = [s EXCEPT !.httpClient = "blank"]
    BY <1>4 DEF Configuring!Overruled
  <2> QED BY <1>4, <2>1 DEF Overrides
<1>5. CASE pkg = "maritaca"
  <2>1. t = [s EXCEPT !.serverURL = "default"]
    BY <1>5 DEF Configuring!Overruled
  <2> QED BY <1>5, <2>1 DEF Overrides
<1>6. CASE pkg = "mistral"
  <2>1. t = [s EXCEPT !.callbacksHandler = "default"]
    BY <1>6 DEF Configuring!Overruled
  <2> QED BY <1>6, <2>1 DEF Overrides
<1>7. CASE pkg = "jina"
  <2>1. t = IF s.Model \in Configuring!KnownModels
            THEN [s EXCEPT !.BatchSize = "default"] ELSE s
    BY <1>7 DEF Configuring!Overruled
  <2> QED BY <1>7, <2>1 DEF Overrides
<1>8. CASE pkg = "azureaisearch"
  <2>1. t = IF environment["apiKey"] # "blank"
            THEN [s EXCEPT !.apiKey = environment["apiKey"]] ELSE s
    BY <1>8 DEF Configuring!Overruled
  <2> QED BY <1>8, <2>1 DEF Overrides
<1>9. CASE pkg = "zapier"
  <2>1. t = IF s.client # "blank" THEN [s EXCEPT !.client = "default"] ELSE s
    BY <1>9 DEF Configuring!Overruled
  <2> QED BY <1>9, <2>1 DEF Overrides
<1>10. CASE pkg \in Engines
  <2>1. t = Configuring!Account(s)
    BY <1>10 DEF Configuring!Overruled, Engines
  <2> QED BY <1>10, <2>1 DEF Configuring!Account, Overrides
<1>11. CASE pkg = "chain"
  <2>1. t = Configuring!ToHandler(s)
    BY <1>11 DEF Configuring!Overruled
  <2> QED BY <1>11, <2>1 DEF Configuring!ToHandler, Overrides
<1>12. CASE pkg \notin {"openai", "googleai", "ernie", "palm", "maritaca", "mistral", "jina",
                        "azureaisearch", "zapier", "chain"} \cup Engines
  BY <1>12 DEF Configuring!Overruled, Engines
<1> QED BY <1>1, <1>2, <1>3, <1>4, <1>5, <1>6, <1>7, <1>8, <1>9, <1>10, <1>11, <1>12


(* Where the value of a field is from.                                     *)
LEMMA SettingsAre ==
    ASSUME Configuring!IInv
    PROVE  /\ DOMAIN Configuring!Settings = Configuring!Fields(pkg)
           /\ \A f \in Configuring!Fields(pkg) :
                 /\ \/ Configuring!Settings[f] = Chosen[f]
                    \/ Overrides(Chosen, f, Configuring!Settings[f])
                 /\ Configuring!Settings[f] \in Configuring!Sources
<1> DEFINE t == Configuring!Settings
<1>1. t = Configuring!Overruled(Chosen)
  BY DEF Chosen, Opted, Configuring!Settings
<1>2. DOMAIN Chosen = Configuring!Fields(pkg)
      /\ \A f \in Configuring!Fields(pkg) : Chosen[f] \in Configuring!Sources
  BY ChosenIs
<1> HIDE DEF t
<1>3. DOMAIN t = Configuring!Fields(pkg)
  <2>1. CASE Configuring!Fields(pkg) = {}
    BY <1>1, <1>2 DEF Configuring!Overruled, Configuring!AzureVersion,
       Configuring!WithKey, Configuring!ErnieToken, Configuring!Account, Configuring!ToHandler
  <2>2. CASE Configuring!Fields(pkg) # {}
    BY <1>1, <1>2, <2>2, OverruledIs
  <2> QED BY <2>1, <2>2
<1>4. ASSUME NEW f \in Configuring!Fields(pkg)
      PROVE  t[f] = Chosen[f] \/ Overrides(Chosen, f, t[f])
  BY <1>1, <1>2, OverruledIs
<1>5. ASSUME NEW f \in Configuring!Fields(pkg) PROVE t[f] \in Configuring!Sources
  <2>1. \A g \in Configuring!EnvOf(pkg) : environment[g] \in Configuring!Sources
    BY StartedIs DEF Configuring!Sources
  <2>2. CASE t[f] = Chosen[f]
    BY <1>2, <2>2
  <2>3. CASE Overrides(Chosen, f, t[f])
    <3>1. \/ t[f] \in {"blank", "default"}
          \/ pkg \in {"googleai", "azureaisearch"} /\ f = "apiKey" /\ t[f] = environment[f]
          \/ pkg \in Engines /\ t[f] = Chosen["iamAccountEmail"]
      BY <2>3 DEF Overrides
    <3>2. "apiKey" \in Configuring!EnvOf("googleai")
          /\ "apiKey" \in Configuring!EnvOf("azureaisearch")
          /\ \A p \in Engines : "iamAccountEmail" \in Configuring!Fields(p)
      BY PackagesAre DEF Engines
    <3> QED BY <1>2, <2>1, <3>1, <3>2 DEF Configuring!Sources
  <2> QED BY <1>4, <2>2, <2>3
<1> QED BY <1>3, <1>4, <1>5 DEF t

(* A value the caller gave last is used, but where a package has another.  *)
LEMMA GivenWins ==
    ASSUME Configuring!IInv, NEW f \in Configuring!Fields(pkg),
           Configuring!Asked(f) \notin {Configuring!None, "blank"}
    PROVE  LET t == Configuring!Settings
           IN \/ t[f] = Configuring!Asked(f)
              \/ <<pkg, f>> \in {<<"mistral", "callbacksHandler">>, <<"palm", "httpClient">>,
                                 <<"maritaca", "serverURL">>, <<"zapier", "client">>}
              \/ <<pkg, f>> \in {<<"azureaisearch", "apiKey">>, <<"googleai", "apiKey">>}
                 /\ t[f] = environment[f]
              \/ <<pkg, f>> = <<"jina", "BatchSize">> /\ t.Model \in Configuring!KnownModels
              \/ pkg \in Engines /\ f = "user" /\ t.password = "blank"
<1> DEFINE t == Configuring!Settings
           asked == Configuring!Asked(f)
<1>1. \A g \in Configuring!Fields(pkg) : t[g] = Chosen[g] \/ Overrides(Chosen, g, t[g])
  BY SettingsAre
<1>2. Chosen[f] = asked
  BY ChosenIs
<1>3. asked \in {"first", "second", "third"}
  <2>1. asked \in {Configuring!None, "blank", "first", "second", "third"}
    BY StartedIs, AskedIs
  <2> QED BY <2>1
<1> HIDE DEF t, asked
<1>4. CASE Overrides(Chosen, f, t[f])
  <2>1. CASE pkg = "jina"
    <3>1. f = "BatchSize" /\ Chosen.Model \in Configuring!KnownModels
      BY <1>4, <2>1 DEF Overrides, Engines
    <3>2. t.Model = Chosen.Model
      <4>1. ~Overrides(Chosen, "Model", t.Model)
        BY <2>1 DEF Overrides, Engines
      <4> QED BY <1>1, <2>1, <4>1, PackagesAre
    <3> QED BY <2>1, <3>1, <3>2 DEF t
  <2>2. CASE pkg \in Engines
    <3>1. f = "user" /\ ~Configuring!HasUser(Chosen)
      BY <1>4, <2>2 DEF Overrides, Engines
    <3>2. Chosen.password = "blank"
      BY <1>2, <1>3, <3>1 DEF Configuring!HasUser
    <3>3. t.password = Chosen.password
      <4>1. ~Overrides(Chosen, "password", t.password)
        BY <2>2 DEF Overrides, Engines
      <4> QED BY <1>1, <2>2, <4>1, PackagesAre DEF Engines
    <3> QED BY <2>2, <3>1, <3>2, <3>3 DEF t
  <2>3. CASE pkg \notin {"jina"} \cup Engines
    BY <1>2, <1>3, <1>4, <2>3 DEF Overrides, t
  <2> QED BY <2>1, <2>2, <2>3
<1> QED BY <1>1, <1>2, <1>4 DEF t, asked

(* What the caller leaves alone is what the environment says, but where a  *)
(* package does not ask it.                                                *)
LEMMA EnvironmentWins ==
    ASSUME Configuring!IInv, NEW f \in Configuring!EnvOf(pkg),
           Configuring!Asked(f) = Configuring!None, environment[f] # "blank"
    PROVE  LET t == Configuring!Settings
           IN \/ t[f] = environment[f]
              \/ pkg = "palm" /\ pc # "open" /\ t[f] = Configuring!Environment[f]
              \/ pkg = "googleai" /\ Configuring!HasAuth
              \/ Configuring!Unread(t)
<1> DEFINE t == Configuring!Settings
<1>1. f \in Configuring!Fields(pkg)
      /\ \A g \in Configuring!Fields(pkg) : t[g] = Chosen[g] \/ Overrides(Chosen, g, t[g])
  BY SettingsAre, ReadIsField
<1>2. CASE pkg = "googleai"
  <2>1. f = "apiKey"
    BY <1>2, PackagesAre
  <2>2. t = Configuring!WithKey(Chosen)
    BY <1>2 DEF Chosen, Opted, Configuring!Settings, Configuring!Overruled
  <2>3. "apiKey" \in DOMAIN Chosen
    BY <1>1, <2>1, ChosenIs
  <2>4. ~Configuring!HasAuth => t["apiKey"] = environment["apiKey"]
    BY <2>1, <2>2, <2>3 DEF Configuring!WithKey
  <2> QED BY <1>2, <2>1, <2>4
<1>3. CASE pkg # "googleai"
  <2> HIDE DEF t
  <2>1. t[f] = Chosen[f] \/ (pkg # "palm" /\ t[f] = environment[f])
    <3>1. CASE Overrides(Chosen, f, t[f])
      <4>1. /\ pkg = "openai" => f # "apiVersion"
            /\ pkg = "ernie" => f # "accessToken"
            /\ pkg = "palm" => f # "httpClient"
            /\ pkg # "maritaca" /\ pkg \notin Engines /\ pkg # "chain"
            /\ pkg = "mistral" => f # "callbacksHandler"
            /\ pkg = "jina" => f # "BatchSize"
            /\ pkg = "zapier" => f # "client"
        BY PackagesAre DEF Engines
      <4> QED BY <1>3, <3>1, <4>1 DEF Overrides
    <3> QED BY <1>1, <3>1
  <2>2. CASE f \in Configuring!Me.env
    <3>1. Configuring!Environment[f] = environment[f] \/ (pkg = "palm" /\ pc # "open")
      BY StartedIs
    <3>2. Configuring!Environment[f] # "blank" => Chosen[f] = Configuring!Environment[f]
      BY <1>1, <2>2, ChosenIs
    <3>3. pkg = "palm" => Chosen[f] = Configuring!Environment[f]
      BY <1>1, <2>2, <3>2, ChosenIs, PackagesAre DEF Configuring!Me
    <3> QED BY <2>1, <3>1, <3>2, <3>3 DEF t
  <2>3. CASE f \notin Configuring!Me.env
    <3>1. f \in Configuring!Me.lateEnv
      BY <1>3, <2>3 DEF Configuring!EnvOf, Configuring!Me
    <3>2. ~Configuring!Unread(Opted) => Chosen[f] = environment[f]
      BY <1>1, <2>3, <3>1, ChosenIs
    <3>3. Configuring!Unread(Opted) => Configuring!Unread(t)
      <4> SUFFICES ASSUME Configuring!Unread(Opted) PROVE Configuring!Unread(t)
        OBVIOUS
      <4>1. pkg = "zapier" /\ Opted.client = "blank"
        BY DEF Configuring!Unread
      <4>2. Chosen.client = "blank"
        BY <4>1, ChosenIs, PackagesAre DEF Configuring!Me
      <4>3. ~Overrides(Chosen, "client", t.client)
        BY <4>1, <4>2 DEF Overrides, Engines
      <4> QED BY <1>1, <4>1, <4>2, <4>3, PackagesAre DEF Configuring!Unread
    <3> QED BY <2>1, <3>2, <3>3 DEF t
  <2> QED BY <2>2, <2>3
<1> QED BY <1>2, <1>3

(* Where nothing is missing there is all that is needed.                   *)
LEMMA NothingMissing ==
    ASSUME Configuring!IInv, ~Configuring!Missing(Configuring!Settings)
    PROVE  LET t == Configuring!Settings
           IN /\ \A alternatives \in Configuring!Me.needed : ~Configuring!Blank(t, alternatives)
              /\ pkg = "ernie" => t.accessToken # "blank"
              /\ pkg = "openai" /\ Configuring!IsAzure(t)
                 /\ Configuring!Asked("apiVersion") \in {Configuring!None, "blank"} =>
                    t.model # "blank" /\ t.embeddingModel # "blank"
              /\ pkg \in Engines /\ t.connPool = "blank" => t.user # "blank"
<1> DEFINE t == Configuring!Settings
<1>1. DOMAIN Chosen = Configuring!Fields(pkg)
  BY ChosenIs
<1>2. ASSUME pkg = "openai", Configuring!IsAzure(t),
             Configuring!Asked("apiVersion") \in {Configuring!None, "blank"}
      PROVE  t.apiVersion = "default"
  <2>1. t = Configuring!AzureVersion(Chosen)
    BY <1>2 DEF Chosen, Opted, Configuring!Settings, Configuring!Overruled
  <2>2. "apiVersion" \in DOMAIN Chosen /\ Chosen.apiVersion = "blank"
    BY <1>1, <1>2, ChosenIs, PackagesAre DEF Configuring!Me
  <2> HIDE DEF t
  <2>3. Configuring!IsAzure(Chosen)
    <3> SUFFICES ASSUME ~Configuring!IsAzure(Chosen) PROVE FALSE
      OBVIOUS
    <3>1. t = Chosen
      BY <2>1 DEF Configuring!AzureVersion
    <3> QED BY <1>2, <3>1
  <2> QED BY <2>1, <2>2, <2>3 DEF Configuring!AzureVersion
<1>3. ASSUME pkg \in Engines, t.connPool = "blank", t.iamAccountEmail # "blank"
      PROVE  t.user # "blank"
  <2>1. t = Configuring!Account(Chosen)
    BY <1>3 DEF Engines, Chosen, Opted, Configuring!Settings, Configuring!Overruled
  <2>2. {"user", "password", "connPool", "iamAccountEmail"} \subseteq DOMAIN Chosen
    BY <1>1, <1>3, PackagesAre DEF Engines
  <2> HIDE DEF t
  <2>3. t.connPool = Chosen.connPool /\ t.iamAccountEmail = Chosen.iamAccountEmail
    BY <2>1, <2>2 DEF Configuring!Account
  <2>4. CASE Configuring!HasUser(Chosen)
    BY <2>1, <2>4 DEF Configuring!Account, Configuring!HasUser
  <2>5. CASE ~Configuring!HasUser(Chosen)
    <3>1. t = [Chosen EXCEPT !.user = Chosen.iamAccountEmail]
      BY <1>3, <2>1, <2>3, <2>5 DEF Configuring!Account
    <3> QED BY <1>3, <2>2, <2>3, <3>1
  <2> QED BY <2>4, <2>5
<1> HIDE DEF t
<1>4. ~Configuring!Missing(t)
  BY DEF t
<1>5. pkg \in Engines /\ t.connPool = "blank" => t.user # "blank"
  <2> SUFFICES ASSUME pkg \in Engines, t.connPool = "blank", t.iamAccountEmail = "blank"
               PROVE  t.user # "blank"
    BY <1>3
  <2>1. Configuring!HasUser(t) \/ t.user = "default"
    BY <1>4 DEF Configuring!Missing, Configuring!Blank, Engines
  <2> QED BY <2>1 DEF Configuring!HasUser
<1>6. pkg = "openai" /\ Configuring!IsAzure(t)
      /\ Configuring!Asked("apiVersion") \in {Configuring!None, "blank"} =>
         t.model # "blank" /\ t.embeddingModel # "blank"
  BY <1>2, <1>4 DEF Configuring!Missing
<1>7. /\ \A alternatives \in Configuring!Me.needed : ~Configuring!Blank(t, alternatives)
      /\ pkg = "ernie" => t.accessToken # "blank"
  BY <1>4 DEF Configuring!Missing
<1> QED BY <1>5, <1>6, <1>7 DEF t


(* What a caller cannot do without is a list of options.                   *)
LEMMA UsualIs ==
    ASSUME NEW p \in Configuring!PackageNames
    PROVE  Configuring!Usual(p) \in Seq(Configuring!PackageOf(p).option \X {"first"})
<1> DEFINE T(chosen) == {o \in Configuring!PackageOf(p).option :
                            Configuring!Sets(p, o) \cap chosen # {}}
           S(chosen) == {<<o, "first">> : o \in T(chosen)}
<1>1. PICK chosen : Configuring!Usual(p) = Configuring!SetToSeq(S(chosen))
  BY DEF Configuring!Usual
<1>2. IsFiniteSet(T(chosen))
  BY PackagesAssumption, FS_Subset
<1>3. S(chosen) \subseteq Configuring!PackageOf(p).option \X {"first"}
  OBVIOUS
<1>4. IsFiniteSet(S(chosen))
  <2> DEFINE f == [o \in T(chosen) |-> <<o, "first">>]
  <2>1. f \in Surjection(T(chosen), S(chosen))
    BY DEF Surjection
  <2> HIDE DEF f, T, S
  <2> QED BY <1>2, <2>1, FS_Surjection
<1> HIDE DEF S
<1>5. \E g \in [1..Cardinality(S(chosen)) -> S(chosen)] : Configuring!IsInjective(g)
  <2>1. ExistsBijection(1..Cardinality(S(chosen)), S(chosen))
    BY <1>4, FS_CardinalityType
  <2>2. PICK g : g \in Bijection(1..Cardinality(S(chosen)), S(chosen))
    BY <2>1 DEF ExistsBijection
  <2> QED BY <2>2 DEF Bijection, Injection, IsInjective, Configuring!IsInjective
<1>6. Configuring!Cardinality(S(chosen)) = Cardinality(S(chosen))
      /\ Cardinality(S(chosen)) \in Nat
  BY <1>4, FS_CardinalityType DEF Configuring!Cardinality, Cardinality
<1>7. Configuring!SetToSeq(S(chosen)) \in [1..Cardinality(S(chosen)) -> S(chosen)]
  BY <1>5, <1>6 DEF Configuring!SetToSeq
<1>8. Configuring!SetToSeq(S(chosen)) \in Seq(S(chosen))
  BY <1>6, <1>7
<1> QED BY <1>1, <1>3, <1>8

\* What a constructor promises its caller.
AsSet == Configuring!GivenIsUsed /\ Configuring!EnvironmentIsCurrent
         /\ Configuring!CreatedIsComplete

(* While nothing is created there is nothing to promise.                   *)
LEMMA NothingPromised == ASSUME outcome # "created" PROVE AsSet
BY DEF AsSet, Configuring!GivenIsUsed, Configuring!EnvironmentIsCurrent,
       Configuring!CreatedIsComplete

(* Before the constructor is called the options are the usual ones, or none. *)
LEMMA ConfigInit == ASSUME Configuring!Init PROVE Configuring!IInv /\ AsSet
<1>1. opts \in Seq(Configuring!PackageOf(pkg).option \X {"first"})
  <2>1. opts \in {<<>>, Configuring!Usual(pkg)} /\ pkg \in Configuring!PackageNames
    BY DEF Configuring!Init
  <2>2. Configuring!Usual(pkg) \in Seq(Configuring!PackageOf(pkg).option \X {"first"})
    BY <2>1, UsualIs
  <2> DEFINE Given == Configuring!PackageOf(pkg).option \X {"first"}
  <2> HIDE DEF Given
  <2>3. <<>> \in Seq(Given)
    OBVIOUS
  <2> QED BY <2>1, <2>2, <2>3 DEF Given
<1>2. opts \in Seq(Configuring!OptionsOf(pkg) \X Configuring!Sources)
      /\ \A n \in DOMAIN opts : opts[n][2] \in {"blank", "first", "second", "third"}
  <2>1. Configuring!PackageOf(pkg).option \X {"first"}
           \subseteq Configuring!OptionsOf(pkg) \X Configuring!Sources
    BY DEF Configuring!OptionsOf, Configuring!Sources
  <2>2. \A n \in DOMAIN opts : opts[n] \in Configuring!PackageOf(pkg).option \X {"first"}
    BY <1>1
  <2> QED BY <1>1, <2>1, <2>2
<1>3. environment \in [Configuring!EnvOf(pkg) -> {"blank", "before", "after"}]
  BY DEF Configuring!Init
<1>4. DOMAIN settings = Configuring!Fields(pkg)
      /\ Configuring!Range(settings) \subseteq Configuring!Sources
  BY DEF Configuring!Init, Configuring!Range, Configuring!Sources
<1>5. Configuring!TypeOK
  BY <1>2, <1>3, <1>4 DEF Configuring!Init, Configuring!TypeOK
<1>6. Configuring!IInv
  BY <1>2, <1>5 DEF Configuring!Init, Configuring!IInv, Configuring!None
<1>7. AsSet
  BY NothingPromised DEF Configuring!Init, Configuring!None
<1> QED BY <1>6, <1>7

(* What is asked for follows from the options.                             *)
LEMMA AskedSame ==
    ASSUME UNCHANGED <<pkg, opts>>
    PROVE  /\ Configuring!HasAuth' = Configuring!HasAuth
           /\ \A f : Configuring!Asked(f)' = Configuring!Asked(f)
<1>1. \A f : Configuring!AskedAt(f)' = Configuring!AskedAt(f)
  BY DEF Configuring!AskedAt, Configuring!Skipped, Configuring!Sets
<1>2. \A f : Configuring!Asked(f)' = Configuring!Asked(f)
  BY <1>1 DEF Configuring!Asked
<1>3. Configuring!HasAuth' = Configuring!HasAuth
  BY DEF Configuring!HasAuth, Configuring!Skipped
<1> QED BY <1>2, <1>3

(* The caller adds an option.                                              *)
LEMMA GiveStep == ASSUME Configuring!IInv, Configuring!Give PROVE Configuring!IInv' /\ AsSet'
<1>1. PICK o \in Configuring!OptionsOf(pkg), v \in {"second", "third", "blank"} :
         opts' = Append(opts, <<o, v>>)
  BY DEF Configuring!Give
<1>2. /\ pc = "open" /\ outcome = Configuring!None
      /\ UNCHANGED <<pkg, environment, remembered, pc, settings, outcome>>
  BY DEF Configuring!Give, Configuring!IInv
<1>3. <<o, v>> \in Configuring!OptionsOf(pkg) \X Configuring!Sources
  BY <1>1 DEF Configuring!Sources
<1>4. opts \in Seq(Configuring!OptionsOf(pkg) \X Configuring!Sources)
      /\ \A n \in DOMAIN opts : opts[n][2] \in {"blank", "first", "second", "third"}
  BY DEF Configuring!IInv, Configuring!TypeOK
<1>5. opts' \in Seq(Configuring!OptionsOf(pkg) \X Configuring!Sources)
      /\ \A n \in DOMAIN opts' : opts'[n][2] \in {"blank", "first", "second", "third"}
  <2> DEFINE pair == <<o, v>>
  <2>1. pair[2] \in {"blank", "first", "second", "third"}
    BY <1>1
  <2> HIDE DEF pair
  <2> QED BY <1>1, <1>3, <1>4, <2>1 DEF pair
<1>6. Configuring!IInv'
  BY <1>2, <1>5 DEF Configuring!IInv, Configuring!TypeOK, Configuring!Range
<1>7. AsSet'
  BY <1>2, NothingPromised DEF Configuring!None, AsSet, Configuring!GivenIsUsed,
     Configuring!EnvironmentIsCurrent, Configuring!CreatedIsComplete
<1> QED BY <1>6, <1>7

(* The constructor is called.                                              *)
LEMMA NewStep ==
    ASSUME Configuring!IInv, pc \in {"open", "changed"}, Configuring!New
    PROVE  Configuring!IInv' /\ AsSet'
<1> DEFINE t == Configuring!Settings
<1>1. /\ pc' = (IF pc = "open" THEN "made" ELSE "again") /\ settings' = t
      /\ remembered' = IF pkg = "palm" THEN Configuring!Environment ELSE remembered
      /\ outcome' \in {"created", Configuring!Me.fails}
      /\ outcome' = "created" => ~Configuring!Missing(t)
      /\ UNCHANGED <<pkg, environment, opts>>
  <2>1. Configuring!Me.fails # "created"
    BY PackagesAssumption DEF Configuring!Me, Configuring!IInv, Configuring!TypeOK
  <2>2. Configuring!Missing(settings') = Configuring!Missing(t)
    BY DEF Configuring!New
  <2> HIDE DEF t
  <2>3. \/ Configuring!Missing(settings') /\ outcome' = Configuring!Me.fails
        \/ ~Configuring!Missing(settings') /\ outcome' = "created"
        \/ ~Configuring!Missing(settings') /\ outcome' = Configuring!Me.fails
    BY DEF Configuring!New
  <2> QED BY <2>1, <2>2, <2>3 DEF Configuring!New, t
<1>2. DOMAIN t = Configuring!Fields(pkg)
      /\ \A f \in Configuring!Fields(pkg) : t[f] \in Configuring!Sources
  BY SettingsAre
<1>3. Configuring!Me.fails \in {"refused", "panics"}
  BY PackagesAssumption DEF Configuring!Me, Configuring!IInv, Configuring!TypeOK
<1>4. pkg = "palm" => remembered' # <<>>
                      /\ remembered' \in [Configuring!EnvOf(pkg) -> {"blank", "before"}]
  <2> SUFFICES ASSUME pkg = "palm"
               PROVE  remembered' # <<>>
                      /\ remembered' \in [Configuring!EnvOf(pkg) -> {"blank", "before"}]
    OBVIOUS
  <2>1. remembered' = IF remembered # <<>> THEN remembered ELSE environment
    BY <1>1 DEF Configuring!Environment
  <2>2. remembered' \in [Configuring!EnvOf(pkg) -> {"blank", "before"}]
    BY <2>1 DEF Configuring!IInv, Configuring!TypeOK
  <2>3. DOMAIN remembered' = {"projectID"} /\ DOMAIN (<<>>) = {}
    BY <2>2, PackagesAre
  <2> QED BY <2>2, <2>3
<1>5. pkg # "palm" => remembered' = remembered
  BY <1>1
<1> HIDE DEF t
<1>6. Configuring!IInv'
  <2>1. Configuring!Range(settings)' \subseteq Configuring!Sources
    BY <1>1, <1>2 DEF Configuring!Range
  <2>2. Configuring!TypeOK'
    BY <1>1, <1>2, <1>3, <1>4, <1>5, <2>1
    DEF Configuring!IInv, Configuring!TypeOK, Configuring!None
  <2> QED BY <1>1, <1>4, <2>2 DEF Configuring!IInv
<1>7. /\ Configuring!HasAuth' = Configuring!HasAuth
      /\ \A f : Configuring!Asked(f)' = Configuring!Asked(f)
  BY <1>1, AskedSame
<1>8. Configuring!GivenIsUsed'
  <2> SUFFICES ASSUME NEW f \in Configuring!Fields(pkg),
                      Configuring!Asked(f) \notin {Configuring!None, "blank"}
               PROVE  \/ t[f] = Configuring!Asked(f)
                      \/ <<pkg, f>> \in {<<"mistral", "callbacksHandler">>,
                                         <<"palm", "httpClient">>,
                                         <<"maritaca", "serverURL">>, <<"zapier", "client">>}
                      \/ <<pkg, f>> \in {<<"azureaisearch", "apiKey">>,
                                         <<"googleai", "apiKey">>} /\ t[f] = environment[f]
                      \/ <<pkg, f>> = <<"jina", "BatchSize">>
                         /\ t.Model \in Configuring!KnownModels
                      \/ pkg \in {"alloydbEngine", "cloudsqlEngine"} /\ f = "user"
                         /\ t.password = "blank"
    BY <1>1, <1>7 DEF Configuring!GivenIsUsed
  <2> QED BY GivenWins DEF Engines, t
<1>9. Configuring!EnvironmentIsCurrent'
  <2> SUFFICES ASSUME NEW f \in Configuring!EnvOf(pkg),
                      Configuring!Asked(f) = Configuring!None, environment[f] # "blank"
               PROVE  \/ t[f] = environment[f]
                      \/ pkg = "palm" /\ pc' = "again" /\ t[f] = remembered'[f]
                      \/ pkg = "googleai" /\ Configuring!HasAuth
                      \/ Configuring!Unread(t)
    BY <1>1, <1>7 DEF Configuring!EnvironmentIsCurrent, Configuring!Unread
  <2> QED BY <1>1, EnvironmentWins DEF t
<1>10. Configuring!CreatedIsComplete'
  <2>1. outcome' = "created" =>
          /\ \A alternatives \in Configuring!Me.needed :
                ~Configuring!Blank(t, alternatives)
          /\ pkg = "ernie" => t.accessToken # "blank"
          /\ pkg = "openai" /\ Configuring!IsAzure(t)
             /\ Configuring!Asked("apiVersion") \in {Configuring!None, "blank"} =>
                t.model # "blank" /\ t.embeddingModel # "blank"
          /\ pkg \in Engines /\ t.connPool = "blank" => t.user # "blank"
    BY <1>1, NothingMissing DEF t
  <2> QED BY <1>1, <1>7, <2>1 DEF Configuring!CreatedIsComplete, Configuring!Me,
          Configuring!Blank, Configuring!IsAzure, Engines
<1> QED BY <1>6, <1>8, <1>9, <1>10 DEF AsSet

(* The environment changes.                                                *)
LEMMA SetEnvStep ==
    ASSUME Configuring!IInv, Configuring!SetEnv PROVE Configuring!IInv' /\ AsSet'
<1>1. /\ pc = "made" /\ pc' = "changed" /\ outcome' = Configuring!None
      /\ environment' = [f \in Configuring!EnvOf(pkg) |-> "after"]
      /\ UNCHANGED <<pkg, remembered, opts, settings>>
  BY DEF Configuring!SetEnv
<1>2. Configuring!IInv'
  BY <1>1 DEF Configuring!IInv, Configuring!TypeOK, Configuring!Range
<1>3. AsSet'
  BY <1>1 DEF Configuring!None, AsSet, Configuring!GivenIsUsed,
     Configuring!EnvironmentIsCurrent, Configuring!CreatedIsComplete
<1> QED BY <1>2, <1>3

(* Every step of a caller and of a constructor keeps what is promised.     *)
LEMMA ConfigSteps ==
    ASSUME Configuring!IInv, AsSet, [Configuring!Next]_(Configuring!vars)
    PROVE  Configuring!IInv' /\ AsSet'
<1>1. CASE Configuring!Give
  BY <1>1, GiveStep
<1>2. CASE pc \in {"open", "changed"} /\ Configuring!New
  BY <1>2, NewStep
<1>3. CASE Configuring!SetEnv
  BY <1>3, SetEnvStep
<1>4. CASE UNCHANGED Configuring!vars
  <2>1. UNCHANGED <<pkg, environment, remembered, opts, pc, settings, outcome>>
    BY <1>4 DEF Configuring!vars
  <2>2. /\ Configuring!HasAuth' = Configuring!HasAuth
        /\ \A f : Configuring!Asked(f)' = Configuring!Asked(f)
    BY <2>1, AskedSame
  <2>3. Configuring!IInv'
    BY <2>1 DEF Configuring!IInv, Configuring!TypeOK, Configuring!Range
  <2>4. Configuring!GivenIsUsed' /\ Configuring!EnvironmentIsCurrent'
    BY <2>1, <2>2 DEF AsSet, Configuring!GivenIsUsed, Configuring!EnvironmentIsCurrent,
       Configuring!Unread
  <2>5. Configuring!CreatedIsComplete'
    BY <2>1, <2>2 DEF AsSet, Configuring!CreatedIsComplete, Configuring!Me,
       Configuring!Blank, Configuring!IsAzure
  <2> QED BY <2>3, <2>4, <2>5 DEF AsSet
<1> QED BY <1>1, <1>2, <1>3, <1>4 DEF Configuring!Next

-----------------------------------------------------------------------------
(* All of them.                                                            *)

\* The state of a part has the invariant of that part.
PartsInv == /\ part = "add" => Adding!IInv /\ ToldIds /\ KeptRows
            /\ part = "search" => Searching!TypeOK /\ Ranked /\ AsAsked
            /\ part = "history" => Remembering!IInv /\ AsSaid
            /\ part = "vectors" => EmbedInv /\ AsTexts
            /\ part = "settings" => Configuring!IInv /\ AsSet
            /\ part = "text" => Splitting!SplitInv /\ Splitting!AsChunks

(* Each part begins with its invariant.                                    *)
LEMMA PartsInit == ASSUME Init PROVE PartsInv
<1>1. CASE part = "add" /\ Adding!Init
  BY <1>1, BoundsAssumption, AddInit, ToldInit DEF PartsInv
<1>2. CASE part = "search" /\ Searching!Init
  BY <1>2, SearchInit DEF PartsInv
<1>3. CASE part = "history" /\ Remembering!Init
  BY <1>3, HistoryInit DEF PartsInv
<1>4. CASE part = "vectors" /\ Embedding!Init
  BY <1>4, EmbedInit DEF PartsInv
<1>5. CASE part = "settings" /\ Configuring!Init
  BY <1>5, ConfigInit DEF PartsInv
<1>6. CASE part = "text" /\ Splitting!Init
  <2>1. MaxCharacters \in Nat /\ MaxTokens \in Nat /\ MaxChunk \in Nat
    BY BoundsAssumption
  <2> QED BY <1>6, <2>1, Splitting!SplitInit DEF PartsInv
<1> QED BY <1>1, <1>2, <1>3, <1>4, <1>5, <1>6 DEF Init

(* Every step is one of a part, which stays the same, or changes nothing.  *)
LEMMA PartsSteps == ASSUME PartsInv, [Next]_vars PROVE PartsInv'
<1>1. ASSUME UNCHANGED part, part = "add", [Adding!Next]_(Adding!vars) PROVE PartsInv'
  BY <1>1, BoundsAssumption, AddSteps, ToldSteps, KeptSteps DEF PartsInv
<1>2. ASSUME UNCHANGED part, part = "search", [Searching!Next]_(Searching!vars) PROVE PartsInv'
  BY <1>2, SearchSteps DEF PartsInv
<1>3. ASSUME UNCHANGED part, part = "history", [Remembering!Next]_(Remembering!vars)
      PROVE  PartsInv'
  BY <1>3, HistorySteps DEF PartsInv
<1>4. ASSUME UNCHANGED part, part = "vectors", [Embedding!Next]_(Embedding!vars)
      PROVE  PartsInv'
  BY <1>4, EmbedSteps DEF PartsInv
<1>5. ASSUME UNCHANGED part, part = "settings", [Configuring!Next]_(Configuring!vars)
      PROVE  PartsInv'
  BY <1>5, ConfigSteps DEF PartsInv
<1>13. ASSUME UNCHANGED part, part = "text", [Splitting!Next]_(Splitting!vars)
       PROVE  PartsInv'
  BY <1>13, Splitting!SplitSteps DEF PartsInv
<1>12. ASSUME UNCHANGED part,
              part \notin {"add", "search", "history", "vectors", "settings", "text"}
       PROVE  PartsInv'
  BY <1>12 DEF PartsInv
<1>6. CASE Add
  BY <1>1, <1>6 DEF Add
<1>7. CASE Search
  BY <1>2, <1>7 DEF Search
<1>8. CASE Remember
  BY <1>3, <1>8 DEF Remember
<1>9. CASE Embed
  BY <1>4, <1>9 DEF Embed
<1>10. CASE Configure
  BY <1>5, <1>10 DEF Configure
<1>14. CASE Split
  BY <1>13, <1>14 DEF Split
<1>11. CASE UNCHANGED vars
  <2>1. /\ UNCHANGED part
        /\ UNCHANGED Adding!vars /\ UNCHANGED Searching!vars
        /\ UNCHANGED Remembering!vars /\ UNCHANGED Embedding!vars
        /\ UNCHANGED Configuring!vars /\ UNCHANGED Splitting!vars
    BY <1>11 DEF vars, ofRows, ofAdd, ofSearch, ofSettings, ofHistory, ofVectors,
                 ofTexts, Adding!vars, Searching!vars, Remembering!vars, Embedding!vars,
                 Configuring!vars, Splitting!vars
  <2> QED BY <1>1, <1>2, <1>3, <1>4, <1>5, <1>12, <1>13, <2>1
<1> QED BY <1>6, <1>7, <1>8, <1>9, <1>10, <1>11, <1>14 DEF Next

(* The invariants of the parts hold throughout.                            *)
THEOREM ServicesInvariance == Spec => []PartsInv
<1> QED BY PartsInit, PartsSteps, PTL DEF Spec

(* What AddDocuments returns tells what was kept: after a success every    *)
(* document and its id, after an error only ids of documents that are      *)
(* there, and of one request all documents or none.                        *)
THEOREM AddedTold == Spec => []AddedIsTold
<1>1. PartsInv => AddedIsTold
  BY DEF PartsInv, AddedIsTold, ToldIds
<1> QED BY <1>1, ServicesInvariance, PTL

(* What a store holds is what the caller gave, a document that brings its  *)
(* id once, none the deduplicater knows, and AddDocuments panics on no     *)
(* call but those named.                                                   *)
THEOREM KeptGiven == Spec => []KeptIsGiven
<1>1. PartsInv => KeptIsGiven
  BY OwnOnce DEF PartsInv, KeptIsGiven, KeptRows, Splitting!AsChunks
<1> QED BY <1>1, ServicesInvariance, PTL

(* What is found in a store is what was asked for, and what is read of a   *)
(* conversation is what was said in it, by any number of callers; and the  *)
(* vectors of texts are of those texts, each at its place.                 *)
THEOREM FoundAsked == Spec => []FoundIsAskedFor
<1>1. PartsInv => FoundIsAskedFor
  BY DEF PartsInv, FoundIsAskedFor, AsAsked, AsSaid, AsTexts
<1> QED BY <1>1, ServicesInvariance, PTL

(* The settings of a constructor are those the caller gave, the            *)
(* environment as it is, and all that is needed, for every package and any *)
(* number of options; the exceptions are those the property names.         *)
THEOREM SettingsTold == Spec => []SettingsAreTold
<1>1. PartsInv => SettingsAreTold
  BY DEF PartsInv, SettingsAreTold, AsSet
<1> QED BY <1>1, ServicesInvariance, PTL

(* The state of each part keeps its types.                                 *)
THEOREM TypesKept == Spec => []TypeOK
<1>1. PartsInv => TypeOK
  BY DEF PartsInv, TypeOK, Adding!IInv, Remembering!IInv, EmbedInv, Configuring!IInv,
         Splitting!SplitInv
<1> QED BY <1>1, ServicesInvariance, PTL

=============================================================================
