-------------------------- MODULE TextSplit_proofs --------------------------
(***************************************************************************)
(* What the splitters of plain texts promise, for texts and chunks of any  *)
(* length: the chunks have the words of the text, all of them and in its   *)
(* order, are no longer than they may be and share no more than they may.  *)
(***************************************************************************)
EXTENDS TextSplit, FiniteSetTheorems, FunctionTheorems, SequenceTheorems,
        WellFoundedInduction, TLAPS

-----------------------------------------------------------------------------
(* TextSplit: loops, and the length of what is joined.                     *)

(* What holds of the first number and of each that follows one it holds of *)
(* holds of all.                                                           *)
LEMMA UpTo ==
    ASSUME NEW n \in Nat, NEW G \in SUBSET (0..n), 0 \in G,
           \A k \in 1..n : k - 1 \in G => k \in G
    PROVE  \A k \in 0..n : k \in G
<1> DEFINE bad == (0..n) \ G
<1> SUFFICES ASSUME bad # {} PROVE FALSE
  OBVIOUS
<1>1. bad \subseteq Nat
  OBVIOUS
<1>2. PICK k \in bad : \A j \in bad : ~(<<j, k>> \in OpToRel(<, Nat))
  <2> HIDE DEF bad
  <2> QED BY <1>1, WFMin, NatLessThanWellFounded
<1>3. k \in 1..n /\ k - 1 \in 0..n /\ k - 1 < k
  OBVIOUS
<1>4. k - 1 \notin bad
  <2>1. <<k - 1, k>> \in OpToRel(<, Nat)
    BY <1>3 DEF OpToRel
  <2> HIDE DEF bad
  <2> QED BY <1>2, <2>1
<1> QED BY <1>3, <1>4

(* Some numbers have a least one.                                          *)
LEMMA LeastOf ==
    ASSUME NEW S, S \subseteq Nat, S # {}
    PROVE  \E x \in S : \A y \in S : x <= y
<1>1. PICK x \in S : \A y \in S : ~(<<y, x>> \in OpToRel(<, Nat))
  BY WFMin, NatLessThanWellFounded
<1>2. ASSUME NEW y \in S PROVE x <= y
  <2>1. ~(<<y, x>> \in OpToRel(<, Nat))
    BY <1>1
  <2>2. ~(y < x)
    BY <2>1 DEF OpToRel
  <2> QED BY <2>2
<1> QED BY <1>2

\* What a loop has after each of its rounds.
IsRun(g, n, b, step) == \A k \in 0..n : g[k] = IF k = 0 THEN b ELSE step[<<k, g[k - 1]>>]

(* A loop has its rounds: what each makes of the one before is a function. *)
LEMMA RoundsExist ==
    ASSUME NEW n \in Nat, NEW S, NEW b \in S, NEW step \in [(1..n) \X S -> S]
    PROVE  \E g \in [0..n -> S] : IsRun(g, n, b, step)
<1> USE DEF IsRun
<1> DEFINE G == {m \in 0..n : \E g \in [0..m -> S] : IsRun(g, m, b, step)}
<1>1. 0 \in G
  <2> DEFINE g == [k \in 0..0 |-> b]
  <2>1. g \in [0..0 -> S] /\ IsRun(g, 0, b, step)
    OBVIOUS
  <2> HIDE DEF g, IsRun
  <2>2. 0 \in 0..n
    OBVIOUS
  <2> QED BY <2>1, <2>2
<1>2. ASSUME NEW m \in 1..n, m - 1 \in G PROVE m \in G
  <2>1. PICK g \in [0..(m - 1) -> S] : IsRun(g, m - 1, b, step)
    BY <1>2
  <2> DEFINE h == [k \in 0..m |-> IF k = m THEN step[<<m, g[m - 1]>>] ELSE g[k]]
  <2>2. g[m - 1] \in S /\ step[<<m, g[m - 1]>>] \in S
    OBVIOUS
  <2>3. \A k \in 0..m : k # m => k \in 0..(m - 1)
    OBVIOUS
  <2>4. h \in [0..m -> S]
    BY <2>2, <2>3
  <2>5. ASSUME NEW k \in 0..m PROVE h[k] = IF k = 0 THEN b ELSE step[<<k, h[k - 1]>>]
    <3>1. k = 0 \/ (k - 1 \in 0..(m - 1) /\ k - 1 # m /\ k - 1 \in 0..m)
      OBVIOUS
    <3>2. k # 0 => h[k - 1] = g[k - 1]
      BY <3>1
    <3>3. CASE k = m
      <4>1. h[k] = step[<<m, g[m - 1]>>] /\ k # 0
        BY <3>3
      <4> QED BY <3>2, <3>3, <4>1
    <3>4. CASE k # m
      <4>1. h[k] = g[k] /\ k \in 0..(m - 1)
        BY <2>3, <3>4
      <4> QED BY <2>1, <3>2, <4>1
    <3> QED BY <3>3, <3>4
  <2> HIDE DEF h
  <2> QED BY <2>4, <2>5
<1> HIDE DEF G
<1>3. G \in SUBSET (0..n)
  BY DEF G
<1>4. n \in G
  BY <1>1, <1>2, <1>3, UpTo
<1> QED BY <1>4 DEF G

(* The sum of the sizes: of none, and of one more.                         *)
LEMMA SumRounds ==
    ASSUME NEW sizes \in Seq(Nat)
    PROVE  \E sum \in [0..Len(sizes) -> Nat] :
              /\ SumOf(sizes) = sum[Len(sizes)]
              /\ \A k \in 0..Len(sizes) : sum[k] = IF k = 0 THEN 0 ELSE sum[k - 1] + sizes[k]
<1> DEFINE n == Len(sizes)
           IsSum(g) == g = [k \in 0..n |-> IF k = 0 THEN 0 ELSE g[k - 1] + sizes[k]]
           step == [x \in (1..n) \X Nat |-> x[2] + sizes[x[1]]]
<1>1. step \in [(1..n) \X Nat -> Nat] /\ n \in Nat /\ 0 \in Nat
  OBVIOUS
<1>2. PICK g \in [0..n -> Nat] : IsRun(g, n, 0, step)
  <2> HIDE DEF step, n
  <2> QED BY <1>1, RoundsExist
<1>3. ASSUME NEW k \in 0..n
      PROVE  g[k] = IF k = 0 THEN 0 ELSE g[k - 1] + sizes[k]
  <2>1. CASE k = 0
    BY <1>2, <2>1 DEF IsRun
  <2>2. CASE k # 0
    <3>1. k \in 1..n /\ k - 1 \in 0..n
      BY <2>2
    <3>2. <<k, g[k - 1]>> \in (1..n) \X Nat
      BY <3>1
    <3>3. step[<<k, g[k - 1]>>] = g[k - 1] + sizes[k]
      BY <3>2
    <3> HIDE DEF step
    <3> QED BY <1>2, <2>2, <3>3 DEF IsRun
  <2> QED BY <2>1, <2>2
<1>4. IsSum(g)
  BY <1>3
<1> DEFINE sum == CHOOSE h : IsSum(h)
<1>5. SumOf(sizes) = sum[n]
  BY DEF SumOf
<1>6. IsSum(sum)
  <2> HIDE DEF IsSum
  <2> QED BY <1>4, Zenon
<1> HIDE DEF sum
<1>7. \A k \in 0..n : sum[k] = IF k = 0 THEN 0 ELSE sum[k - 1] + sizes[k]
  BY <1>6
<1>8. \A k \in 0..n : sum[k] \in Nat
  <2> DEFINE G == {k \in 0..n : sum[k] \in Nat}
  <2>1. \A k \in 1..n : k - 1 \in G => k \in G
    BY <1>7
  <2>2. 0 \in G /\ G \in SUBSET (0..n)
    BY <1>7
  <2> HIDE DEF G, n
  <2>3. \A k \in 0..n : k \in G
    BY <1>1, <2>1, <2>2, UpTo
  <2> QED BY <2>3 DEF G
<1>9. sum \in [0..n -> Nat]
  BY <1>6, <1>8
<1> QED BY <1>5, <1>7, <1>9

LEMMA SumMore ==
    ASSUME NEW sizes \in Seq(Nat), NEW size \in Nat
    PROVE  /\ SumOf(sizes) \in Nat
           /\ SumOf(Append(sizes, size)) = SumOf(sizes) + size
<1> DEFINE more == Append(sizes, size)
           n == Len(sizes)
<1>1. PICK sum \in [0..n -> Nat] :
         /\ SumOf(sizes) = sum[n]
         /\ \A k \in 0..n : sum[k] = IF k = 0 THEN 0 ELSE sum[k - 1] + sizes[k]
  BY SumRounds
<1>2. more \in Seq(Nat) /\ Len(more) = n + 1 /\ more[n + 1] = size
      /\ \A k \in 1..n : more[k] = sizes[k]
  OBVIOUS
<1>3. PICK nxt \in [0..(n + 1) -> Nat] :
         /\ SumOf(more) = nxt[n + 1]
         /\ \A k \in 0..(n + 1) : nxt[k] = IF k = 0 THEN 0 ELSE nxt[k - 1] + more[k]
  <2> HIDE DEF more
  <2> QED BY <1>2, SumRounds
<1> HIDE DEF more
<1>4. \A k \in 0..n : nxt[k] = sum[k]
  <2> DEFINE G == {k \in 0..n : nxt[k] = sum[k]}
  <2>1. 0 \in G /\ G \in SUBSET (0..n)
    BY <1>1, <1>3
  <2>2. \A k \in 1..n : k - 1 \in G => k \in G
    BY <1>1, <1>2, <1>3
  <2>3. n \in Nat
    OBVIOUS
  <2> HIDE DEF G
  <2>4. \A k \in 0..n : k \in G
    BY <2>1, <2>2, <2>3, UpTo
  <2> QED BY <2>4 DEF G
<1>5. n \in Nat /\ n + 1 \in 0..(n + 1) /\ n + 1 # 0 /\ n + 1 - 1 = n /\ n \in 0..n
  OBVIOUS
<1>6. nxt[n + 1] = nxt[n] + size
  <2> HIDE DEF n
  <2>1. nxt[n + 1] = nxt[n + 1 - 1] + more[n + 1]
    BY <1>3, <1>5
  <2> QED BY <1>2, <1>5, <2>1
<1> QED BY <1>1, <1>3, <1>4, <1>5, <1>6 DEF more

(* The length of pieces that are joined: of none, and of one more.         *)
LEMMA LengthMore ==
    ASSUME NEW sizes \in Seq(Nat), NEW size \in Nat, NEW sep \in {0, 1}
    PROVE  /\ LengthOf(sizes, sep) \in Nat
           /\ LengthOf(<<>>, sep) = 0
           /\ LengthOf(Append(sizes, size), sep) =
                 LengthOf(sizes, sep) + size + (IF sizes = <<>> THEN 0 ELSE sep)
<1> DEFINE sum == SumOf(sizes)
           more == Append(sizes, size)
<1>1. sum \in Nat /\ SumOf(more) = sum + size
  BY SumMore
<1>2. /\ Len(sizes) \in Nat /\ (sizes # <<>> => Len(sizes) > 0) /\ more # <<>>
      /\ Len(more) = Len(sizes) + 1 /\ (sizes = <<>> => Len(sizes) = 0)
  <2>1. Len(more) = Len(sizes) + 1 /\ more \in Seq(Nat)
    OBVIOUS
  <2> HIDE DEF more
  <2>2. Len(<<>>) = 0 /\ Len(sizes) \in Nat /\ (sizes # <<>> => Len(sizes) \in Nat \ {0})
    BY EmptySeq, LenProperties
  <2> QED BY <2>1, <2>2
<1>3. sizes = <<>> => sum = 0
  <2>1. PICK s \in [0..Len(sizes) -> Nat] :
           /\ SumOf(sizes) = s[Len(sizes)]
           /\ \A k \in 0..Len(sizes) : s[k] = IF k = 0 THEN 0 ELSE s[k - 1] + sizes[k]
    BY SumRounds
  <2>2. s[0] = 0
    BY <1>2, <2>1
  <2> QED BY <1>2, <2>1, <2>2
<1> HIDE DEF sum, more
<1>4. LengthOf(<<>>, sep) = 0
  BY DEF LengthOf
<1>5. LengthOf(sizes, sep) = IF sizes = <<>> THEN 0 ELSE sum + sep * (Len(sizes) - 1)
  BY DEF LengthOf, sum
<1>6. LengthOf(more, sep) = sum + size + sep * (Len(sizes) + 1 - 1)
  BY <1>1, <1>2 DEF LengthOf
<1>7. CASE sizes = <<>>
  <2>1. Len(sizes) + 1 - 1 = 0 /\ sep * 0 = 0
    BY <1>2, <1>7
  <2> QED BY <1>1, <1>3, <1>4, <1>5, <1>6, <1>7, <2>1 DEF more
<1>8. CASE sizes # <<>>
  <2> DEFINE n == Len(sizes)
  <2>1. n \in Nat /\ n > 0 /\ n + 1 - 1 = n
    BY <1>2, <1>8
  <2>2. sep * n = sep * (n - 1) + sep /\ sep * (n - 1) \in Nat
    <3> HIDE DEF n
    <3>1. CASE sep = 0
      BY <2>1, <3>1
    <3>2. CASE sep = 1
      BY <2>1, <3>2
    <3> QED BY <3>1, <3>2
  <2> QED BY <1>1, <1>4, <1>5, <1>6, <1>8, <2>1, <2>2 DEF more
<1> QED BY <1>7, <1>8

-----------------------------------------------------------------------------
(* TextSplit: what a text has of the words of the text that is split.      *)

Cells == [c : {"x"} \cup Blank, at : Nat]

\* The words of a text come in the order of their places.
Flow(t) ==
    /\ t \in Seq(Cells)
    /\ \A i, j \in Words(t) : i < j => t[i].at < t[j].at

Before(P, Q) == \A p \in P, q \in Q : p < q

\* Pieces of a text in its order.
InARow(pieces) ==
    /\ pieces \in Seq(Seq(Cells))
    /\ \A k \in DOMAIN pieces : Flow(pieces[k])
    /\ \A i, j \in DOMAIN pieces :
          i < j => Before(Places(pieces[i]), Places(pieces[j]))

AllOf(pieces) == UNION {Places(pieces[k]) : k \in DOMAIN pieces}

(* A text has no more places than characters.                              *)
LEMMA PlacesCount ==
    ASSUME NEW t \in Seq(Cells)
    PROVE  /\ Len(t) \in Nat /\ DOMAIN t = 1..Len(t)
           /\ \A k \in 1..Len(t) : t[k] \in Cells /\ t[k].at \in Nat
           /\ Words(t) \subseteq 1..Len(t)
           /\ Places(t) \subseteq Nat
           /\ IsFiniteSet(Places(t)) /\ Cardinality(Places(t)) <= Len(t)
<1>1. Len(t) \in Nat /\ DOMAIN t = 1..Len(t)
  OBVIOUS
<1>2. \A k \in 1..Len(t) : t[k] \in Cells /\ t[k].at \in Nat
  <2>1. \A ch \in Cells : ch.at \in Nat
    BY DEF Cells
  <2> HIDE DEF Cells
  <2>2. \A k \in 1..Len(t) : t[k] \in Cells
    BY ElementOfSeq
  <2> QED BY <2>1, <2>2
<1>3. Words(t) \subseteq 1..Len(t)
  BY <1>1 DEF Words
<1>4. Places(t) \subseteq Nat
  BY <1>2, <1>3 DEF Places
<1> DEFINE W == Words(t)
           f == [k \in W |-> t[k].at]
<1>5. IsFiniteSet(W) /\ Cardinality(W) <= Len(t)
  <2>1. IsFiniteSet(1..Len(t)) /\ Cardinality(1..Len(t)) = Len(t)
    <3>1. 1 \in Int /\ Len(t) \in Int /\ (1 > Len(t) => Len(t) = 0) /\ Len(t) - 1 + 1 = Len(t)
      BY <1>1
    <3> QED BY <3>1, FS_Interval
  <2> QED BY <1>3, <2>1, FS_Subset
<1>6. f \in Surjection(W, Places(t))
  BY DEF Surjection, Places
<1>7. IsFiniteSet(Places(t)) /\ Cardinality(Places(t)) <= Cardinality(W)
  <2> HIDE DEF W, f
  <2> QED BY <1>5, <1>6, FS_Surjection
<1>8. Cardinality(Places(t)) \in Nat /\ Cardinality(W) \in Nat
  BY <1>5, <1>7, FS_CardinalityType
<1> QED BY <1>1, <1>2, <1>3, <1>4, <1>5, <1>7, <1>8

LEMMA OneInOne == \A k \in 1..1 : k = 1
<1> SUFFICES ASSUME NEW k \in 1..1 PROVE k = 1
  OBVIOUS
<1> QED OBVIOUS

LEMMA OneOf ==
    ASSUME NEW S, NEW c \in S
    PROVE  <<c>> \in Seq(S) /\ Len(<<c>>) = 1 /\ <<c>>[1] = c
OBVIOUS

LEMMA EmptyWords == <<>> \in Seq(Cells) /\ Words(<<>>) = {} /\ Len(<<>>) = 0
<1>1. <<>> \in Seq(Cells) /\ Len(<<>>) = 0
  <2> HIDE DEF Cells
  <2> QED BY EmptySeq
<1>2. Words(<<>>) \subseteq 1..Len(<<>>)
  BY <1>1, PlacesCount
<1> QED BY <1>1, <1>2

(* A text without words.                                                   *)
LEMMA BlankFlow ==
    ASSUME NEW t \in Seq(Cells), Words(t) = {}
    PROVE  Flow(t) /\ Places(t) = {}
BY DEF Flow, Places

(* The separator that is put back has no words.                            *)
LEMMA SeparatorFlow ==
    ASSUME NEW c \in {"", " ", "nl"}
    PROVE  LET sep == Separator(c)
           IN Flow(sep) /\ Places(sep) = {} /\ Len(sep) \in {0, 1}
<1>1. <<>> \in Seq(Cells) /\ Words(<<>>) = {} /\ Len(<<>>) = 0
  BY EmptyWords
<1>2. CASE c = ""
  BY <1>1, <1>2, BlankFlow DEF Separator
<1>3. CASE c # ""
  <2> DEFINE cell == Char(c, 0)
  <2>1. cell \in Cells /\ cell.c \in Blank
    BY <1>3 DEF Cells, Char, Blank
  <2>2. Separator(c) = <<cell>>
    BY <1>3 DEF Separator
  <2> HIDE DEF cell, Cells
  <2>3. <<cell>> \in Seq(Cells) /\ Len(<<cell>>) = 1 /\ <<cell>>[1] = cell
    BY <2>1, OneOf
  <2>4. Words(<<cell>>) = {}
    <3>1. DOMAIN <<cell>> = 1..1
      BY <2>3, PlacesCount
    <3>2. \A k \in 1..1 : k = 1
      BY OneInOne
    <3> QED BY <2>1, <2>3, <3>1, <3>2 DEF Words
  <2> QED BY <2>2, <2>3, <2>4, BlankFlow
<1> QED BY <1>2, <1>3

(* Two texts that follow each other are one.                               *)
LEMMA FlowConcat ==
    ASSUME NEW t, NEW u, Flow(t), Flow(u),
           Before(Places(t), Places(u))
    PROVE  /\ Flow(t \o u)
           /\ Places(t \o u) = Places(t) \cup Places(u)
           /\ Len(t \o u) = Len(t) + Len(u)
<1> DEFINE tu == t \o u
           m == Len(t)
           n == Len(u)
<1>1. t \in Seq(Cells) /\ u \in Seq(Cells)
  BY DEF Flow
<1>2. /\ tu \in Seq(Cells) /\ Len(tu) = m + n
      /\ \A i \in 1..(m + n) : tu[i] = IF i <= m THEN t[i] ELSE u[i - m]
  BY <1>1, ConcatProperties
<1>3. m \in Nat /\ n \in Nat /\ DOMAIN t = 1..m /\ DOMAIN u = 1..n /\ DOMAIN tu = 1..(m + n)
  BY <1>1, <1>2, PlacesCount
<1> HIDE DEF tu, m, n
<1>4. /\ \A k \in 1..m : tu[k] = t[k] /\ k \in 1..(m + n)
      /\ \A k \in 1..n : tu[m + k] = u[k] /\ m + k \in 1..(m + n)
  <2>1. ASSUME NEW k \in 1..m PROVE tu[k] = t[k] /\ k \in 1..(m + n)
    BY <1>2, <1>3
  <2>2. ASSUME NEW k \in 1..n PROVE tu[m + k] = u[k] /\ m + k \in 1..(m + n)
    <3>1. m + k \in 1..(m + n) /\ ~(m + k <= m) /\ (m + k) - m = k
      BY <1>3
    <3> QED BY <1>2, <3>1
  <2> QED BY <2>1, <2>2
<1>5. \A k \in 1..(m + n) : k \in 1..m \/ \E j \in 1..n : k = m + j
  <2> TAKE k \in 1..(m + n)
  <2>1. CASE k <= m
    BY <2>1, <1>3
  <2>2. CASE k > m
    <3>1. k - m \in 1..n /\ k = m + (k - m)
      BY <2>2, <1>3
    <3> QED BY <3>1
  <2> QED BY <2>1, <2>2, <1>3
<1> DEFINE Wt == Words(t)
           Wu == Words(u)
<1>6. /\ \A k \in 1..m : k \in Words(tu) <=> k \in Wt
      /\ \A k \in 1..n : m + k \in Words(tu) <=> k \in Wu
  BY <1>3, <1>4 DEF Words
<1>7. /\ Wt \subseteq 1..m /\ Wu \subseteq 1..n /\ Words(tu) \subseteq 1..(m + n)
  BY <1>3 DEF Words
<1>8. /\ \A k \in Wt : t[k].at \in Places(t)
      /\ \A k \in Wu : u[k].at \in Places(u)
  BY DEF Places
<1>9. Places(tu) = Places(t) \cup Places(u)
  <2>1. ASSUME NEW p \in Places(tu)
        PROVE  p \in Places(t) \cup Places(u)
    <3>1. PICK k \in Words(tu) : p = tu[k].at
      BY DEF Places
    <3>2. CASE k \in 1..m
      BY <3>1, <3>2, <1>4, <1>6, <1>8
    <3>3. ASSUME NEW j \in 1..n, k = m + j PROVE p \in Places(u)
      BY <3>1, <3>3, <1>4, <1>6, <1>8
    <3> QED BY <3>2, <3>3, <1>5, <1>7
  <2>2. ASSUME NEW p \in Places(t) PROVE p \in Places(tu)
    <3>1. PICK k \in Wt : p = t[k].at
      BY DEF Places
    <3>2. k \in Words(tu) /\ p = tu[k].at
      BY <3>1, <1>4, <1>6, <1>7
    <3> QED BY <3>2 DEF Places
  <2>3. ASSUME NEW p \in Places(u) PROVE p \in Places(tu)
    <3>1. PICK k \in Wu : p = u[k].at
      BY DEF Places
    <3>2. m + k \in Words(tu) /\ p = tu[m + k].at
      BY <3>1, <1>4, <1>6, <1>7
    <3> QED BY <3>2 DEF Places
  <2> QED BY <2>1, <2>2, <2>3
<1>10. ASSUME NEW i \in Words(tu), NEW j \in Words(tu), i < j
       PROVE  tu[i].at < tu[j].at
  <2>1. i \in 1..(m + n) /\ j \in 1..(m + n)
    BY <1>7
  <2>2. CASE i \in 1..m /\ j \in 1..m
    <3>1. i \in Wt /\ j \in Wt /\ tu[i] = t[i] /\ tu[j] = t[j]
      BY <2>2, <1>4, <1>6
    <3> QED BY <3>1, <1>10 DEF Flow
  <2>3. ASSUME i \in 1..m, NEW b \in 1..n, j = m + b PROVE tu[i].at < tu[j].at
    <3>1. i \in Wt /\ b \in Wu /\ tu[i] = t[i] /\ tu[j] = u[b]
      BY <2>3, <1>4, <1>6
    <3> QED BY <3>1, <1>8 DEF Before
  <2>4. ASSUME NEW a \in 1..n, i = m + a, j \in 1..m PROVE FALSE
    BY <2>4, <1>10, <1>3
  <2>5. ASSUME NEW a \in 1..n, i = m + a, NEW b \in 1..n, j = m + b
        PROVE  tu[i].at < tu[j].at
    <3>1. a \in Wu /\ b \in Wu /\ tu[i] = u[a] /\ tu[j] = u[b] /\ a < b
      BY <2>5, <1>4, <1>6, <1>10, <1>3
    <3> QED BY <3>1 DEF Flow
  <2> QED BY <2>1, <2>2, <2>3, <2>4, <2>5, <1>5
<1>11. Flow(tu)
  BY <1>2, <1>10 DEF Flow
<1> QED BY <1>2, <1>9, <1>11 DEF tu, m, n

(* A text is trimmed to what is between its first word and its last.       *)
LEMMA TrimmedIs ==
    ASSUME NEW t \in Seq(Cells), Words(t) # {}
    PROVE  \E a, b \in Words(t) :
              /\ \A k \in Words(t) : a <= k /\ k <= b
              /\ TrimSpace(t) = SubSeq(t, a, b)
<1> DEFINE solid == {k \in DOMAIN t : t[k].c \notin Blank}
           n == Len(t)
           a == Min(solid)
           b == Max(solid)
<1>1. n \in Nat /\ solid \subseteq 1..n /\ solid # {} /\ solid = Words(t)
  BY PlacesCount DEF Words
<1>2. a \in solid /\ \A k \in solid : a <= k
  <2>1. \E x \in solid : \A y \in solid : x <= y
    <3> HIDE DEF solid
    <3>1. solid \subseteq Nat
      BY <1>1
    <3> QED BY <1>1, <3>1, LeastOf
  <2> HIDE DEF solid
  <2> QED BY <2>1, Zenon DEF Min
<1>3. b \in solid /\ \A k \in solid : b >= k
  <2>1. \E x \in solid : \A y \in solid : x >= y
    <3> DEFINE up == {n - k : k \in solid}
    <3>1. up \subseteq Nat /\ up # {}
      BY <1>1
    <3>2. PICK z \in up : \A y \in up : z <= y
      <4> HIDE DEF up
      <4> QED BY <3>1, LeastOf
    <3>3. PICK x \in solid : z = n - x
      OBVIOUS
    <3>4. ASSUME NEW y \in solid PROVE x >= y
      <4>1. n - y \in up
        OBVIOUS
      <4> HIDE DEF up, solid
      <4>2. n - x <= n - y
        BY <3>2, <3>3, <4>1
      <4> QED BY <4>2, <1>1
    <3> QED BY <3>4
  <2> HIDE DEF solid
  <2> QED BY <2>1, Zenon DEF Max
<1>4. TrimSpace(t) = SubSeq(t, a, b)
  BY <1>1 DEF TrimSpace
<1> HIDE DEF a, b, solid
<1>5. \A k \in solid : a <= k /\ k <= b
  BY <1>1, <1>2, <1>3
<1> QED BY <1>1, <1>2, <1>3, <1>4, <1>5

(* What is cut off a text at its ends has none of its words: the trimmed   *)
(* text has all of them, and it is no longer.                              *)
LEMMA FlowTrimmed ==
    ASSUME NEW t, Flow(t)
    PROVE  LET cut == TrimSpace(t)
           IN /\ Flow(cut) /\ Places(cut) = Places(t)
              /\ Len(cut) <= Len(t)
<1> DEFINE solid == {k \in DOMAIN t : t[k].c \notin Blank}
           n == Len(t)
<1>1. t \in Seq(Cells) /\ solid = Words(t)
  BY DEF Flow, Words
<1>2. n \in Nat /\ DOMAIN t = 1..n /\ solid \subseteq 1..n /\ \A k \in 1..n : t[k] \in Cells
  BY <1>1, PlacesCount
<1>3. CASE solid = {}
  <2>1. TrimSpace(t) = <<>>
    BY <1>3 DEF TrimSpace
  <2>2. <<>> \in Seq(Cells) /\ Words(<<>>) = {} /\ Len(<<>>) = 0
    BY EmptyWords
  <2>3. Flow(<<>>) /\ Places(<<>>) = {}
    BY <2>2, BlankFlow
  <2>4. Places(t) = {}
    BY <1>1, <1>3, BlankFlow
  <2> QED BY <1>2, <2>1, <2>2, <2>3, <2>4
<1>4. CASE solid # {}
  <2>1. PICK a, b \in solid : /\ \A k \in solid : a <= k /\ k <= b
                              /\ TrimSpace(t) = SubSeq(t, a, b)
    BY <1>1, <1>4, TrimmedIs
  <2> DEFINE cut == SubSeq(t, a, b)
  <2>2. TrimSpace(t) = cut
    BY <2>1
  <2> HIDE DEF solid
  <2>4. a \in 1..n /\ b \in 1..n /\ a <= b
    BY <1>2, <2>1
  <2>5. /\ cut \in Seq(Cells) /\ Len(cut) = b - a + 1
        /\ \A i \in 1..(b - a + 1) : cut[i] = t[a + i - 1]
    <3>1. \A i \in a..b : t[i] \in Cells
      BY <1>2, <2>4
    <3> QED BY <2>4, <3>1, SubSeqProperties
  <2>6. DOMAIN cut = 1..(b - a + 1)
    BY <2>5, PlacesCount
  <2> HIDE DEF cut
  <2>7. \A i \in 1..(b - a + 1) : a + i - 1 \in 1..n
    BY <2>4, <1>2
  <2>8. \A i \in 1..(b - a + 1) : i \in Words(cut) <=> a + i - 1 \in solid
    BY <2>5, <2>6, <2>7, <1>1, <1>2 DEF Words
  <2>9. Words(cut) \subseteq 1..(b - a + 1)
    BY <2>6 DEF Words
  <2>10. \A k \in solid : k - a + 1 \in 1..(b - a + 1) /\ a + (k - a + 1) - 1 = k
    BY <2>1, <2>4, <1>2
  <2>11. Places(cut) = Places(t)
    <3>1. ASSUME NEW p \in Places(cut) PROVE p \in Places(t)
      <4>1. PICK i \in Words(cut) : p = cut[i].at
        BY DEF Places
      <4>2. a + i - 1 \in solid /\ p = t[a + i - 1].at
        BY <4>1, <2>5, <2>8, <2>9
      <4> QED BY <4>2, <1>1 DEF Places
    <3>2. ASSUME NEW p \in Places(t) PROVE p \in Places(cut)
      <4>1. PICK k \in solid : p = t[k].at
        BY <1>1 DEF Places
      <4>2. k - a + 1 \in Words(cut) /\ cut[k - a + 1] = t[k]
        BY <2>5, <2>8, <2>10
      <4> QED BY <4>1, <4>2 DEF Places
    <3> QED BY <3>1, <3>2
  <2>12. ASSUME NEW i \in Words(cut), NEW j \in Words(cut), i < j
         PROVE  cut[i].at < cut[j].at
    <3>1. /\ a + i - 1 \in solid /\ a + j - 1 \in solid
          /\ cut[i] = t[a + i - 1] /\ cut[j] = t[a + j - 1]
      BY <2>5, <2>8, <2>9
    <3>2. a + i - 1 < a + j - 1
      BY <2>4, <2>9, <2>12
    <3> QED BY <3>1, <3>2, <1>1 DEF Flow
  <2>13. Flow(cut)
    BY <2>5, <2>12 DEF Flow
  <2> QED BY <1>2, <2>2, <2>4, <2>5, <2>11, <2>13
<1> QED BY <1>3, <1>4

(* A list is a sequence.                                                   *)
LEMMA ListIsSeq ==
    ASSUME NEW S, NEW n \in Nat, NEW f \in [1..n -> S]
    PROVE  f \in Seq(S) /\ Len(f) = n /\ DOMAIN f = 1..n
OBVIOUS

(* The length of pieces that are joined with at most one character.        *)
LEMMA LengthIs ==
    ASSUME NEW sizes \in Seq(Nat), NEW sep \in {0, 1}, sizes # <<>>
    PROVE  LengthOf(sizes, sep) =
              SumOf(sizes) + (IF sep = 0 THEN 0 ELSE Len(sizes) - 1)
<1>1. Len(sizes) \in Nat /\ Len(sizes) > 0 /\ SumOf(sizes) \in Nat
  <2>1. Len(sizes) \in Nat \ {0}
    BY EmptySeq
  <2> QED BY <2>1, SumMore
<1> DEFINE n == Len(sizes)
           sum == SumOf(sizes)
<1>2. LengthOf(sizes, sep) = sum + sep * (n - 1)
  BY DEF LengthOf
<1> HIDE DEF n, sum
<1>3. CASE sep = 0
  BY <1>1, <1>2, <1>3 DEF n, sum
<1>4. CASE sep = 1
  BY <1>1, <1>2, <1>4 DEF n, sum
<1> QED BY <1>3, <1>4

(* Pieces that are joined are a text with the words of all of them, as     *)
(* long as is counted.                                                     *)
LEMMA JoinedFlow ==
    ASSUME NEW pieces, InARow(pieces), NEW sep, Flow(sep), Places(sep) = {},
           Len(sep) \in {0, 1}
    PROVE  LET all == Joined(pieces, sep)
           IN /\ Flow(all) /\ Places(all) = AllOf(pieces)
              /\ Len(all) = LengthOf([k \in DOMAIN pieces |-> Len(pieces[k])],
                                               Len(sep))
<1> DEFINE n == Len(pieces)
           S == Seq(Cells)
           IsText(g) == g = [k \in 0..n |->
                                IF k = 0 THEN <<>>
                                ELSE g[k - 1] \o (IF k = 1 THEN <<>> ELSE sep) \o pieces[k]]
           step == [x \in (1..n) \X S |->
                       x[2] \o (IF x[1] = 1 THEN <<>> ELSE sep) \o pieces[x[1]]]
<1>1. /\ pieces \in Seq(S) /\ sep \in S /\ <<>> \in S /\ n \in Nat /\ DOMAIN pieces = 1..n
      /\ \A k \in 1..n : pieces[k] \in S
  <2>1. <<>> \in S
    BY EmptyWords
  <2>2. pieces \in Seq(S) /\ sep \in S
    BY DEF InARow, Flow
  <2> HIDE DEF S
  <2> QED BY <2>1, <2>2
<1>2. step \in [(1..n) \X S -> S]
  <2>1. ASSUME NEW k \in 1..n, NEW t \in S
        PROVE  t \o (IF k = 1 THEN <<>> ELSE sep) \o pieces[k] \in S
    <3> DEFINE s == IF k = 1 THEN <<>> ELSE sep
    <3>1. s \in S /\ pieces[k] \in S
      BY <1>1
    <3> HIDE DEF s
    <3>2. t \o s \in S
      BY <3>1, ConcatProperties
    <3>3. (t \o s) \o pieces[k] \in S
      <4> DEFINE ts == t \o s
      <4> HIDE DEF ts
      <4>1. ts \o pieces[k] \in S
        BY <3>1, <3>2, ConcatProperties DEF ts
      <4> QED BY <4>1 DEF ts
    <3> QED BY <3>3 DEF s
  <2>2. ASSUME NEW x \in (1..n) \X S
        PROVE  x[2] \o (IF x[1] = 1 THEN <<>> ELSE sep) \o pieces[x[1]] \in S
    <3>1. x[1] \in 1..n /\ x[2] \in S
      <4> HIDE DEF S
      <4> QED OBVIOUS
    <3> HIDE DEF S
    <3> QED BY <2>1, <3>1
  <2> HIDE DEF S
  <2> QED BY <2>2
<1>3. PICK g \in [0..n -> S] : IsRun(g, n, <<>>, step)
  <2> HIDE DEF S, n, step
  <2> QED BY <1>1, <1>2, RoundsExist
<1>4. IsText(g)
  <2>1. ASSUME NEW k \in 0..n
        PROVE  g[k] = IF k = 0 THEN <<>>
                      ELSE g[k - 1] \o (IF k = 1 THEN <<>> ELSE sep) \o pieces[k]
    <3>1. CASE k = 0
      BY <1>3, <3>1 DEF IsRun
    <3>2. CASE k # 0
      <4>1. k \in 1..n /\ k - 1 \in 0..n
        BY <3>2, <1>1
      <4> HIDE DEF S
      <4>2. <<k, g[k - 1]>> \in (1..n) \X S
        BY <4>1
      <4>3. step[<<k, g[k - 1]>>] =
               g[k - 1] \o (IF k = 1 THEN <<>> ELSE sep) \o pieces[k]
        BY <4>2
      <4> HIDE DEF step
      <4>4. g[k] = step[<<k, g[k - 1]>>]
        BY <1>3, <3>2 DEF IsRun
      <4> QED BY <3>2, <4>3, <4>4
    <3> QED BY <3>1, <3>2
  <2>2. g = [k \in 0..n |-> g[k]]
    BY <1>3
  <2> HIDE DEF S
  <2> QED BY <2>1, <2>2
<1> DEFINE text == CHOOSE h : IsText(h)
<1>5. Joined(pieces, sep) = text[n]
  BY DEF Joined
<1>6. IsText(text)
  <2> HIDE DEF IsText
  <2> QED BY <1>4, Zenon
<1> HIDE DEF text
<1>7. /\ text[0] = <<>>
      /\ \A k \in 1..n : text[k] = (text[k - 1] \o (IF k = 1 THEN <<>> ELSE sep)) \o pieces[k]
  <2>1. \A k \in 0..n : text[k] = IF k = 0 THEN <<>>
                      ELSE (text[k - 1] \o (IF k = 1 THEN <<>> ELSE sep)) \o pieces[k]
    BY <1>6
  <2>2. 0 \in 0..n
    BY <1>1
  <2>3. \A k \in 1..n : k \in 0..n /\ k # 0
    BY <1>1
  <2> QED BY <2>1, <2>2, <2>3
<1> HIDE DEF IsText, step, S
<1> DEFINE sizes == [k \in DOMAIN pieces |-> Len(pieces[k])]
<1>8. /\ sizes \in Seq(Nat) /\ Len(sizes) = n
      /\ \A k \in 1..n : sizes[k] = Len(pieces[k]) /\ Len(pieces[k]) \in Nat
  <2>1. \A k \in 1..n : Len(pieces[k]) \in Nat
    BY <1>1, LenProperties DEF S
  <2>2. sizes \in [1..n -> Nat] /\ \A k \in 1..n : sizes[k] = Len(pieces[k])
    BY <1>1, <2>1
  <2> HIDE DEF sizes, n
  <2> QED BY <1>1, <2>1, <2>2, ListIsSeq
<1> HIDE DEF sizes
<1>9. PICK sum \in [0..n -> Nat] :
         /\ SumOf(sizes) = sum[n]
         /\ \A k \in 0..n : sum[k] = IF k = 0 THEN 0 ELSE sum[k - 1] + sizes[k]
  BY <1>8, SumRounds
<1> DEFINE upTo(k) == UNION {Places(pieces[j]) : j \in 1..k}
           long(k) == IF k = 0 THEN 0 ELSE sum[k] + (IF Len(sep) = 0 THEN 0 ELSE k - 1)
           G == {k \in 0..n : /\ Flow(text[k]) /\ Places(text[k]) = upTo(k)
                              /\ Len(text[k]) = long(k)}
<1>10. 0 \in G
  <2>1. Flow(<<>>) /\ Places(<<>>) = {} /\ Len(<<>>) = 0
    BY EmptyWords, BlankFlow
  <2>2. upTo(0) = {} /\ long(0) = 0
    OBVIOUS
  <2> QED BY <1>1, <1>7, <2>1, <2>2
<1>11. ASSUME NEW k \in 1..n, k - 1 \in G PROVE k \in G
  <2> DEFINE s == IF k = 1 THEN <<>> ELSE sep
             t == text[k - 1]
             u == pieces[k]
             P == upTo(k - 1)
             m == long(k - 1)
  <2>1. Flow(t) /\ Places(t) = P /\ Len(t) = m
    BY <1>11
  <2>2. Flow(s) /\ Places(s) = {} /\ (k # 1 => Len(s) = Len(sep))
        /\ (k = 1 => Len(s) = 0)
    <3>1. Flow(<<>>) /\ Places(<<>>) = {} /\ Len(<<>>) = 0
      BY EmptyWords, BlankFlow
    <3> QED BY <3>1
  <2>3. Flow(u) /\ Before(P, Places(u))
    <3>1. Flow(u)
      BY <1>1 DEF InARow
    <3>2. ASSUME NEW j \in 1..(k - 1)
          PROVE  Before(Places(pieces[j]), Places(u))
      <4>1. j \in 1..n /\ j < k
        BY <1>1
      <4> QED BY <1>1, <4>1 DEF InARow
    <3> QED BY <3>1, <3>2 DEF Before
  <2>4. upTo(k) = P \cup Places(u)
    <3>1. \A j \in 1..k : j = k \/ j \in 1..(k - 1)
      BY <1>1
    <3>2. \A j \in 1..(k - 1) : j \in 1..k
      BY <1>1
    <3>3. k \in 1..k
      BY <1>1
    <3> QED BY <3>1, <3>2, <3>3
  <2>5. text[k] = (t \o s) \o u
    BY <1>7
  <2>6. long(k) = m + Len(s) + Len(u)
    <3>1. sum[k] = sum[k - 1] + Len(u) /\ sum[k - 1] \in Nat /\ Len(u) \in Nat
          /\ sum[0] = 0
      <4>1. k \in 0..n /\ k # 0 /\ k - 1 \in 0..n /\ 0 \in 0..n
        BY <1>1
      <4> QED BY <1>8, <1>9, <4>1
    <3>2. CASE k = 1
      <4>1. m = 0 /\ long(k) = sum[k]
        BY <3>2
      <4>2. sum[k - 1] = 0
        BY <3>1, <3>2
      <4> QED BY <2>2, <3>1, <3>2, <4>1, <4>2
    <3>3. CASE k # 1
      <4>1. k - 1 \in Nat /\ k - 1 # 0 /\ k # 0
        BY <3>3, <1>1
      <4>2. m = sum[k - 1] + (IF Len(sep) = 0 THEN 0 ELSE k - 1 - 1)
            /\ long(k) = sum[k] + (IF Len(sep) = 0 THEN 0 ELSE k - 1)
        BY <4>1
      <4> HIDE DEF m, u, s, long
      <4>3. Len(s) = Len(sep) /\ Len(sep) \in {0, 1} /\ k \in Nat
        BY <2>2, <3>3, <1>1
      <4>4. CASE Len(sep) = 0
        BY <3>1, <4>1, <4>2, <4>3, <4>4
      <4>5. CASE Len(sep) = 1
        <5>1. m = sum[k - 1] + (k - 1 - 1) /\ long(k) = sum[k] + (k - 1) /\ Len(s) = 1
          BY <4>2, <4>3, <4>5
        <5> DEFINE a == sum[k - 1]
                   b == Len(u)
        <5>2. m = a + (k - 1 - 1) /\ long(k) = a + b + (k - 1) /\ a \in Nat /\ b \in Nat
          BY <3>1, <5>1
        <5> HIDE DEF a, b
        <5>3. long(k) = m + 1 + b
          BY <4>3, <5>2
        <5> QED BY <5>1, <5>3 DEF b
      <4> QED BY <4>3, <4>4, <4>5
    <3> QED BY <3>2, <3>3
  <2>7. k \in 0..n
    BY <1>1
  <2> HIDE DEF t, s, u, P, m, upTo, long
  <2>8. Flow(t \o s) /\ Places(t \o s) = P /\ Len(t \o s) = m + Len(s)
    <3>1. Before(Places(t), Places(s))
      BY <2>2 DEF Before
    <3>2. /\ Flow(t \o s)
          /\ Places(t \o s) = Places(t) \cup Places(s)
          /\ Len(t \o s) = Len(t) + Len(s)
      BY <2>1, <2>2, <3>1, FlowConcat
    <3> QED BY <2>1, <2>2, <3>2
  <2>9. /\ Flow((t \o s) \o u) /\ Places((t \o s) \o u) = P \cup Places(u)
        /\ Len((t \o s) \o u) = m + Len(s) + Len(u)
    <3> DEFINE ts == t \o s
    <3> HIDE DEF ts
    <3>1. Flow(ts) /\ Places(ts) = P /\ Len(ts) = m + Len(s)
      BY <2>8 DEF ts
    <3>2. Flow(ts \o u) /\ Places(ts \o u) = P \cup Places(u)
          /\ Len(ts \o u) = m + Len(s) + Len(u)
      BY <2>3, <3>1, FlowConcat
    <3> QED BY <3>2 DEF ts
  <2> QED BY <2>4, <2>5, <2>6, <2>7, <2>9
<1>12. n \in G
  <2> HIDE DEF G, n
  <2>1. G \in SUBSET (0..n)
    BY DEF G
  <2>2. \A k \in 0..n : k \in G
    BY <1>1, <1>10, <1>11, <2>1, UpTo
  <2> QED BY <1>1, <2>2
<1>13. upTo(n) = AllOf(pieces)
  BY <1>1 DEF AllOf
<1>14. long(n) = LengthOf(sizes, Len(sep))
  <2>1. CASE n = 0
    <3>1. sizes = <<>>
      BY <1>8, <2>1
    <3>2. LengthOf(<<>>, Len(sep)) = 0
      BY <1>8, LengthMore DEF LengthOf
    <3> QED BY <2>1, <3>1, <3>2
  <2>2. CASE n # 0
    <3>1. sizes # <<>>
      <4>1. Len(<<>>) = 0
        BY EmptyWords
      <4> QED BY <1>8, <2>2, <4>1
    <3>2. LengthOf(sizes, Len(sep)) =
              SumOf(sizes) + (IF Len(sep) = 0 THEN 0 ELSE Len(sizes) - 1)
      BY <1>8, <3>1, LengthIs
    <3> QED BY <1>8, <1>9, <2>2, <3>2
  <2> QED BY <2>1, <2>2
<1> QED BY <1>5, <1>12, <1>13, <1>14 DEF sizes

-----------------------------------------------------------------------------
(* TextSplit: which of the pieces are merged to a chunk.                   *)

(* A part of a list, and the part with one more.                           *)
LEMMA PartMore ==
    ASSUME NEW S, NEW s \in Seq(S), NEW a \in 1..(Len(s) + 1), NEW b \in 0..Len(s), a <= b + 1
    PROVE  /\ SubSeq(s, a, b) \in Seq(S) /\ Len(SubSeq(s, a, b)) = b - a + 1
           /\ b - a + 1 \in Nat
           /\ (SubSeq(s, a, b) = <<>>) <=> (a = b + 1)
           /\ \A i \in 1..(b - a + 1) : SubSeq(s, a, b)[i] = s[a + i - 1]
           /\ b < Len(s) =>
                 SubSeq(s, a, b + 1) = Append(SubSeq(s, a, b), s[b + 1]) /\ s[b + 1] \in S
<1> DEFINE n == Len(s)
<1>1. n \in Nat /\ \A i \in 1..n : s[i] \in S
  OBVIOUS
<1>2. a \in Int /\ b \in Int /\ \A i \in a..b : i \in 1..n
  BY <1>1
<1>3. /\ SubSeq(s, a, b) \in Seq(S)
      /\ Len(SubSeq(s, a, b)) = IF a <= b THEN b - a + 1 ELSE 0
      /\ \A i \in 1..(b - a + 1) : SubSeq(s, a, b)[i] = s[a + i - 1]
  <2>1. \A i \in a..b : s[i] \in S
    BY <1>1, <1>2
  <2> HIDE DEF n
  <2> QED BY <1>2, <2>1, SubSeqProperties
<1>4. Len(SubSeq(s, a, b)) = b - a + 1 /\ b - a + 1 \in Nat
  BY <1>2, <1>3
<1>5. (SubSeq(s, a, b) = <<>>) <=> (a = b + 1)
  <2> DEFINE t == SubSeq(s, a, b)
  <2>1. t \in Seq(S) /\ Len(t) = b - a + 1
    BY <1>3, <1>4
  <2> HIDE DEF t
  <2>2. Len(<<>>) = 0 /\ (t # <<>> => Len(t) \in Nat \ {0})
    BY <2>1, EmptySeq
  <2>3. (t = <<>>) <=> (a = b + 1)
    BY <2>1, <2>2, <1>2
  <2> QED BY <2>3 DEF t
<1>6. ASSUME b < n
      PROVE  SubSeq(s, a, b + 1) = Append(SubSeq(s, a, b), s[b + 1]) /\ s[b + 1] \in S
  <2> DEFINE t == SubSeq(s, a, b)
             u == SubSeq(s, a, b + 1)
             v == Append(t, s[b + 1])
  <2>1. b + 1 \in Int /\ b + 1 \in 1..n /\ a <= b + 1 /\ \A i \in a..(b + 1) : i \in 1..n
    BY <1>1, <1>2, <1>6
  <2>2. s[b + 1] \in S /\ \A i \in a..(b + 1) : s[i] \in S
    BY <1>1, <2>1
  <2>3. /\ u \in Seq(S) /\ Len(u) = b + 1 - a + 1
        /\ \A i \in 1..(b + 1 - a + 1) : u[i] = s[a + i - 1]
    <3> HIDE DEF n
    <3> QED BY <1>2, <2>1, <2>2, SubSeqProperties
  <2>4. /\ v \in Seq(S) /\ Len(v) = b - a + 1 + 1
        /\ \A i \in 1..(b - a + 1 + 1) : v[i] = IF i = b - a + 1 + 1 THEN s[b + 1] ELSE t[i]
    <3>1. t \in Seq(S) /\ Len(t) = b - a + 1
      BY <1>3, <1>4
    <3> HIDE DEF t
    <3>2. /\ v \in Seq(S) /\ Len(v) = Len(t) + 1
          /\ \A i \in 1..(Len(t) + 1) : v[i] = IF i = Len(t) + 1 THEN s[b + 1] ELSE t[i]
      BY <2>2, <3>1
    <3> HIDE DEF v
    <3> QED BY <3>1, <3>2
  <2>5. b + 1 - a + 1 = b - a + 1 + 1 /\ a + (b - a + 1 + 1) - 1 = b + 1
    BY <1>2
  <2>6. \A i \in 1..(b - a + 1 + 1) : i # b - a + 1 + 1 => i \in 1..(b - a + 1)
    BY <1>2
  <2>7. \A i \in 1..(b - a + 1 + 1) : u[i] = v[i]
    <3> HIDE DEF v, u
    <3> QED BY <1>3, <2>3, <2>4, <2>5, <2>6
  <2> HIDE DEF t, u, v
  <2>8. u = v
    BY <2>3, <2>4, <2>5, <2>7, SeqEqual
  <2> QED BY <2>2, <2>8 DEF t, u, v
<1> QED BY <1>3, <1>4, <1>5, <1>6

(* A part of a list of numbers.                                            *)
LEMMA PartOfNumbers ==
    ASSUME NEW s \in Seq(Nat), NEW a \in 1..(Len(s) + 1), NEW b \in 0..Len(s), a <= b + 1
    PROVE  /\ SubSeq(s, a, b) \in Seq(Nat) /\ Len(SubSeq(s, a, b)) = b - a + 1
           /\ b - a + 1 \in Nat
           /\ (SubSeq(s, a, b) = <<>>) <=> (a = b + 1)
           /\ \A i \in 1..(b - a + 1) : SubSeq(s, a, b)[i] = s[a + i - 1]
           /\ b < Len(s) =>
                 SubSeq(s, a, b + 1) = Append(SubSeq(s, a, b), s[b + 1]) /\ s[b + 1] \in Nat
BY PartMore, Zenon

\* How long the a-th to the b-th of pieces are.
Long(sizes, a, b, sep) == LengthOf(SubSeq(sizes, a, b), sep)

LEMMA LongMore ==
    ASSUME NEW sizes \in Seq(Nat), NEW sep \in {0, 1},
           NEW a \in 1..(Len(sizes) + 1), NEW b \in 0..Len(sizes), a <= b + 1
    PROVE  /\ Long(sizes, a, b, sep) \in Nat
           /\ a = b + 1 => Long(sizes, a, b, sep) = 0
           /\ b < Len(sizes) =>
                 /\ sizes[b + 1] \in Nat
                 /\ Long(sizes, a, b + 1, sep) =
                       Long(sizes, a, b, sep) + sizes[b + 1] + (IF a = b + 1 THEN 0 ELSE sep)
<1> DEFINE t == SubSeq(sizes, a, b)
<1>1. /\ t \in Seq(Nat) /\ ((t = <<>>) <=> (a = b + 1))
      /\ b < Len(sizes) =>
            SubSeq(sizes, a, b + 1) = Append(t, sizes[b + 1]) /\ sizes[b + 1] \in Nat
  BY PartOfNumbers
<1> HIDE DEF t
<1>2. LengthOf(t, sep) \in Nat
  <2>1. t \in Seq(Nat) /\ 0 \in Nat
    BY <1>1
  <2> QED BY <2>1, LengthMore, Zenon
<1>3. a = b + 1 => LengthOf(t, sep) = 0
  BY <1>1, LengthMore DEF LengthOf
<1>4. ASSUME b < Len(sizes)
      PROVE  LengthOf(Append(t, sizes[b + 1]), sep) =
                LengthOf(t, sep) + sizes[b + 1] + (IF t = <<>> THEN 0 ELSE sep)
  <2>1. t \in Seq(Nat) /\ sizes[b + 1] \in Nat
    BY <1>1, <1>4
  <2> QED BY <2>1, LengthMore, Zenon
<1>5. ASSUME b < Len(sizes)
      PROVE  /\ sizes[b + 1] \in Nat
             /\ Long(sizes, a, b + 1, sep) =
                   Long(sizes, a, b, sep) + sizes[b + 1] + (IF a = b + 1 THEN 0 ELSE sep)
  <2>1. Long(sizes, a, b + 1, sep) = LengthOf(Append(t, sizes[b + 1]), sep)
    BY <1>1, <1>5 DEF Long
  <2>2. Long(sizes, a, b, sep) = LengthOf(t, sep)
    BY DEF Long, t
  <2> QED BY <1>1, <1>4, <1>5, <2>1, <2>2
<1> QED BY <1>2, <1>3, <1>5 DEF Long, t

(* As many pieces are popped as it takes for the rest to be no longer than *)
(* the overlap, and for the next piece to fit.                             *)
LEMMA PoppedEnough ==
    ASSUME NEW sizes \in Seq(Nat), NEW split \in Nat, NEW sep \in {0, 1},
           NEW size \in Nat, NEW overlap \in Nat
    PROVE  LET p == Popped(sizes, split, sep, size, overlap)
               rest == Long(sizes, p + 1, Len(sizes), sep)
           IN /\ p \in 0..Len(sizes)
              /\ rest <= overlap
              /\ rest = 0 \/ rest + split <= size
<1> DEFINE n == Len(sizes)
           slice(k) == SubSeq(sizes, k + 1, n)
           enough(k) == ~shouldPop(overlap, size, LengthOf(slice(k), sep),
                                             split, sep, Len(slice(k)))
           ends == {k \in 0..n : enough(k)}
           p == Popped(sizes, split, sep, size, overlap)
<1>1. n \in Nat /\ p = Min(ends)
  BY DEF Popped
<1>2. ASSUME NEW k \in 0..n
      PROVE  /\ Long(sizes, k + 1, n, sep) \in Nat /\ Len(slice(k)) = n - k
             /\ k = n => Long(sizes, k + 1, n, sep) = 0
  <2>1. k + 1 \in 1..(n + 1) /\ n \in 0..n /\ k + 1 <= n + 1 /\ n - (k + 1) + 1 = n - k
        /\ (k = n => k + 1 = n + 1)
    BY <1>1
  <2>2. Len(SubSeq(sizes, k + 1, Len(sizes))) = Len(sizes) - (k + 1) + 1
    BY <2>1, PartOfNumbers
  <2>3. /\ Long(sizes, k + 1, Len(sizes), sep) \in Nat
        /\ k + 1 = Len(sizes) + 1 => Long(sizes, k + 1, Len(sizes), sep) = 0
    <3>1. k + 1 \in 1..(Len(sizes) + 1) /\ Len(sizes) \in 0..Len(sizes)
          /\ k + 1 <= Len(sizes) + 1
      BY <2>1
    <3> QED BY <3>1, LongMore, Zenon
  <2> QED BY <2>1, <2>2, <2>3
<1>3. n \in ends
  <2>1. n \in 0..n /\ n - n = 0
    BY <1>1
  <2>2. Len(slice(n)) = 0
    BY <1>2, <2>1
  <2> HIDE DEF slice
  <2>3. enough(n)
    BY <2>2 DEF shouldPop
  <2> QED BY <2>1, <2>3
<1>4. p \in ends
  <2>1. ends \subseteq Nat
    BY <1>1
  <2> HIDE DEF ends, p
  <2>2. \E x \in ends : \A y \in ends : x <= y
    BY <1>3, <2>1, LeastOf
  <2>3. Min(ends) \in ends
    BY <2>2, Zenon DEF Min
  <2> QED BY <1>1, <2>3
<1>5. p \in 0..n /\ enough(p)
  BY <1>4
<1> DEFINE rest == Long(sizes, p + 1, n, sep)
<1>6. rest \in Nat /\ Len(slice(p)) = n - p /\ (p = n => rest = 0)
  BY <1>2, <1>5
<1>7. ~shouldPop(overlap, size, rest, split, sep, n - p)
  BY <1>5, <1>6 DEF Long
<1> HIDE DEF p, rest, enough, ends, slice, n
<1>8. rest <= overlap /\ (rest = 0 \/ rest + split <= size)
  <2>1. CASE p = n
    BY <1>6, <2>1
  <2>2. CASE p # n
    <3>1. n - p > 0
      BY <1>1, <1>5, <2>2
    <3> DEFINE more == IF n - p < 2 THEN 0 ELSE sep
    <3>2. more \in {0, 1}
      OBVIOUS
    <3>3. ~(rest > overlap \/ (rest + split + more > size /\ rest > 0))
      BY <1>7, <3>1 DEF shouldPop
    <3> HIDE DEF more
    <3> QED BY <1>6, <3>2, <3>3
  <2> QED BY <2>1, <2>2
<1> QED BY <1>5, <1>8 DEF rest, p, n

\* The groups of the first k pieces: each has a first and a last one.
Grouped(g, k, sizes, sep, size, overlap) ==
    /\ g \in Seq(Nat \X Nat) /\ Len(g) > 0
    /\ g[Len(g)][2] = k
    /\ \A i \in 1..Len(g) :
          /\ g[i][1] \in 1..g[i][2] /\ g[i][2] \in 1..k
          /\ Long(sizes, g[i][1], g[i][2], sep) <= size + sep
    /\ \A j \in 1..k : \E i \in 1..Len(g) : j \in g[i][1]..g[i][2]
    /\ \A i, j \in 1..Len(g) : i < j => g[i][1] <= g[j][1]
    /\ \A i \in 1..Len(g) : i # Len(g) => Long(sizes, g[i + 1][1], g[i][2], sep) <= overlap

(* The groups that pieces are merged in are in the order of the pieces and *)
(* leave none out; each is as long as it may be, and what it shares with   *)
(* the next one is no longer than the overlap.                             *)
LEMMA MergedGroups ==
    ASSUME NEW sizes \in Seq(Nat), NEW sep \in {0, 1}, NEW size \in Nat,
           NEW overlap \in Nat, sizes # <<>>, \A k \in 1..Len(sizes) : sizes[k] < size
    PROVE  Grouped(mergeSplits(sizes, sep, size, overlap), Len(sizes),
                   sizes, sep, size, overlap)
<1> DEFINE n == Len(sizes)
           Pairs == Nat \X Nat
           S == [docs : Seq(Pairs), from : Nat \ {0}]
           slice(a, b) == SubSeq(sizes, a, b)
           new(m, k) ==
              IF LengthOf(slice(m.from, k), sep) > size /\ m.from < k
              THEN [docs |-> Append(m.docs, <<m.from, k - 1>>),
                    from |-> m.from + Popped(slice(m.from, k - 1), sizes[k], sep,
                                                       size, overlap)]
              ELSE m
           first == [docs |-> <<>>, from |-> 1]
           IsAfter(g) == g = [k \in 0..n |-> IF k = 0 THEN first ELSE new(g[k - 1], k)]
           step == [x \in (1..n) \X S |-> new(x[2], x[1])]
<1>1. n \in Nat /\ n > 0 /\ \A k \in 1..n : sizes[k] \in Nat
  BY EmptySeq
<1>2. first \in S
  <2>1. <<>> \in Seq(Pairs)
    <3> HIDE DEF Pairs
    <3> QED BY EmptySeq
  <2> HIDE DEF Pairs
  <2> QED BY <2>1
<1>3. ASSUME NEW m \in S, NEW k \in 1..n PROVE new(m, k) \in S
  <2>1. m.docs \in Seq(Pairs) /\ m.from \in Nat \ {0}
    <3> HIDE DEF Pairs
    <3> QED OBVIOUS
  <2>2. CASE ~(LengthOf(slice(m.from, k), sep) > size /\ m.from < k)
    <3> HIDE DEF S
    <3> QED BY <2>2
  <2>3. CASE LengthOf(slice(m.from, k), sep) > size /\ m.from < k
    <3> DEFINE those == slice(m.from, k - 1)
               p == Popped(those, sizes[k], sep, size, overlap)
    <3>1. m.from \in 1..(n + 1) /\ k - 1 \in 0..n /\ m.from <= k - 1 + 1 /\ k - 1 \in Nat
      BY <1>1, <2>1, <2>3
    <3>2. those \in Seq(Nat)
      BY <3>1, PartOfNumbers
    <3> HIDE DEF those
    <3>3. p \in 0..Len(those) /\ Len(those) \in Nat
      BY <1>1, <3>2, PoppedEnough, LenProperties
    <3> HIDE DEF p
    <3>4. m.from + p \in Nat \ {0} /\ <<m.from, k - 1>> \in Pairs
      BY <2>1, <3>1, <3>3
    <3>5. Append(m.docs, <<m.from, k - 1>>) \in Seq(Pairs)
      <4> HIDE DEF Pairs
      <4> QED BY <2>1, <3>4
    <3>6. new(m, k) = [docs |-> Append(m.docs, <<m.from, k - 1>>), from |-> m.from + p]
      BY <2>3 DEF p, those
    <3> HIDE DEF new, Pairs
    <3> QED BY <3>4, <3>5, <3>6
  <2> QED BY <2>2, <2>3
<1> HIDE DEF new, S, first, slice, Pairs
<1>4. step \in [(1..n) \X S -> S]
  <2>1. ASSUME NEW x \in (1..n) \X S PROVE new(x[2], x[1]) \in S
    BY <1>3
  <2> QED BY <2>1
<1>5. PICK g \in [0..n -> S] : IsRun(g, n, first, step)
  <2> HIDE DEF n, step
  <2> QED BY <1>1, <1>2, <1>4, RoundsExist
<1>6. IsAfter(g)
  <2>1. ASSUME NEW k \in 0..n PROVE g[k] = IF k = 0 THEN first ELSE new(g[k - 1], k)
    <3>1. CASE k = 0
      BY <1>5, <3>1 DEF IsRun
    <3>2. CASE k # 0
      <4>1. k \in 1..n /\ k - 1 \in 0..n
        BY <3>2, <1>1
      <4>2. <<k, g[k - 1]>> \in (1..n) \X S
        BY <4>1
      <4>3. step[<<k, g[k - 1]>>] = new(g[k - 1], k)
        BY <4>2
      <4> HIDE DEF step
      <4>4. g[k] = step[<<k, g[k - 1]>>]
        BY <1>5, <3>2 DEF IsRun
      <4> QED BY <3>2, <4>3, <4>4
    <3> QED BY <3>1, <3>2
  <2>2. g = [k \in 0..n |-> g[k]]
    BY <1>5
  <2> QED BY <2>1, <2>2
<1> DEFINE after == CHOOSE h : IsAfter(h)
           groups(k) == Append(after[k].docs, <<after[k].from, k>>)
<1>7. mergeSplits(sizes, sep, size, overlap) = groups(n)
  BY DEF mergeSplits, new, first, slice
<1>8. IsAfter(after)
  <2> HIDE DEF IsAfter
  <2> QED BY <1>6, Zenon
<1> HIDE DEF after, step
<1>9. after[0] = first /\ \A k \in 1..n : after[k] = new(after[k - 1], k)
  <2>1. \A k \in 0..n : after[k] = IF k = 0 THEN first ELSE new(after[k - 1], k)
    BY <1>8
  <2>2. 0 \in 0..n /\ \A k \in 1..n : k \in 0..n /\ k # 0
    BY <1>1
  <2> QED BY <2>1, <2>2
<1> HIDE DEF IsAfter
<1> DEFINE Is(k) == Grouped(groups(k), k, sizes, sep, size, overlap)
           G == {k \in 0..n : after[k] \in S /\ (k # 0 => Is(k))}
<1>10. 0 \in G
  BY <1>1, <1>2, <1>9
<1>11. ASSUME NEW k \in 1..n, k - 1 \in G PROVE k \in G
  <2> DEFINE m == after[k - 1]
             from == m.from
             ended == m.docs
             c == Len(ended)
  <2>1. m \in S /\ after[k] = new(m, k) /\ (k - 1 # 0 => Is(k - 1))
    BY <1>9, <1>11
  <2>2. after[k] \in S /\ k \in 0..n
    BY <1>1, <1>3, <2>1
  <2>3. ended \in Seq(Pairs) /\ from \in Nat \ {0} /\ c \in Nat
    <3>1. ended \in Seq(Pairs) /\ from \in Nat \ {0}
      BY <2>1 DEF S
    <3> HIDE DEF ended
    <3> QED BY <3>1, LenProperties
  <2>4. CASE k = 1
    <3>1. m = first
      BY <1>9, <2>4
    <3>2. after[k] = first
      BY <2>1, <2>4, <3>1 DEF new, first
    <3>3. groups(k) = <<<<1, 1>>>>
      BY <2>4, <3>2 DEF first
    <3> DEFINE e == <<1, 1>>
               one == <<e>>
    <3>4. e \in Nat \X Nat /\ e[1] = 1 /\ e[2] = 1
      OBVIOUS
    <3> HIDE DEF e
    <3>5. one \in Seq(Nat \X Nat) /\ Len(one) = 1 /\ one[1] = e
      BY <3>4, OneOf
    <3>6. Long(sizes, 1, 1, sep) <= size + sep
      <4>1. 1 \in 1..(Len(sizes) + 1) /\ 0 \in 0..Len(sizes) /\ 1 <= 0 + 1 /\ 0 < Len(sizes)
        BY <1>1
      <4>2. Long(sizes, 1, 0 + 1, sep) = Long(sizes, 1, 0, sep) + sizes[0 + 1] + 0
            /\ Long(sizes, 1, 0, sep) = 0 /\ sizes[0 + 1] \in Nat
        BY <4>1, LongMore
      <4>3. 0 + 1 = 1 /\ 1 \in 1..n
        BY <1>1
      <4>4. Long(sizes, 1, 1, sep) = sizes[1] /\ sizes[1] < size
        BY <4>2, <4>3
      <4> QED BY <4>2, <4>3, <4>4
    <3> HIDE DEF one
    <3>7. Grouped(one, 1, sizes, sep, size, overlap)
      BY <3>4, <3>5, <3>6, OneInOne DEF Grouped
    <3>8. Is(k)
      BY <2>4, <3>3, <3>7 DEF one, e
    <3> QED BY <2>2, <3>8
  <2>5. CASE k # 1
    <3> DEFINE b == k - 1
               old == groups(b)
    <3>1. b \in 1..n /\ k = b + 1 /\ b < n /\ b \in Nat /\ b # 0
      BY <1>1, <2>5
    <3> HIDE DEF b
    <3>2. Grouped(old, b, sizes, sep, size, overlap)
      BY <2>1, <3>1 DEF b
    <3>3. old = Append(ended, <<from, b>>)
      BY DEF b
    <3>4. /\ Len(old) = c + 1 /\ old[c + 1] = <<from, b>> /\ c + 1 \in 1..(c + 1)
          /\ \A i \in 1..c : old[i] = ended[i] /\ i \in 1..(c + 1)
          /\ \A i \in 1..(c + 1) : i = c + 1 \/ i \in 1..c
      <4>1. <<from, b>> \in Pairs
        BY <2>3, <3>1 DEF Pairs
      <4> HIDE DEF ended, from
      <4> DEFINE e == <<from, b>>
      <4> HIDE DEF e
      <4>2. Len(Append(ended, e)) = c + 1 /\ Append(ended, e)[c + 1] = e
            /\ \A i \in 1..c : Append(ended, e)[i] = ended[i]
        BY <2>3, <4>1 DEF e
      <4>3. c + 1 \in 1..(c + 1) /\ (\A i \in 1..c : i \in 1..(c + 1))
            /\ \A i \in 1..(c + 1) : i = c + 1 \/ i \in 1..c
        <5> HIDE DEF c
        <5> QED BY <2>3
      <4> HIDE DEF c, old
      <4> QED BY <3>3, <4>2, <4>3 DEF e
    <3>5. from \in 1..b /\ Long(sizes, from, b, sep) <= size + sep
      <4>1. old[c + 1][1] = from /\ old[c + 1][2] = b
        BY <3>4
      <4> HIDE DEF c, old, from
      <4> QED BY <3>2, <3>4, <4>1 DEF Grouped
    <3>6. /\ from \in 1..(Len(sizes) + 1) /\ b \in 0..Len(sizes) /\ from <= b + 1
          /\ b < Len(sizes) /\ from # b + 1 /\ from < k
      <4> HIDE DEF from
      <4> QED BY <1>1, <3>1, <3>5
    <3>7. /\ Long(sizes, from, b, sep) \in Nat
          /\ Long(sizes, from, k, sep) = Long(sizes, from, b, sep) + sizes[k] + sep
          /\ sizes[k] \in Nat /\ sizes[k] < size
      <4> HIDE DEF from
      <4>1. /\ Long(sizes, from, b, sep) \in Nat /\ sizes[b + 1] \in Nat
            /\ Long(sizes, from, b + 1, sep) = Long(sizes, from, b, sep) + sizes[b + 1] + sep
        BY <3>6, LongMore
      <4> QED BY <3>1, <4>1
    <3> HIDE DEF ended, from, c, old
    <3>8. ASSUME Long(sizes, from, k, sep) <= size PROVE Is(k)
      <4> DEFINE g2 == Append(ended, <<from, k>>)
      <4>1. after[k] = m
        <5>1. Long(sizes, from, k, sep) \in Nat
          BY <3>7
        <5>2. ~(Long(sizes, from, k, sep) > size)
          BY <3>8, <5>1
        <5> QED BY <2>1, <5>2 DEF new, Long, slice, from
      <4>2. groups(k) = g2
        BY <4>1 DEF ended, from
      <4>3. /\ g2 \in Seq(Nat \X Nat) /\ Len(g2) = c + 1
            /\ g2[c + 1][1] = from /\ g2[c + 1][2] = k
            /\ \A i \in 1..c : g2[i] = old[i]
        <5> DEFINE e == <<from, k>>
        <5>1. e \in Nat \X Nat /\ e[1] = from /\ e[2] = k
          BY <2>3, <1>1
        <5> HIDE DEF e
        <5>2. ended \in Seq(Nat \X Nat)
          BY <2>3 DEF Pairs
        <5>3. Append(ended, e) \in Seq(Nat \X Nat) /\ Len(Append(ended, e)) = c + 1
              /\ Append(ended, e)[c + 1] = e
              /\ \A i \in 1..c : Append(ended, e)[i] = ended[i]
          BY <5>1, <5>2 DEF c
        <5> QED BY <3>4, <5>1, <5>3 DEF e
      <4> HIDE DEF g2
      <4>4. old[c + 1][1] = from /\ old[c + 1][2] = b
        BY <3>4
      <4>5. \A i \in 1..(c + 1) : g2[i][1] = old[i][1] /\ (i # c + 1 => g2[i][2] = old[i][2])
        BY <3>4, <4>3, <4>4
      <4>6. ASSUME NEW i \in 1..(c + 1)
            PROVE  /\ g2[i][1] \in 1..g2[i][2] /\ g2[i][2] \in 1..k
                   /\ Long(sizes, g2[i][1], g2[i][2], sep) <= size + sep
        <5>1. CASE i = c + 1
          <6>1. g2[i][1] = from /\ g2[i][2] = k
            BY <4>3, <5>1
          <6>2. from \in 1..k /\ k \in 1..k /\ size <= size + sep
            BY <3>1, <3>5
          <6>3. Long(sizes, from, k, sep) <= size + sep
            BY <3>7, <3>8, <6>2
          <6> QED BY <6>1, <6>2, <6>3
        <5>2. CASE i # c + 1
          <6>1. /\ old[i][1] \in 1..old[i][2] /\ old[i][2] \in 1..b
                /\ Long(sizes, old[i][1], old[i][2], sep) <= size + sep
            BY <3>2, <3>4 DEF Grouped
          <6>2. \A x \in 1..b : x \in 1..k
            BY <3>1
          <6> QED BY <4>5, <5>2, <6>1, <6>2
        <5> QED BY <5>1, <5>2
      <4>7. ASSUME NEW j \in 1..k
            PROVE  \E i \in 1..(c + 1) : j \in g2[i][1]..g2[i][2]
        <5>1. CASE j = k
          <6>1. j \in from..k
            BY <3>6, <5>1
          <6> QED BY <3>4, <4>3, <6>1
        <5>2. CASE j # k
          <6>1. j \in 1..b
            BY <3>1, <5>2
          <6>2. PICK i \in 1..(c + 1) : j \in old[i][1]..old[i][2]
            BY <3>2, <3>4, <6>1 DEF Grouped
          <6>3. CASE i = c + 1
            <7>1. j \in from..b
              BY <4>4, <6>2, <6>3
            <7>2. j \in from..k
              BY <3>1, <7>1
            <7> QED BY <3>4, <4>3, <7>2
          <6>4. CASE i # c + 1
            BY <4>5, <6>2, <6>4
          <6> QED BY <6>3, <6>4
        <5> QED BY <5>1, <5>2
      <4>8. \A i, j \in 1..(c + 1) : i < j => g2[i][1] <= g2[j][1]
        <5>1. \A i, j \in 1..(c + 1) : i < j => old[i][1] <= old[j][1]
          BY <3>2, <3>4 DEF Grouped
        <5> QED BY <4>5, <5>1
      <4>9. ASSUME NEW i \in 1..(c + 1), i # c + 1
            PROVE  Long(sizes, g2[i + 1][1], g2[i][2], sep) <= overlap
        <5>1. i + 1 \in 1..(c + 1)
          BY <2>3, <4>9
        <5>2. Long(sizes, old[i + 1][1], old[i][2], sep) <= overlap
          BY <3>2, <3>4, <4>9 DEF Grouped
        <5>3. g2[i + 1][1] = old[i + 1][1] /\ g2[i][2] = old[i][2]
          BY <4>5, <4>9, <5>1
        <5> QED BY <5>2, <5>3
      <4>10. c + 1 > 0
        BY <2>3
      <4>11. Grouped(g2, k, sizes, sep, size, overlap)
        BY <4>3, <4>6, <4>7, <4>8, <4>9, <4>10 DEF Grouped
      <4> QED BY <4>2, <4>11
    <3>9. ASSUME Long(sizes, from, k, sep) > size PROVE Is(k)
      <4> DEFINE those == SubSeq(sizes, from, b)
                 p == Popped(those, sizes[k], sep, size, overlap)
                 next == from + p
                 g2 == Append(old, <<next, k>>)
      <4>1. after[k] = [docs |-> old, from |-> next]
        BY <2>1, <3>3, <3>6, <3>9 DEF new, Long, slice, from, ended, b
      <4>2. groups(k) = g2
        BY <4>1
      <4>3. /\ those \in Seq(Nat) /\ Len(those) = b - from + 1
            /\ \A i \in 1..(b - from + 1) : those[i] = sizes[from + i - 1]
        BY <3>6, PartOfNumbers
      <4> DEFINE rest == Long(those, p + 1, Len(those), sep)
      <4>4. p \in 0..Len(those) /\ rest <= overlap /\ (rest = 0 \/ rest + sizes[k] <= size)
        <5> HIDE DEF those
        <5> QED BY <3>7, <4>3, PoppedEnough
      <4> HIDE DEF p
      <4>5. next \in 1..(b + 1) /\ next >= from
        BY <3>1, <3>5, <4>3, <4>4
      <4>6. rest = Long(sizes, next, b, sep)
        <5>1. SubSeq(those, p + 1, Len(those)) = SubSeq(sizes, next, b)
          <6> DEFINE l == b - from + 1
                     u == SubSeq(those, p + 1, l)
                     v == SubSeq(sizes, next, b)
          <6>1. p + 1 \in 1..(Len(those) + 1) /\ Len(those) \in 0..Len(those)
                /\ p + 1 <= Len(those) + 1 /\ l - (p + 1) + 1 = b - next + 1
            BY <3>1, <3>5, <4>3, <4>4
          <6>2. /\ u \in Seq(Nat) /\ Len(u) = l - (p + 1) + 1
                /\ \A i \in 1..(l - (p + 1) + 1) : u[i] = those[p + 1 + i - 1]
            <7>1. /\ SubSeq(those, p + 1, Len(those)) \in Seq(Nat)
                  /\ Len(SubSeq(those, p + 1, Len(those))) = Len(those) - (p + 1) + 1
                  /\ \A i \in 1..(Len(those) - (p + 1) + 1) :
                        SubSeq(those, p + 1, Len(those))[i] = those[p + 1 + i - 1]
              <8> HIDE DEF those
              <8> QED BY <4>3, <6>1, PartOfNumbers
            <7> QED BY <4>3, <7>1
          <6>3. /\ v \in Seq(Nat) /\ Len(v) = b - next + 1
                /\ \A i \in 1..(b - next + 1) : v[i] = sizes[next + i - 1]
            <7>1. next \in 1..(Len(sizes) + 1) /\ b \in 0..Len(sizes) /\ next <= b + 1
              BY <3>6, <4>5, <1>1
            <7> HIDE DEF next
            <7> QED BY <7>1, PartOfNumbers
          <6>4. ASSUME NEW i \in 1..(b - next + 1) PROVE u[i] = v[i]
            <7>1. p + 1 + i - 1 \in 1..l /\ from + (p + 1 + i - 1) - 1 = next + i - 1
              BY <3>1, <3>5, <4>3, <4>4, <4>5
            <7> HIDE DEF those, u, v, next, l
            <7>2. u[i] = those[p + 1 + i - 1]
              BY <6>1, <6>2
            <7>3. those[p + 1 + i - 1] = sizes[from + (p + 1 + i - 1) - 1]
              BY <4>3, <7>1 DEF l
            <7> QED BY <6>3, <7>1, <7>2, <7>3
          <6> HIDE DEF u, v
          <6>5. u = v
            BY <6>1, <6>2, <6>3, <6>4, SeqEqual
          <6> QED BY <4>3, <6>5 DEF u, v
        <5> QED BY <5>1 DEF Long
      <4> HIDE DEF those, rest, next
      <4>7. /\ next \in 1..(Len(sizes) + 1) /\ next <= b + 1
            /\ Long(sizes, next, b, sep) \in Nat /\ (next = b + 1 => Long(sizes, next, b, sep) = 0)
            /\ Long(sizes, next, k, sep) =
                  Long(sizes, next, b, sep) + sizes[k] + (IF next = b + 1 THEN 0 ELSE sep)
        <5>1. next \in 1..(Len(sizes) + 1) /\ next <= b + 1
          BY <3>6, <4>5, <1>1
        <5>2. /\ Long(sizes, next, b, sep) \in Nat
              /\ (next = b + 1 => Long(sizes, next, b, sep) = 0)
              /\ Long(sizes, next, b + 1, sep) =
                  Long(sizes, next, b, sep) + sizes[b + 1] + (IF next = b + 1 THEN 0 ELSE sep)
          BY <3>6, <5>1, LongMore
        <5> QED BY <3>1, <5>1, <5>2
      <4>8. Long(sizes, next, k, sep) <= size + sep
        <5> DEFINE r == Long(sizes, next, b, sep)
                   z == sizes[k]
                   l == Long(sizes, next, k, sep)
        <5>1. /\ r \in Nat /\ z \in Nat /\ z < size /\ (r = 0 \/ r + z <= size)
              /\ l = r + z + (IF next = b + 1 THEN 0 ELSE sep)
          BY <3>7, <4>4, <4>6, <4>7
        <5> HIDE DEF r, z, l
        <5>2. CASE next = b + 1
          BY <5>1, <5>2 DEF l
        <5>3. CASE next # b + 1
          <6>1. l = r + z + sep
            BY <5>1, <5>3
          <6>2. l <= size + sep
            BY <5>1, <6>1
          <6> QED BY <6>2 DEF l
        <5> QED BY <5>2, <5>3
      <4>9. /\ g2 \in Seq(Nat \X Nat) /\ Len(g2) = c + 2
            /\ g2[c + 2][1] = next /\ g2[c + 2][2] = k
            /\ \A i \in 1..(c + 1) : g2[i] = old[i]
        <5> DEFINE e == <<next, k>>
        <5>1. e \in Nat \X Nat /\ e[1] = next /\ e[2] = k
          BY <4>5, <1>1, <3>1
        <5> HIDE DEF e
        <5>2. old \in Seq(Nat \X Nat) /\ Len(old) = c + 1
          BY <3>2, <3>4 DEF Grouped
        <5>3. Append(old, e) \in Seq(Nat \X Nat) /\ Len(Append(old, e)) = c + 1 + 1
              /\ Append(old, e)[c + 1 + 1] = e
              /\ \A i \in 1..(c + 1) : Append(old, e)[i] = old[i]
          BY <5>1, <5>2
        <5>4. c + 1 + 1 = c + 2
          BY <2>3
        <5> QED BY <5>1, <5>3, <5>4 DEF e
      <4> HIDE DEF g2
      <4>10. /\ c + 2 > 0 /\ c + 2 \in 1..(c + 2) /\ (\A i \in 1..(c + 1) : i \in 1..(c + 2))
             /\ \A i \in 1..(c + 2) : i = c + 2 \/ (i \in 1..(c + 1) /\ i # c + 2)
        BY <2>3
      <4>11. old[c + 1][1] = from /\ old[c + 1][2] = b
        BY <3>4
      <4>12. ASSUME NEW i \in 1..(c + 2)
            PROVE  /\ g2[i][1] \in 1..g2[i][2] /\ g2[i][2] \in 1..k
                   /\ Long(sizes, g2[i][1], g2[i][2], sep) <= size + sep
        <5>1. CASE i = c + 2
          <6>1. g2[i][1] = next /\ g2[i][2] = k
            BY <4>9, <5>1
          <6>2. next \in 1..k /\ k \in 1..k
            BY <3>1, <4>5
          <6> QED BY <6>1, <6>2, <4>8
        <5>2. CASE i # c + 2
          <6>1. i \in 1..(c + 1) /\ g2[i] = old[i]
            BY <4>9, <4>10, <5>2
          <6>2. /\ old[i][1] \in 1..old[i][2] /\ old[i][2] \in 1..b
                /\ Long(sizes, old[i][1], old[i][2], sep) <= size + sep
            BY <3>2, <3>4, <6>1 DEF Grouped
          <6>3. \A x \in 1..b : x \in 1..k
            BY <3>1
          <6> QED BY <6>1, <6>2, <6>3
        <5> QED BY <5>1, <5>2
      <4>13. ASSUME NEW j \in 1..k
            PROVE  \E i \in 1..(c + 2) : j \in g2[i][1]..g2[i][2]
        <5>1. CASE j = k
          <6>1. j \in next..k
            BY <3>1, <4>5, <5>1
          <6> QED BY <4>9, <4>10, <6>1
        <5>2. CASE j # k
          <6>1. j \in 1..b
            BY <3>1, <5>2
          <6>2. PICK i \in 1..(c + 1) : j \in old[i][1]..old[i][2]
            BY <3>2, <3>4, <6>1 DEF Grouped
          <6> QED BY <4>9, <4>10, <6>2
        <5> QED BY <5>1, <5>2
      <4>14. ASSUME NEW i \in 1..(c + 2), NEW j \in 1..(c + 2), i < j
             PROVE  g2[i][1] <= g2[j][1]
        <5>1. i \in 1..(c + 1)
          BY <2>3, <4>14
        <5>2. CASE j = c + 2
          <6>1. old[i][1] <= from /\ old[i][1] \in Nat
            <7>1. old[i][1] \in Nat
              <8>1. old[i][1] \in 1..old[i][2]
                BY <3>2, <3>4, <5>1 DEF Grouped
              <8> QED BY <8>1
            <7>2. CASE i = c + 1
              BY <4>11, <7>1, <7>2
            <7>3. CASE i # c + 1
              <8>1. i < c + 1
                BY <2>3, <5>1, <7>3
              <8> QED BY <3>2, <3>4, <4>11, <5>1, <7>1, <8>1 DEF Grouped
            <7> QED BY <7>2, <7>3
          <6>2. old[i][1] <= next
            BY <3>5, <4>5, <6>1
          <6> QED BY <4>9, <5>1, <5>2, <6>2
        <5>3. CASE j # c + 2
          <6>1. j \in 1..(c + 1)
            BY <4>10, <5>3
          <6>2. old[i][1] <= old[j][1]
            BY <3>2, <3>4, <4>14, <5>1, <6>1 DEF Grouped
          <6> QED BY <4>9, <5>1, <6>1, <6>2
        <5> QED BY <5>2, <5>3
      <4>15. ASSUME NEW i \in 1..(c + 2), i # c + 2
            PROVE  Long(sizes, g2[i + 1][1], g2[i][2], sep) <= overlap
        <5>1. i \in 1..(c + 1)
          BY <4>10, <4>15
        <5>2. CASE i = c + 1
          <6>1. i + 1 = c + 2
            BY <2>3, <5>2
          <6>2. g2[i + 1][1] = next /\ g2[i][2] = b
            BY <4>9, <4>11, <5>1, <5>2, <6>1
          <6> QED BY <4>4, <4>6, <6>2
        <5>3. CASE i # c + 1
          <6>1. i + 1 \in 1..(c + 1)
            BY <2>3, <5>1, <5>3
          <6>2. Long(sizes, old[i + 1][1], old[i][2], sep) <= overlap
            BY <3>2, <3>4, <5>1, <5>3 DEF Grouped
          <6> QED BY <4>9, <5>1, <6>1, <6>2
        <5> QED BY <5>2, <5>3
      <4>16. Grouped(g2, k, sizes, sep, size, overlap)
        BY <4>9, <4>10, <4>12, <4>13, <4>14, <4>15 DEF Grouped
      <4> QED BY <4>2, <4>16
    <3>10. Is(k)
      <4>1. Long(sizes, from, k, sep) \in Nat
        BY <3>7
      <4>2. Long(sizes, from, k, sep) <= size \/ Long(sizes, from, k, sep) > size
        BY <4>1
      <4> QED BY <3>8, <3>9, <4>2
    <3> QED BY <2>2, <3>10
  <2> QED BY <2>4, <2>5
<1>12. n \in G
  <2> HIDE DEF G, n
  <2>1. G \in SUBSET (0..n)
    BY DEF G
  <2>2. \A k \in 0..n : k \in G
    BY <1>1, <1>10, <1>11, <2>1, UpTo
  <2> QED BY <1>1, <2>2
<1> QED BY <1>1, <1>7, <1>12

-----------------------------------------------------------------------------
(* TextSplit: the chunks that pieces are merged to.                        *)

\* The places of the words in the a-th to the b-th of pieces.
Span(pieces, a, b) == UNION {Places(pieces[j]) : j \in a..b}

LengthsOf(pieces) == [k \in DOMAIN pieces |-> Len(pieces[k])]

LEMMA RowFacts ==
    ASSUME NEW pieces, InARow(pieces)
    PROVE  /\ Len(pieces) \in Nat /\ DOMAIN pieces = 1..Len(pieces)
           /\ \A k \in 1..Len(pieces) : pieces[k] \in Seq(Cells) /\ Flow(pieces[k])
           /\ LengthsOf(pieces) \in Seq(Nat) /\ Len(LengthsOf(pieces)) = Len(pieces)
           /\ \A k \in 1..Len(pieces) : LengthsOf(pieces)[k] = Len(pieces[k])
<1> DEFINE n == Len(pieces)
<1>1. pieces \in Seq(Seq(Cells)) /\ n \in Nat /\ DOMAIN pieces = 1..n
  <2> DEFINE S == Seq(Cells)
  <2>1. pieces \in Seq(S)
    BY DEF InARow
  <2> HIDE DEF S
  <2>2. n \in Nat /\ DOMAIN pieces = 1..n
    BY <2>1, LenProperties
  <2> QED BY <2>1, <2>2 DEF S
<1>2. \A k \in 1..n : pieces[k] \in Seq(Cells) /\ Flow(pieces[k])
  BY <1>1 DEF InARow, Flow
<1>3. \A k \in 1..n : Len(pieces[k]) \in Nat
  BY <1>2, PlacesCount
<1> DEFINE sizes == LengthsOf(pieces)
<1>4. sizes \in [1..n -> Nat] /\ \A k \in 1..n : sizes[k] = Len(pieces[k])
  BY <1>1, <1>3 DEF LengthsOf
<1> HIDE DEF sizes, n
<1>5. sizes \in Seq(Nat) /\ Len(sizes) = n
  BY <1>1, <1>4, ListIsSeq
<1> QED BY <1>1, <1>2, <1>4, <1>5 DEF sizes, n

(* Pieces that follow each other are a row too.                            *)
LEMMA PartRow ==
    ASSUME NEW pieces, InARow(pieces),
           NEW a \in 1..(Len(pieces) + 1), NEW b \in 0..Len(pieces), a <= b + 1
    PROVE  LET slice == SubSeq(pieces, a, b)
           IN /\ InARow(slice) /\ AllOf(slice) = Span(pieces, a, b)
              /\ LengthsOf(slice) = SubSeq(LengthsOf(pieces), a, b)
              /\ Len(slice) = b - a + 1 /\ b - a + 1 \in Nat
              /\ \A i \in 1..(b - a + 1) : slice[i] = pieces[a + i - 1]
<1> DEFINE n == Len(pieces)
           slice == SubSeq(pieces, a, b)
           sizes == LengthsOf(pieces)
           l == b - a + 1
<1>1. /\ n \in Nat /\ DOMAIN pieces = 1..n /\ a \in Nat /\ b \in Nat /\ l \in Nat
      /\ \A k \in 1..n : pieces[k] \in Seq(Cells) /\ Flow(pieces[k])
      /\ sizes \in Seq(Nat) /\ Len(sizes) = n
      /\ \A k \in 1..n : sizes[k] = Len(pieces[k])
  BY RowFacts
<1>2. pieces \in Seq(Seq(Cells))
  BY DEF InARow
<1>3. /\ slice \in Seq(Seq(Cells)) /\ Len(slice) = l
      /\ \A i \in 1..l : slice[i] = pieces[a + i - 1]
  <2> DEFINE S == Seq(Cells)
  <2>1. pieces \in Seq(S)
    BY <1>2
  <2> HIDE DEF S
  <2>2. /\ SubSeq(pieces, a, b) \in Seq(S) /\ Len(SubSeq(pieces, a, b)) = b - a + 1
        /\ b - a + 1 \in Nat
        /\ (SubSeq(pieces, a, b) = <<>>) <=> (a = b + 1)
        /\ \A i \in 1..(b - a + 1) : SubSeq(pieces, a, b)[i] = pieces[a + i - 1]
        /\ b < Len(pieces) =>
              SubSeq(pieces, a, b + 1) = Append(SubSeq(pieces, a, b), pieces[b + 1])
              /\ pieces[b + 1] \in S
    BY <2>1, PartMore, Zenon
  <2> QED BY <2>2 DEF S
<1>4. DOMAIN slice = 1..l
  <2> DEFINE S == Seq(Cells)
  <2>1. slice \in Seq(S)
    BY <1>3
  <2> HIDE DEF S, slice
  <2> QED BY <1>3, <2>1, LenProperties
<1>5. \A i \in 1..l : a + i - 1 \in 1..n
  BY <1>1
<1> HIDE DEF slice, l, n
<1>6. InARow(slice)
  <2>1. \A k \in 1..l : Flow(slice[k])
    BY <1>1, <1>3, <1>5
  <2>2. ASSUME NEW i \in 1..l, NEW j \in 1..l, i < j
        PROVE  Before(Places(slice[i]), Places(slice[j]))
    <3>1. a + i - 1 < a + j - 1
      BY <1>1, <2>2
    <3>2. Before(Places(pieces[a + i - 1]), Places(pieces[a + j - 1]))
      BY <1>1, <1>5, <3>1 DEF InARow
    <3> QED BY <1>3, <3>2
  <2> QED BY <1>3, <1>4, <2>1, <2>2 DEF InARow
<1>7. LengthsOf(slice) = SubSeq(sizes, a, b)
  <2> DEFINE u == LengthsOf(slice)
             v == SubSeq(sizes, a, b)
  <2>1. /\ u \in Seq(Nat) /\ Len(u) = l /\ \A k \in 1..l : u[k] = Len(slice[k])
    BY <1>3, <1>6, RowFacts
  <2>2. /\ v \in Seq(Nat) /\ Len(v) = l /\ \A i \in 1..l : v[i] = sizes[a + i - 1]
    <3>1. a \in 1..(Len(sizes) + 1) /\ b \in 0..Len(sizes)
      BY <1>1 DEF n
    <3> HIDE DEF sizes
    <3> QED BY <1>1, <3>1, PartOfNumbers DEF l
  <2>3. \A i \in 1..l : u[i] = v[i]
    BY <1>1, <1>3, <1>5, <2>1, <2>2
  <2> HIDE DEF u, v
  <2>4. u = v
    BY <2>1, <2>2, <2>3, SeqEqual
  <2> QED BY <2>4 DEF u, v
<1>8. AllOf(slice) = Span(pieces, a, b)
  <2>1. ASSUME NEW p \in AllOf(slice) PROVE p \in Span(pieces, a, b)
    <3>1. PICK i \in 1..l : p \in Places(slice[i])
      BY <1>4 DEF AllOf
    <3>2. a + i - 1 \in a..b
      BY <1>1 DEF l
    <3> QED BY <1>3, <3>1, <3>2 DEF Span
  <2>2. ASSUME NEW p \in Span(pieces, a, b) PROVE p \in AllOf(slice)
    <3>1. PICK j \in a..b : p \in Places(pieces[j])
      BY DEF Span
    <3>2. j - a + 1 \in 1..l /\ a + (j - a + 1) - 1 = j
      BY <1>1 DEF l
    <3> QED BY <1>3, <1>4, <3>1, <3>2 DEF AllOf
  <2> QED BY <2>1, <2>2
<1> QED BY <1>1, <1>3, <1>6, <1>7, <1>8 DEF slice, l, n

(* Pieces that follow each other, joined: their words, and as long as is   *)
(* counted.                                                                *)
LEMMA SpanJoined ==
    ASSUME NEW pieces, InARow(pieces), NEW sep, Flow(sep), Places(sep) = {},
           Len(sep) \in {0, 1},
           NEW a \in 1..(Len(pieces) + 1), NEW b \in 0..Len(pieces), a <= b + 1
    PROVE  LET all == Joined(SubSeq(pieces, a, b), sep)
           IN /\ Flow(all) /\ Places(all) = Span(pieces, a, b)
              /\ Len(all) = Long(LengthsOf(pieces), a, b, Len(sep))
<1> DEFINE slice == SubSeq(pieces, a, b)
<1>1. InARow(slice) /\ AllOf(slice) = Span(pieces, a, b)
      /\ LengthsOf(slice) = SubSeq(LengthsOf(pieces), a, b)
  BY PartRow
<1> HIDE DEF slice
<1>2. /\ Flow(Joined(slice, sep))
      /\ Places(Joined(slice, sep)) = AllOf(slice)
      /\ Len(Joined(slice, sep)) =
            LengthOf([k \in DOMAIN slice |-> Len(slice[k])], Len(sep))
  BY <1>1, JoinedFlow
<1> QED BY <1>1, <1>2 DEF slice, LengthsOf, Long

\* A set of places that has all of Q between two of its own.
Convex(P, Q) == \A p \in Q, q, r \in P : q <= p /\ p <= r => p \in P

Fits(chunk, o) ==
    \/ Len(chunk) <= o.size + 1
    \/ "" \notin Range(o.separators)
       /\ \A ch \in Range(TrimSpace(chunk)) : ch.c = "x"

\* The chunks of two texts, where the one comes before the other.
Leads(P, Q) == \A q \in Q : P # {} => \E p \in P : p <= q

\* What the words at the places Q are split to, if they are split well.
Chunked(cs, Q, o) ==
    /\ cs \in Seq(Seq(Cells))
    /\ \A k \in 1..Len(cs) :
          /\ Flow(cs[k]) /\ Fits(cs[k], o)
          /\ Places(cs[k]) \subseteq Q /\ Convex(Places(cs[k]), Q)
    /\ \A p \in Q : \E k \in 1..Len(cs) : p \in Places(cs[k])
    /\ \A i, k \in 1..Len(cs) : i < k =>
          /\ Leads(Places(cs[i]), Places(cs[k]))
          /\ Cardinality(Places(cs[i]) \cap Places(cs[k])) <= o.overlap

\* The options of the recursive splitter.
Options(o) ==
    /\ o.size \in Nat /\ o.overlap \in Nat /\ o.keep \in BOOLEAN
    /\ o.separators \in SeparatorLists

(* The list of what is not blank has all of it in its order.               *)
LEMMA WithoutBlanks ==
    ASSUME NEW S, <<>> \in S, NEW all \in Seq(S)
    PROVE  LET out == NotBlank(all)
           IN /\ out \in Seq(S)
              /\ \A i \in 1..Len(out) : \E j \in 1..Len(all) : out[i] = all[j]
              /\ \A j \in 1..Len(all) : all[j] # <<>> => \E i \in 1..Len(out) : out[i] = all[j]
              /\ \A i, k \in 1..Len(out) : i < k =>
                    \E a, b \in 1..Len(all) : a < b /\ out[i] = all[a] /\ out[k] = all[b]
<1> DEFINE n == Len(all)
           IsDocs(d) == d = [k \in 0..n |-> IF k = 0 THEN <<>>
                                            ELSE IF all[k] = <<>> THEN d[k - 1]
                                            ELSE Append(d[k - 1], all[k])]
           grown == CHOOSE d : IsDocs(d)
           T == Seq(S)
           new(d, k) == IF all[k] = <<>> THEN d ELSE Append(d, all[k])
           step == [x \in (1..n) \X T |-> new(x[2], x[1])]
<1>0. NotBlank(all) = grown[n]
  BY DEF NotBlank
<1>1. <<>> \in T
  BY EmptySeq
<1>2. n \in Nat /\ \A d \in T, k \in 1..n : new(d, k) \in T
  OBVIOUS
<1> HIDE DEF T, new
<1>3. step \in [(1..n) \X T -> T]
  <2>1. ASSUME NEW x \in (1..n) \X T PROVE new(x[2], x[1]) \in T
    BY <1>2
  <2> QED BY <2>1
<1>4. PICK g \in [0..n -> T] : IsRun(g, n, <<>>, step)
  <2> HIDE DEF step, n
  <2> QED BY <1>1, <1>2, <1>3, RoundsExist
<1>5. IsDocs(g)
  <2>1. ASSUME NEW k \in 0..n PROVE g[k] = IF k = 0 THEN <<>> ELSE new(g[k - 1], k)
    <3>1. CASE k = 0
      BY <1>4, <3>1 DEF IsRun
    <3>2. CASE k # 0
      <4>1. k \in 1..n /\ k - 1 \in 0..n
        BY <3>2
      <4>2. <<k, g[k - 1]>> \in (1..n) \X T
        BY <4>1
      <4>3. step[<<k, g[k - 1]>>] = new(g[k - 1], k)
        BY <4>2
      <4> HIDE DEF step
      <4>4. g[k] = step[<<k, g[k - 1]>>]
        BY <1>4, <3>2 DEF IsRun
      <4> QED BY <3>2, <4>3, <4>4
    <3> QED BY <3>1, <3>2
  <2>2. g = [k \in 0..n |-> g[k]]
    BY <1>4
  <2> QED BY <2>1, <2>2 DEF new
<1>6. IsDocs(grown)
  <2> HIDE DEF IsDocs
  <2> QED BY <1>5, Zenon
<1> HIDE DEF grown, step
<1>7. grown[0] = <<>> /\ \A k \in 1..n : grown[k] = new(grown[k - 1], k)
  <2>1. \A k \in 0..n : grown[k] = IF k = 0 THEN <<>> ELSE new(grown[k - 1], k)
    BY <1>6 DEF new
  <2>2. 0 \in 0..n /\ \A k \in 1..n : k \in 0..n /\ k # 0
    OBVIOUS
  <2> QED BY <2>1, <2>2
<1> HIDE DEF n, IsDocs
<1> DEFINE Kept(out, m) ==
              /\ out \in Seq(S)
              /\ \A i \in 1..Len(out) : \E j \in 1..m : out[i] = all[j]
              /\ \A j \in 1..m : all[j] # <<>> => \E i \in 1..Len(out) : out[i] = all[j]
              /\ \A i, k \in 1..Len(out) : i < k =>
                    \E a, b \in 1..m : a < b /\ out[i] = all[a] /\ out[k] = all[b]
           G == {m \in 0..n : Kept(grown[m], m)}
<1>8. 0 \in G
  <2>1. <<>> \in Seq(S) /\ Len(<<>>) = 0
    BY EmptySeq
  <2>2. Kept(<<>>, 0)
    BY <2>1
  <2> HIDE DEF Kept
  <2>3. 0 \in 0..n
    BY <1>2
  <2> QED BY <1>7, <2>2, <2>3
<1>9. ASSUME NEW m \in 1..n, m - 1 \in G PROVE m \in G
  <2> DEFINE old == grown[m - 1]
  <2>1. Kept(old, m - 1) /\ grown[m] = new(old, m) /\ m \in 0..n
    <3> HIDE DEF Kept
    <3>1. Kept(old, m - 1)
      BY <1>9
    <3>2. m \in 0..n
      BY <1>2
    <3> QED BY <1>7, <3>1, <3>2
  <2> HIDE DEF old
  <2>2. \A j \in 1..(m - 1) : j \in 1..m /\ j < m
    BY <1>2
  <2>3. \A j \in 1..m : j = m \/ j \in 1..(m - 1)
    BY <1>2
  <2>4. CASE all[m] = <<>>
    <3>1. grown[m] = old
      BY <2>1, <2>4 DEF new
    <3>2. Kept(old, m)
      BY <2>1, <2>2, <2>3, <2>4
    <3> HIDE DEF Kept
    <3> QED BY <2>1, <3>1, <3>2
  <2>5. CASE all[m] # <<>>
    <3> DEFINE out == Append(old, all[m])
               l == Len(old)
    <3>1. grown[m] = out
      BY <2>1, <2>5 DEF new
    <3>2. /\ out \in Seq(S) /\ Len(out) = l + 1 /\ out[l + 1] = all[m] /\ l \in Nat
          /\ \A i \in 1..l : out[i] = old[i]
      <4>1. old \in Seq(S) /\ all[m] \in S
        BY <2>1 DEF n
      <4> QED BY <4>1
    <3>3. l + 1 \in 1..(l + 1) /\ (\A i \in 1..l : i \in 1..(l + 1))
          /\ \A i \in 1..(l + 1) : i = l + 1 \/ i \in 1..l
      BY <3>2
    <3> HIDE DEF out
    <3>4. ASSUME NEW i \in 1..(l + 1) PROVE \E j \in 1..m : out[i] = all[j]
      <4>1. CASE i = l + 1
        <5>1. m \in 1..m
          BY <1>2
        <5> QED BY <3>2, <4>1, <5>1
      <4>2. CASE i \in 1..l
        <5>1. PICK j \in 1..(m - 1) : old[i] = all[j]
          BY <2>1, <4>2
        <5> QED BY <2>2, <3>2, <4>2, <5>1
      <4> QED BY <3>3, <4>1, <4>2
    <3>5. ASSUME NEW j \in 1..m, all[j] # <<>> PROVE \E i \in 1..(l + 1) : out[i] = all[j]
      <4>1. CASE j = m
        BY <3>2, <3>3, <4>1
      <4>2. CASE j \in 1..(m - 1)
        <5>1. PICK i \in 1..l : old[i] = all[j]
          BY <2>1, <3>5, <4>2
        <5> QED BY <3>2, <3>3, <5>1
      <4> QED BY <2>3, <4>1, <4>2
    <3>6. ASSUME NEW i \in 1..(l + 1), NEW k \in 1..(l + 1), i < k
          PROVE  \E a, b \in 1..m : a < b /\ out[i] = all[a] /\ out[k] = all[b]
      <4>1. i \in 1..l
        BY <3>2, <3>6
      <4>2. CASE k = l + 1
        <5>1. PICK a \in 1..(m - 1) : old[i] = all[a]
          BY <2>1, <4>1
        <5>2. m \in 1..m /\ a < m /\ a \in 1..m
          BY <1>2
        <5> QED BY <3>2, <4>1, <4>2, <5>1, <5>2
      <4>3. CASE k \in 1..l
        <5>1. PICK a, b \in 1..(m - 1) : a < b /\ old[i] = all[a] /\ old[k] = all[b]
          BY <2>1, <3>6, <4>1, <4>3
        <5> QED BY <2>2, <3>2, <4>1, <4>3, <5>1
      <4> QED BY <3>3, <4>2, <4>3
    <3>7. Kept(out, m)
      BY <3>2, <3>4, <3>5, <3>6
    <3> HIDE DEF Kept
    <3> QED BY <2>1, <3>1, <3>7
  <2> QED BY <2>4, <2>5
<1>10. n \in G
  <2> HIDE DEF G
  <2>1. G \in SUBSET (0..n)
    BY DEF G
  <2>2. \A k \in 0..n : k \in G
    BY <1>2, <1>8, <1>9, <2>1, UpTo
  <2> QED BY <1>2, <2>2
<1>11. Kept(grown[n], n)
  <2> HIDE DEF Kept
  <2> QED BY <1>10, <1>2
<1> QED BY <1>0, <1>11 DEF n

LEMMA SetSizes ==
    ASSUME NEW S, IsFiniteSet(S), NEW T, T \subseteq S
    PROVE  IsFiniteSet(T) /\ Cardinality(T) \in Nat /\ Cardinality(S) \in Nat
           /\ Cardinality(T) <= Cardinality(S)
BY FS_Subset, FS_CardinalityType

(* Short pieces are merged to chunks that are as they should be.           *)
LEMMA MergedChunks ==
    ASSUME NEW o, Options(o), NEW splits, InARow(splits), Len(splits) > 0,
           \A k \in 1..Len(splits) : Len(splits[k]) < o.size,
           NEW sep, Flow(sep), Places(sep) = {}, Len(sep) \in {0, 1}
    PROVE  Chunked(Merged(splits, sep, o.size, o.overlap), AllOf(splits), o)
<1> DEFINE n == Len(splits)
           Q == AllOf(splits)
           sizes == LengthsOf(splits)
           size == o.size
           overlap == o.overlap
           g == mergeSplits(sizes, Len(sep), size, overlap)
           from(k) == g[k][1]
           to(k) == g[k][2]
           doc(k) == joinDocs(SubSeq(splits, from(k), to(k)), sep)
           all == [k \in DOMAIN g |-> doc(k)]
           m == Len(g)
           P(k) == Places(doc(k))
           Here(k) == Places(splits[k])
<1>1. /\ n \in Nat /\ n > 0 /\ DOMAIN splits = 1..n
      /\ \A k \in 1..n : splits[k] \in Seq(Cells) /\ Flow(splits[k])
      /\ sizes \in Seq(Nat) /\ Len(sizes) = n
      /\ \A k \in 1..n : sizes[k] = Len(splits[k]) /\ sizes[k] < size
      /\ size \in Nat /\ overlap \in Nat
  BY RowFacts DEF Options
<1>2. sizes # <<>>
  <2>1. Len(<<>>) = 0
    BY EmptyWords
  <2> QED BY <1>1, <2>1
<1> HIDE DEF sizes
<1>3. Grouped(g, n, sizes, Len(sep), size, overlap)
  <2>1. Grouped(mergeSplits(sizes, Len(sep), size, overlap), Len(sizes),
                sizes, Len(sep), size, overlap)
    <3> HIDE DEF size, overlap
    <3> QED BY <1>1, <1>2, MergedGroups
  <2> QED BY <1>1, <2>1
<1>4. Merged(splits, sep, o.size, o.overlap) = NotBlank(all)
  BY DEF Merged, sizes, LengthsOf
<1> HIDE DEF g
<1>5. /\ g \in Seq(Nat \X Nat) /\ m \in Nat /\ DOMAIN g = 1..m
      /\ \A k \in 1..m : from(k) \in 1..to(k) /\ to(k) \in 1..n
      /\ \A k \in 1..m : Long(sizes, from(k), to(k), Len(sep)) <= size + Len(sep)
  <2>1. g \in Seq(Nat \X Nat)
    BY <1>3 DEF Grouped
  <2>2. m \in Nat /\ DOMAIN g = 1..m
    <3> DEFINE N == Nat \X Nat
    <3>1. g \in Seq(N)
      BY <2>1
    <3> HIDE DEF N
    <3> QED BY <3>1, LenProperties
  <2> QED BY <1>3, <2>1, <2>2 DEF Grouped
<1>6. /\ \A j \in 1..n : \E k \in 1..m : j \in from(k)..to(k)
      /\ \A i, k \in 1..m : i < k => from(i) <= from(k)
      /\ \A i \in 1..m : i # m => Long(sizes, from(i + 1), to(i), Len(sep)) <= overlap
  BY <1>3 DEF Grouped
<1> HIDE DEF from, to, m, n, size, overlap, Q
\* A place is of one piece, and a later piece has later places.
<1>7. \A i, j \in 1..n : i < j => Before(Here(i), Here(j))
  BY <1>1 DEF InARow
<1>8. /\ \A k \in 1..n : Here(k) \subseteq Nat /\ Here(k) \subseteq Q
      /\ \A p \in Q : \E k \in 1..n : p \in Here(k)
  <2>1. \A k \in 1..n : Here(k) \subseteq Nat
    BY <1>1, PlacesCount
  <2> QED BY <1>1, <2>1 DEF Q, AllOf
<1>9. ASSUME NEW i \in 1..n, NEW j \in 1..n, NEW p \in Here(i), NEW q \in Here(j), p <= q
      PROVE  i <= j
  <2>1. p \in Nat /\ q \in Nat
    BY <1>8
  <2>2. j < i => q < p
    BY <1>7 DEF Before
  <2> QED BY <1>9, <2>1, <2>2
<1>10. ASSUME NEW a \in 1..(n + 1), NEW b \in 0..n, a <= b + 1
       PROVE  LET joined == Joined(SubSeq(splits, a, b), sep)
              IN /\ Flow(joined) /\ Places(joined) = Span(splits, a, b)
                 /\ Len(joined) = Long(sizes, a, b, Len(sep))
  <2>1. a \in 1..(Len(splits) + 1) /\ b \in 0..Len(splits) /\ a <= b + 1
    BY <1>10 DEF n
  <2> QED BY <2>1, SpanJoined DEF sizes
<1>11. ASSUME NEW a \in 1..(n + 1), NEW b \in 0..n
       PROVE  /\ IsFiniteSet(Span(splits, a, b)) /\ Span(splits, a, b) \subseteq Nat
              /\ a <= b + 1 => Cardinality(Span(splits, a, b)) <= Long(sizes, a, b, Len(sep))
              /\ a > b => Span(splits, a, b) = {}
  <2>1. ASSUME a > b PROVE Span(splits, a, b) = {}
    <3>1. a..b = {}
      BY <1>1, <2>1
    <3> QED BY <3>1 DEF Span
  <2>2. ASSUME a <= b + 1
        PROVE  /\ Cardinality(Span(splits, a, b)) <= Long(sizes, a, b, Len(sep))
               /\ IsFiniteSet(Span(splits, a, b)) /\ Span(splits, a, b) \subseteq Nat
    <3> DEFINE joined == Joined(SubSeq(splits, a, b), sep)
    <3>1. /\ Flow(joined) /\ Places(joined) = Span(splits, a, b)
          /\ Len(joined) = Long(sizes, a, b, Len(sep))
      BY <1>10, <2>2
    <3> HIDE DEF joined
    <3>2. joined \in Seq(Cells)
      BY <3>1 DEF Flow
    <3> QED BY <3>1, <3>2, PlacesCount
  <2>3. CASE a <= b + 1
    BY <2>1, <2>2, <2>3
  <2>4. CASE ~(a <= b + 1)
    <3>1. a > b
      BY <1>1, <2>4
    <3> QED BY <2>1, <2>4, <3>1, FS_EmptySet
  <2> QED BY <2>3, <2>4
<1>12. ASSUME NEW k \in 1..m
       PROVE  /\ Flow(doc(k)) /\ P(k) = Span(splits, from(k), to(k)) /\ Fits(doc(k), o)
              /\ from(k) \in 1..(n + 1) /\ to(k) \in 0..n /\ from(k) \in 1..n
              /\ from(k) <= to(k)
  <2>1. from(k) \in 1..(n + 1) /\ to(k) \in 0..n /\ from(k) <= to(k) + 1 /\ from(k) \in 1..n
        /\ from(k) <= to(k)
    <3>1. from(k) \in 1..to(k) /\ to(k) \in 1..n
      BY <1>5
    <3> QED BY <1>1, <3>1
  <2> DEFINE joined == Joined(SubSeq(splits, from(k), to(k)), sep)
             l == Long(sizes, from(k), to(k), Len(sep))
  <2>2. Flow(joined) /\ Places(joined) = Span(splits, from(k), to(k))
        /\ Len(joined) = l
    BY <1>10, <2>1
  <2>3. doc(k) = TrimSpace(joined)
    BY DEF joinDocs
  <2> HIDE DEF joined
  <2>4. /\ Flow(TrimSpace(joined))
        /\ Places(TrimSpace(joined)) = Places(joined)
        /\ Len(TrimSpace(joined)) <= Len(joined)
    BY <2>2, FlowTrimmed
  <2> HIDE DEF doc, l
  <2>5. Flow(doc(k)) /\ P(k) = Span(splits, from(k), to(k)) /\ Len(doc(k)) <= l
    BY <2>2, <2>3, <2>4
  <2>6. l <= size + Len(sep)
    BY <1>5 DEF l
  <2>7. Len(doc(k)) \in Nat /\ l \in Nat /\ Len(sep) \in {0, 1}
    <3>1. doc(k) \in Seq(Cells) /\ joined \in Seq(Cells)
      BY <2>2, <2>5 DEF Flow
    <3> QED BY <2>2, <3>1, PlacesCount
  <2>8. Len(doc(k)) <= size + 1
    <3> DEFINE d == Len(doc(k))
               s == Len(sep)
    <3>1. d \in Nat /\ l \in Nat /\ s \in {0, 1} /\ d <= l /\ l <= size + s /\ size \in Nat
      BY <1>1, <2>5, <2>6, <2>7
    <3> HIDE DEF d, s
    <3>2. d <= size + 1
      BY <3>1
    <3> QED BY <3>2 DEF d
  <2>9. Fits(doc(k), o)
    BY <2>8 DEF Fits, size
  <2> QED BY <2>1, <2>5, <2>9
<1>13. ASSUME NEW k \in 1..m, NEW p
       PROVE  p \in P(k) <=> \E j \in 1..n : from(k) <= j /\ j <= to(k) /\ p \in Here(j)
  <2>1. P(k) = Span(splits, from(k), to(k)) /\ from(k) \in 1..(n + 1) /\ to(k) \in 0..n
    BY <1>12
  <2>2. \A j : j \in from(k)..to(k) <=> (j \in 1..n /\ from(k) <= j /\ j <= to(k))
    BY <1>1, <2>1
  <2> HIDE DEF P
  <2> QED BY <2>1, <2>2 DEF Span
<1> HIDE DEF doc, P, Here
<1>14. ASSUME NEW k \in 1..m PROVE P(k) \subseteq Q /\ Convex(P(k), Q)
  <2>1. P(k) \subseteq Q
    BY <1>8, <1>13
  <2>2. ASSUME NEW p \in Q, NEW q \in P(k), NEW r \in P(k), q <= p, p <= r
        PROVE  p \in P(k)
    <3>1. PICK x \in 1..n : p \in Here(x)
      BY <1>8
    <3>2. PICK y \in 1..n : from(k) <= y /\ y <= to(k) /\ q \in Here(y)
      BY <1>13
    <3>3. PICK z \in 1..n : from(k) <= z /\ z <= to(k) /\ r \in Here(z)
      BY <1>13
    <3>4. y <= x /\ x <= z
      BY <1>9, <2>2, <3>1, <3>2, <3>3
    <3>5. from(k) <= x /\ x <= to(k)
      <4>1. from(k) \in 1..(n + 1) /\ to(k) \in 0..n
        BY <1>12
      <4> QED BY <1>1, <3>2, <3>3, <3>4, <4>1
    <3> QED BY <1>13, <3>1, <3>5
  <2> QED BY <2>1, <2>2 DEF Convex
<1>15. ASSUME NEW i \in 1..m, NEW k \in 1..m, i < k
       PROVE  Leads(P(i), P(k)) /\ Cardinality(P(i) \cap P(k)) <= overlap
  <2>1. /\ from(i) \in 1..(n + 1) /\ to(i) \in 0..n /\ from(k) \in 1..(n + 1) /\ to(k) \in 0..n
        /\ from(i) <= from(k) /\ from(i) \in 1..n /\ from(k) \in 1..n
    BY <1>6, <1>12, <1>15
  <2>2. ASSUME NEW q \in P(k), P(i) # {} PROVE \E p \in P(i) : p <= q
    <3>1. PICK y \in 1..n : from(k) <= y /\ y <= to(k) /\ q \in Here(y)
      BY <1>13
    <3>2. CASE y <= to(i)
      <4>1. from(i) <= y
        BY <2>1, <3>1
      <4>2. q \in P(i) /\ q \in Nat
        BY <1>8, <1>13, <3>1, <3>2, <4>1
      <4>3. q <= q
        BY <4>2
      <4> QED BY <4>2, <4>3
    <3>3. CASE ~(y <= to(i))
      <4>1. PICK p \in P(i) : TRUE
        BY <2>2
      <4>2. PICK x \in 1..n : from(i) <= x /\ x <= to(i) /\ p \in Here(x)
        BY <1>13
      <4>3. x < y
        BY <1>1, <2>1, <3>3, <4>2
      <4>4. p < q /\ p \in Nat /\ q \in Nat
        BY <1>7, <1>8, <3>1, <4>2, <4>3 DEF Before
      <4>5. p <= q
        BY <4>4
      <4> QED BY <4>5
    <3> QED BY <3>2, <3>3
  <2>3. i + 1 \in 1..m /\ i # m /\ from(i + 1) <= from(k)
    <3>1. i + 1 \in 1..m /\ i # m /\ (i + 1 = k \/ i + 1 < k)
      BY <1>5, <1>15
    <3>2. CASE i + 1 = k
      BY <2>1, <3>1, <3>2
    <3>3. CASE i + 1 < k
      BY <1>6, <3>1, <3>3
    <3> QED BY <3>1, <3>2, <3>3
  <2> DEFINE shared == Span(splits, from(i + 1), to(i))
  <2>4. P(i) \cap P(k) \subseteq shared
    <3>1. ASSUME NEW p \in P(i), p \in P(k) PROVE p \in shared
      <4>1. PICK x \in 1..n : from(i) <= x /\ x <= to(i) /\ p \in Here(x)
        BY <1>13
      <4>2. PICK y \in 1..n : from(k) <= y /\ y <= to(k) /\ p \in Here(y)
        BY <1>13, <3>1
      <4>3. p \in Nat
        BY <1>8, <4>1
      <4>4. p <= p
        BY <4>3
      <4>5. x <= y /\ y <= x
        BY <1>9, <4>1, <4>2, <4>4
      <4>6. from(i + 1) \in 1..(n + 1)
        BY <1>12, <2>3
      <4>7. x \in from(i + 1)..to(i)
        BY <1>1, <2>1, <2>3, <4>1, <4>2, <4>5, <4>6
      <4> QED BY <4>1, <4>7 DEF Span, Here
    <3> QED BY <3>1
  <2>5. from(i + 1) \in 1..(n + 1)
    BY <1>12, <2>3
  <2>6. IsFiniteSet(shared) /\ Cardinality(shared) <= overlap
    <3>1. Long(sizes, from(i + 1), to(i), Len(sep)) <= overlap
      BY <1>6, <2>3
    <3>2. CASE from(i + 1) > to(i)
      <4>1. shared = {}
        BY <1>11, <2>1, <2>5, <3>2
      <4>2. IsFiniteSet({}) /\ Cardinality({}) = 0
        BY FS_EmptySet
      <4>3. IsFiniteSet(shared) /\ Cardinality(shared) = 0
        BY <4>1, <4>2
      <4>4. 0 <= overlap
        BY <1>1
      <4> QED BY <4>3, <4>4
    <3>3. CASE ~(from(i + 1) > to(i))
      <4>1. from(i + 1) <= to(i) + 1
        BY <1>1, <2>1, <2>5, <3>3
      <4>2. IsFiniteSet(shared) /\ Cardinality(shared) <= Long(sizes, from(i + 1), to(i), Len(sep))
        BY <1>11, <2>1, <2>5, <4>1
      <4>3. Cardinality(shared) \in Nat
        BY <4>2, FS_CardinalityType
      <4>4. Long(sizes, from(i + 1), to(i), Len(sep)) \in Nat
        <5>1. from(i + 1) \in 1..(Len(sizes) + 1) /\ to(i) \in 0..Len(sizes)
          BY <1>1, <2>1, <2>5
        <5> QED BY <1>1, <4>1, <5>1, LongMore
      <4> QED BY <1>1, <3>1, <4>2, <4>3, <4>4
    <3> QED BY <3>2, <3>3
  <2> HIDE DEF shared
  <2>7. Cardinality(P(i) \cap P(k)) <= overlap
    <3>1. Cardinality(P(i) \cap P(k)) \in Nat /\ Cardinality(shared) \in Nat
          /\ Cardinality(P(i) \cap P(k)) <= Cardinality(shared)
      BY <2>4, <2>6, SetSizes
    <3> QED BY <1>1, <2>6, <3>1
  <2> QED BY <2>2, <2>7 DEF Leads
<1> DEFINE out == NotBlank(all)
<1>16. /\ all \in Seq(Seq(Cells)) /\ Len(all) = m
       /\ \A k \in 1..m : all[k] = doc(k)
  <2> DEFINE S == Seq(Cells)
  <2>1. \A k \in 1..m : doc(k) \in S
    BY <1>12 DEF Flow
  <2> HIDE DEF S
  <2>2. all \in [1..m -> S] /\ \A k \in 1..m : all[k] = doc(k)
    BY <1>5, <2>1
  <2> HIDE DEF all
  <2>3. all \in Seq(S) /\ Len(all) = m
    BY <1>5, <2>2, ListIsSeq
  <2> QED BY <2>2, <2>3 DEF S
<1> HIDE DEF all
<1>17. /\ out \in Seq(Seq(Cells))
       /\ \A i \in 1..Len(out) : \E j \in 1..m : out[i] = doc(j)
       /\ \A j \in 1..m : doc(j) # <<>> => \E i \in 1..Len(out) : out[i] = doc(j)
       /\ \A i, k \in 1..Len(out) : i < k =>
             \E a, b \in 1..m : a < b /\ out[i] = doc(a) /\ out[k] = doc(b)
  <2> DEFINE S == Seq(Cells)
  <2>1. <<>> \in S /\ all \in Seq(S)
    BY <1>16, EmptyWords
  <2> HIDE DEF S
  <2>2. /\ out \in Seq(S)
        /\ \A i \in 1..Len(out) : \E j \in 1..Len(all) : out[i] = all[j]
        /\ \A j \in 1..Len(all) : all[j] # <<>> => \E i \in 1..Len(out) : out[i] = all[j]
        /\ \A i, k \in 1..Len(out) : i < k =>
              \E a, b \in 1..Len(all) : a < b /\ out[i] = all[a] /\ out[k] = all[b]
    BY <2>1, WithoutBlanks
  <2> HIDE DEF out
  <2>3. out \in Seq(Seq(Cells))
    BY <2>2 DEF S
  <2>4. \A i \in 1..Len(out) : \E j \in 1..m : out[i] = doc(j)
    BY <1>16, <2>2
  <2>5. ASSUME NEW j \in 1..m, doc(j) # <<>> PROVE \E i \in 1..Len(out) : out[i] = doc(j)
    <3>1. all[j] = doc(j) /\ j \in 1..Len(all)
      BY <1>16
    <3>2. \E i \in 1..Len(out) : out[i] = all[j]
      BY <2>2, <2>5, <3>1
    <3> QED BY <3>1, <3>2
  <2>6. ASSUME NEW i \in 1..Len(out), NEW k \in 1..Len(out), i < k
        PROVE  \E a, b \in 1..m : a < b /\ out[i] = doc(a) /\ out[k] = doc(b)
    <3>1. PICK a, b \in 1..Len(all) : a < b /\ out[i] = all[a] /\ out[k] = all[b]
      BY <2>2, <2>6
    <3>2. a \in 1..m /\ b \in 1..m /\ all[a] = doc(a) /\ all[b] = doc(b)
      BY <1>16
    <3> QED BY <3>1, <3>2
  <2> QED BY <2>3, <2>4, <2>5, <2>6
<1> HIDE DEF out
<1>18. ASSUME NEW k \in 1..Len(out)
       PROVE  /\ Flow(out[k]) /\ Fits(out[k], o)
              /\ Places(out[k]) \subseteq Q /\ Convex(Places(out[k]), Q)
  <2>1. PICK j \in 1..m : out[k] = doc(j)
    BY <1>17
  <2> QED BY <1>12, <1>14, <2>1 DEF P
<1>19. ASSUME NEW p \in Q PROVE \E k \in 1..Len(out) : p \in Places(out[k])
  <2>1. PICK j \in 1..n : p \in Here(j)
    BY <1>8
  <2>2. PICK k \in 1..m : j \in from(k)..to(k)
    BY <1>6
  <2>3. p \in P(k)
    <3>1. from(k) <= j /\ j <= to(k)
      <4>1. from(k) \in 1..n /\ to(k) \in 0..n
        BY <1>12
      <4> QED BY <2>2, <4>1
    <3> QED BY <1>13, <2>1, <3>1
  <2>4. doc(k) # <<>>
    <3>1. Places(<<>>) = {}
      BY EmptyWords, BlankFlow
    <3> QED BY <2>3, <3>1 DEF P
  <2>5. PICK i \in 1..Len(out) : out[i] = doc(k)
    BY <1>17, <2>4
  <2> QED BY <2>3, <2>5 DEF P
<1>20. ASSUME NEW i \in 1..Len(out), NEW k \in 1..Len(out), i < k
       PROVE  /\ Leads(Places(out[i]), Places(out[k]))
              /\ Cardinality(Places(out[i]) \cap Places(out[k])) <= overlap
  <2>1. PICK a, b \in 1..m : a < b /\ out[i] = doc(a) /\ out[k] = doc(b)
    BY <1>17, <1>20
  <2> QED BY <1>15, <2>1 DEF P
<1>21. Chunked(out, Q, o)
  BY <1>17, <1>18, <1>19, <1>20 DEF Chunked, overlap
<1> QED BY <1>4, <1>21 DEF out, Q

-----------------------------------------------------------------------------
(* TextSplit: chunks of texts that follow each other.                      *)

LEMMA ChunkedNone == ASSUME NEW o PROVE Chunked(<<>>, {}, o)
<1>1. <<>> \in Seq(Seq(Cells)) /\ Len(<<>>) = 0
  <2> DEFINE S == Seq(Cells)
  <2> HIDE DEF S
  <2>1. <<>> \in Seq(S) /\ Len(<<>>) = 0
    BY EmptySeq
  <2> QED BY <2>1 DEF S
<1> QED BY <1>1 DEF Chunked

(* A text that is short enough, or that there is nothing to split at.      *)
LEMMA ChunkedOne ==
    ASSUME NEW t, Flow(t), NEW o, Fits(t, o)
    PROVE  Chunked(<<t>>, Places(t), o)
<1> DEFINE S == Seq(Cells)
           cs == <<t>>
<1>1. t \in S
  BY DEF Flow
<1> HIDE DEF S
<1>2. cs \in Seq(S) /\ Len(cs) = 1 /\ cs[1] = t
  BY <1>1, OneOf
<1> HIDE DEF cs
<1>3. Convex(Places(t), Places(t))
  BY DEF Convex
<1>4. \A i, k \in 1..1 : ~(i < k)
  BY OneInOne
<1>5. 1 \in 1..1
  OBVIOUS
<1>6. \A k \in 1..Len(cs) : cs[k] = t
  BY <1>2, OneInOne
<1>7. \A k \in 1..Len(cs) :
         /\ Flow(cs[k]) /\ Fits(cs[k], o)
         /\ Places(cs[k]) \subseteq Places(t)
         /\ Convex(Places(cs[k]), Places(t))
  BY <1>3, <1>6
<1>8. \A p \in Places(t) : \E k \in 1..Len(cs) : p \in Places(cs[k])
  BY <1>2, <1>5
<1>9. cs \in Seq(Seq(Cells))
  BY <1>2 DEF S
<1> QED BY <1>2, <1>4, <1>7, <1>8, <1>9 DEF Chunked, cs

(* The chunks of a text and those of the one that follows it.              *)
LEMMA ChunkedConcat ==
    ASSUME NEW o, Options(o), NEW P \in SUBSET Nat, NEW Q \in SUBSET Nat, Before(P, Q),
           NEW cs, Chunked(cs, P, o), NEW ds, Chunked(ds, Q, o)
    PROVE  Chunked(cs \o ds, P \cup Q, o)
<1> DEFINE m == Len(cs)
           n == Len(ds)
           all == cs \o ds
           S == Seq(Cells)
           Here(k) == Places(all[k])
<1>1. cs \in Seq(S) /\ ds \in Seq(S)
  BY DEF Chunked
<1> HIDE DEF S
<1>2. /\ all \in Seq(S) /\ Len(all) = m + n /\ m \in Nat /\ n \in Nat
      /\ \A i \in 1..(m + n) : all[i] = IF i <= m THEN cs[i] ELSE ds[i - m]
  BY <1>1, ConcatProperties, LenProperties
<1> HIDE DEF all, m, n
<1>3. /\ \A k \in 1..m : all[k] = cs[k] /\ k \in 1..(m + n)
      /\ \A k \in 1..n : all[m + k] = ds[k] /\ m + k \in 1..(m + n)
  <2>1. ASSUME NEW k \in 1..m PROVE all[k] = cs[k] /\ k \in 1..(m + n)
    BY <1>2
  <2>2. ASSUME NEW k \in 1..n PROVE all[m + k] = ds[k] /\ m + k \in 1..(m + n)
    <3>1. m + k \in 1..(m + n) /\ ~(m + k <= m) /\ (m + k) - m = k
      BY <1>2
    <3> QED BY <1>2, <3>1
  <2> QED BY <2>1, <2>2
<1>4. ASSUME NEW k \in 1..(m + n) PROVE k \in 1..m \/ \E j \in 1..n : k = m + j
  <2>1. CASE k <= m
    BY <2>1, <1>2
  <2>2. CASE k > m
    <3>1. k - m \in 1..n /\ k = m + (k - m)
      BY <2>2, <1>2
    <3> QED BY <3>1
  <2> QED BY <2>1, <2>2, <1>2
<1>5. ASSUME NEW k \in 1..m
      PROVE  /\ Flow(all[k]) /\ Fits(all[k], o)
             /\ Here(k) \subseteq P /\ Convex(Here(k), P)
  BY <1>3 DEF Chunked, m
<1>6. ASSUME NEW k \in 1..n
      PROVE  /\ Flow(all[m + k]) /\ Fits(all[m + k], o)
             /\ Here(m + k) \subseteq Q /\ Convex(Here(m + k), Q)
  BY <1>3 DEF Chunked, n
<1>7. \A p \in P, q \in Q : p < q /\ ~(q <= p) /\ p # q
  BY DEF Before
<1>8. ASSUME NEW k \in 1..(m + n)
      PROVE  /\ Flow(all[k]) /\ Fits(all[k], o)
             /\ Here(k) \subseteq P \cup Q /\ Convex(Here(k), P \cup Q)
  <2> HIDE DEF Here
  <2>1. CASE k \in 1..m
    <3>1. /\ Flow(all[k]) /\ Fits(all[k], o) /\ Here(k) \subseteq P /\ Convex(Here(k), P)
      BY <1>5, <2>1
    <3> QED BY <1>7, <3>1 DEF Convex
  <2>2. ASSUME NEW j \in 1..n, k = m + j
        PROVE  /\ Flow(all[k]) /\ Fits(all[k], o)
               /\ Here(k) \subseteq P \cup Q /\ Convex(Here(k), P \cup Q)
    <3>1. /\ Flow(all[k]) /\ Fits(all[k], o) /\ Here(k) \subseteq Q /\ Convex(Here(k), Q)
      BY <1>6, <2>2
    <3> QED BY <1>7, <3>1 DEF Convex
  <2> QED BY <1>4, <2>1, <2>2
<1>9. ASSUME NEW p \in P \cup Q PROVE \E k \in 1..(m + n) : p \in Here(k)
  <2>1. CASE p \in P
    <3>1. PICK k \in 1..m : p \in Places(cs[k])
      BY <2>1 DEF Chunked, m
    <3> QED BY <1>3, <3>1
  <2>2. CASE p \in Q
    <3>1. PICK k \in 1..n : p \in Places(ds[k])
      BY <2>2 DEF Chunked, n
    <3> QED BY <1>3, <3>1
  <2> QED BY <2>1, <2>2
<1>10. ASSUME NEW i \in 1..(m + n), NEW k \in 1..(m + n), i < k
       PROVE  Leads(Here(i), Here(k)) /\ Cardinality(Here(i) \cap Here(k)) <= o.overlap
  <2>1. CASE i \in 1..m /\ k \in 1..m
    BY <1>3, <1>10, <2>1 DEF Chunked, m
  <2>2. ASSUME i \in 1..m, NEW b \in 1..n, k = m + b
        PROVE  Leads(Here(i), Here(k)) /\ Cardinality(Here(i) \cap Here(k)) <= o.overlap
    <3>1. Here(i) \subseteq P /\ Here(k) \subseteq Q
      BY <1>5, <1>6, <2>2
    <3> HIDE DEF Here
    <3>2. Leads(Here(i), Here(k))
      <4>1. \A p \in P, q \in Q : p <= q
        BY <1>7
      <4> QED BY <3>1, <4>1 DEF Leads
    <3>3. Here(i) \cap Here(k) = {}
      BY <1>7, <3>1
    <3>4. Cardinality({}) = 0 /\ 0 <= o.overlap
      BY FS_EmptySet DEF Options
    <3> QED BY <3>2, <3>3, <3>4
  <2>3. ASSUME NEW a \in 1..n, i = m + a, k \in 1..m PROVE FALSE
    BY <1>2, <1>10, <2>3
  <2>4. ASSUME NEW a \in 1..n, i = m + a, NEW b \in 1..n, k = m + b
        PROVE  Leads(Here(i), Here(k)) /\ Cardinality(Here(i) \cap Here(k)) <= o.overlap
    <3>1. a < b
      BY <1>2, <1>10, <2>4
    <3> QED BY <1>3, <2>4, <3>1 DEF Chunked, n
  <2> QED BY <1>4, <2>1, <2>2, <2>3, <2>4
<1>11. all \in Seq(Seq(Cells))
  BY <1>2 DEF S
<1>12. Chunked(all, P \cup Q, o)
  BY <1>2, <1>8, <1>9, <1>10, <1>11 DEF Chunked
<1> QED BY <1>12 DEF all

(* The places of two parts of the pieces that follow each other.           *)
LEMMA SpanParts ==
    ASSUME NEW pieces, InARow(pieces),
           NEW b \in 0..Len(pieces), NEW c \in 0..Len(pieces), b <= c
    PROVE  /\ Before(Span(pieces, 1, b), Span(pieces, b + 1, c))
           /\ Span(pieces, 1, c) = Span(pieces, 1, b) \cup Span(pieces, b + 1, c)
           /\ Span(pieces, 1, b) \in SUBSET Nat /\ Span(pieces, b + 1, c) \in SUBSET Nat
<1> DEFINE n == Len(pieces)
<1>1. /\ n \in Nat /\ DOMAIN pieces = 1..n
      /\ \A j \in 1..n : pieces[j] \in Seq(Cells)
  BY RowFacts
<1>2. \A j \in 1..n : Places(pieces[j]) \subseteq Nat
  BY <1>1, PlacesCount
<1>3. Span(pieces, 1, b) \in SUBSET Nat /\ Span(pieces, b + 1, c) \in SUBSET Nat
  <2>1. (\A j \in 1..b : j \in 1..n) /\ (\A j \in (b + 1)..c : j \in 1..n)
    BY <1>1
  <2> QED BY <1>2, <2>1 DEF Span
<1>4. Before(Span(pieces, 1, b), Span(pieces, b + 1, c))
  <2>1. ASSUME NEW i \in 1..b, NEW j \in (b + 1)..c
        PROVE  Before(Places(pieces[i]), Places(pieces[j]))
    <3>1. i \in 1..n /\ j \in 1..n /\ i < j
      BY <1>1
    <3> QED BY <1>1, <3>1 DEF InARow
  <2> QED BY <2>1 DEF Span, Before
<1>5. Span(pieces, 1, c) = Span(pieces, 1, b) \cup Span(pieces, b + 1, c)
  <2>1. \A j : j \in 1..c <=> (j \in 1..b \/ j \in (b + 1)..c)
    BY <1>1
  <2> QED BY <2>1 DEF Span
<1> QED BY <1>3, <1>4, <1>5

LEMMA SpanNext ==
    ASSUME NEW pieces, InARow(pieces), NEW k \in 1..Len(pieces)
    PROVE  /\ Before(Span(pieces, 1, k - 1), Places(pieces[k]))
           /\ Span(pieces, 1, k) = Span(pieces, 1, k - 1) \cup Places(pieces[k])
           /\ Span(pieces, 1, k - 1) \in SUBSET Nat
           /\ Places(pieces[k]) \in SUBSET Nat
<1>1. /\ k - 1 \in 0..Len(pieces) /\ k \in 0..Len(pieces) /\ k - 1 <= k
      /\ k - 1 + 1 = k
  BY RowFacts
<1>2. Span(pieces, k, k) = Places(pieces[k])
  <2>1. \A j : j \in k..k <=> j = k
    BY <1>1
  <2> QED BY <2>1 DEF Span
<1>3. /\ Before(Span(pieces, 1, k - 1), Span(pieces, k - 1 + 1, k))
      /\ Span(pieces, 1, k) = Span(pieces, 1, k - 1) \cup Span(pieces, k - 1 + 1, k)
      /\ Span(pieces, 1, k - 1) \in SUBSET Nat /\ Span(pieces, k - 1 + 1, k) \in SUBSET Nat
  BY <1>1, SpanParts, Zenon
<1> QED BY <1>1, <1>2, <1>3

-----------------------------------------------------------------------------
(* TextSplit: the short pieces between those that are split again.         *)

MergedOf(good, sep, o) ==
    IF good = <<>> THEN <<>> ELSE Merged(good, sep, o.size, o.overlap)

LEMMA MergedPart ==
    ASSUME NEW o, Options(o), NEW splits, InARow(splits),
           NEW sep, Flow(sep), Places(sep) = {}, Len(sep) \in {0, 1},
           NEW a \in 0..Len(splits), NEW k \in 0..Len(splits), a <= k,
           \A j \in (a + 1)..k : Len(splits[j]) < o.size
    PROVE  Chunked(MergedOf(SubSeq(splits, a + 1, k), sep, o), Span(splits, a + 1, k), o)
<1> DEFINE n == Len(splits)
           slice == SubSeq(splits, a + 1, k)
<1>1. n \in Nat /\ a + 1 \in 1..(n + 1) /\ a + 1 <= k + 1 /\ k - (a + 1) + 1 = k - a
  BY RowFacts
<1>2. /\ InARow(slice) /\ AllOf(slice) = Span(splits, a + 1, k)
      /\ Len(slice) = k - a
      /\ \A i \in 1..(k - a) : slice[i] = splits[a + 1 + i - 1]
  <2>1. /\ InARow(slice) /\ AllOf(slice) = Span(splits, a + 1, k)
        /\ Len(slice) = k - (a + 1) + 1
        /\ \A i \in 1..(k - (a + 1) + 1) : slice[i] = splits[a + 1 + i - 1]
    BY <1>1, PartRow
  <2> HIDE DEF slice
  <2> QED BY <1>1, <2>1
<1> HIDE DEF slice, n
<1>3. CASE slice = <<>>
  <2>1. Len(<<>>) = 0 /\ DOMAIN <<>> = {}
    BY EmptySeq
  <2>2. AllOf(slice) = {}
    BY <1>3, <2>1 DEF AllOf
  <2>3. Chunked(<<>>, {}, o)
    BY ChunkedNone
  <2> QED BY <1>2, <1>3, <2>2, <2>3 DEF MergedOf, slice
<1>4. CASE slice # <<>>
  <2>1. Len(slice) > 0
    <3>1. slice \in Seq(Seq(Cells))
      BY <1>2 DEF InARow
    <3> DEFINE S == Seq(Cells)
    <3>2. slice \in Seq(S)
      BY <3>1
    <3> HIDE DEF S
    <3>3. Len(slice) \in Nat \ {0}
      BY <1>4, <3>2, EmptySeq
    <3> QED BY <3>3
  <2>2. \A j \in 1..Len(slice) : Len(slice[j]) < o.size
    <3>1. ASSUME NEW j \in 1..(k - a) PROVE Len(slice[j]) < o.size
      <4>1. a + 1 + j - 1 \in (a + 1)..k
        BY <1>1
      <4> QED BY <1>2, <4>1
    <3> QED BY <1>2, <3>1
  <2>3. Chunked(Merged(slice, sep, o.size, o.overlap), AllOf(slice), o)
    BY <1>2, <2>1, <2>2, MergedChunks
  <2> QED BY <1>2, <1>4, <2>3 DEF MergedOf, slice
<1> QED BY <1>3, <1>4

(* The chunks of the short pieces and of those that were split again.      *)
LEMMA MixedChunks ==
    ASSUME NEW o, Options(o), NEW splits, InARow(splits), NEW again,
           \A k \in 1..Len(splits) :
              ~(Len(splits[k]) < o.size) => Chunked(again[k], Places(splits[k]), o),
           NEW sep, Flow(sep), Places(sep) = {}, Len(sep) \in {0, 1}
    PROVE  Chunked(Mixed(splits, again, sep, o), AllOf(splits), o)
<1> DEFINE n == Len(splits)
           T == Seq(Cells)
           S == [good : Seq(T), chunks : Seq(T)]
           first == [good |-> <<>>, chunks |-> <<>>]
           new(m, k) ==
              IF Len(splits[k]) < o.size THEN [m EXCEPT !.good = Append(@, splits[k])]
              ELSE [good |-> <<>>, chunks |-> m.chunks \o MergedOf(m.good, sep, o) \o again[k]]
           Is(m, k) ==
              /\ m \in S
              /\ \E a \in 0..k :
                    /\ m.good = SubSeq(splits, a + 1, k)
                    /\ \A j \in (a + 1)..k : Len(splits[j]) < o.size
                    /\ Chunked(m.chunks, Span(splits, 1, a), o)
           IsAfter(g) == g = [k \in 0..n |-> IF k = 0 THEN first ELSE new(g[k - 1], k)]
           step == [x \in (1..n) \X S |-> IF new(x[2], x[1]) \in S THEN new(x[2], x[1]) ELSE first]
<1>1. /\ n \in Nat /\ DOMAIN splits = 1..n /\ splits \in Seq(T)
      /\ \A k \in 1..n : splits[k] \in T /\ Flow(splits[k])
  BY RowFacts DEF InARow
<1>2. first \in S
  <2> HIDE DEF T
  <2>1. <<>> \in Seq(T)
    BY EmptySeq
  <2> QED BY <2>1
<1> HIDE DEF T
<1>3. Is(first, 0)
  <2>1. SubSeq(splits, 0 + 1, 0) = <<>>
    BY SubSeqEmpty
  <2>2. Chunked(<<>>, {}, o)
    BY ChunkedNone
  <2>3. Span(splits, 1, 0) = {} /\ (0 + 1)..0 = {} /\ 0 \in 0..0
    BY DEF Span
  <2> QED BY <1>2, <2>1, <2>2, <2>3
<1>4. ASSUME NEW k \in 0..n, NEW m, Is(m, k)
      PROVE  Chunked(m.chunks \o MergedOf(m.good, sep, o), Span(splits, 1, k), o)
  <2>1. PICK a \in 0..k :
           /\ m.good = SubSeq(splits, a + 1, k)
           /\ \A j \in (a + 1)..k : Len(splits[j]) < o.size
           /\ Chunked(m.chunks, Span(splits, 1, a), o)
    BY <1>4
  <2>2. a \in 0..n /\ a <= k /\ 1 \in 1..(n + 1)
    BY <1>1
  <2>3. Chunked(MergedOf(m.good, sep, o), Span(splits, a + 1, k), o)
    BY <2>1, <2>2, MergedPart
  <2>4. /\ Before(Span(splits, 1, a), Span(splits, a + 1, k))
        /\ Span(splits, 1, k) = Span(splits, 1, a) \cup Span(splits, a + 1, k)
        /\ Span(splits, 1, a) \in SUBSET Nat /\ Span(splits, a + 1, k) \in SUBSET Nat
    BY <1>1, <2>2, SpanParts
  <2> DEFINE P == Span(splits, 1, a)
             Q == Span(splits, a + 1, k)
             cs == m.chunks
             ds == MergedOf(m.good, sep, o)
  <2>5. /\ P \in SUBSET Nat /\ Q \in SUBSET Nat /\ Before(P, Q)
        /\ Chunked(cs, P, o) /\ Chunked(ds, Q, o)
    BY <2>1, <2>3, <2>4
  <2> HIDE DEF Is, P, Q, cs, ds
  <2>6. Chunked(cs \o ds, P \cup Q, o)
    BY <2>5, ChunkedConcat
  <2> QED BY <2>4, <2>6 DEF P, Q, cs, ds
<1>5. ASSUME NEW k \in 1..n, NEW m, Is(m, k - 1) PROVE Is(new(m, k), k)
  <2>1. CASE Len(splits[k]) < o.size
    <3>1. PICK a \in 0..(k - 1) :
             /\ m.good = SubSeq(splits, a + 1, k - 1)
             /\ \A j \in (a + 1)..(k - 1) : Len(splits[j]) < o.size
             /\ Chunked(m.chunks, Span(splits, 1, a), o)
      BY <1>5
    <3> DEFINE r == [m EXCEPT !.good = Append(@, splits[k])]
    <3>2. /\ m \in S /\ splits[k] \in T /\ new(m, k) = r
      BY <1>1, <1>5, <2>1
    <3>3. r \in S /\ r.good = Append(m.good, splits[k]) /\ r.chunks = m.chunks
      <4>1. Append(m.good, splits[k]) \in Seq(T)
        BY <3>2
      <4> QED BY <3>2, <4>1
    <3>4. SubSeq(splits, a + 1, k) = Append(SubSeq(splits, a + 1, k - 1), splits[k])
      <4> DEFINE b == k - 1
      <4>1. /\ a + 1 \in 1..(Len(splits) + 1) /\ b \in 0..Len(splits) /\ a + 1 <= b + 1
            /\ b < Len(splits) /\ b + 1 = k
        BY <1>1
      <4> HIDE DEF b
      <4>2. SubSeq(splits, a + 1, b + 1) = Append(SubSeq(splits, a + 1, b), splits[b + 1])
        BY <1>1, <4>1, PartMore
      <4> QED BY <4>1, <4>2 DEF b
    <3>5. \A j \in (a + 1)..k : j = k \/ j \in (a + 1)..(k - 1)
      BY <1>1
    <3>6. a \in 0..k
      BY <1>1
    <3> HIDE DEF r, S
    <3>7. Is(r, k)
      BY <2>1, <3>1, <3>3, <3>4, <3>5, <3>6
    <3> QED BY <3>2, <3>7
  <2>2. CASE ~(Len(splits[k]) < o.size)
    <3> DEFINE before == m.chunks \o MergedOf(m.good, sep, o)
               all == before \o again[k]
               r == [good |-> <<>>, chunks |-> all]
    <3>1. k - 1 \in 0..n /\ k \in 0..k /\ k \in 0..n
      BY <1>1
    <3>2. Chunked(before, Span(splits, 1, k - 1), o)
      <4> HIDE DEF Is
      <4> QED BY <1>4, <1>5, <3>1
    <3>3. Chunked(again[k], Places(splits[k]), o)
      BY <2>2
    <3>4. /\ Before(Span(splits, 1, k - 1), Places(splits[k]))
          /\ Span(splits, 1, k) = Span(splits, 1, k - 1) \cup Places(splits[k])
          /\ Span(splits, 1, k - 1) \in SUBSET Nat /\ Places(splits[k]) \in SUBSET Nat
      BY SpanNext
    <3> HIDE DEF before
    <3>5. Chunked(all, Span(splits, 1, k), o)
      BY <3>2, <3>3, <3>4, ChunkedConcat
    <3>6. all \in Seq(T) /\ <<>> \in Seq(T)
      <4>1. all \in Seq(T)
        BY <3>5 DEF Chunked, T
      <4> QED BY <4>1, EmptySeq
    <3> HIDE DEF all
    <3>7. r \in S /\ r.good = <<>> /\ r.chunks = all
      BY <3>6
    <3>8. new(m, k) = r
      BY <2>2 DEF all, before
    <3>9. SubSeq(splits, k + 1, k) = <<>> /\ (k + 1)..k = {}
      <4>1. k \in Int /\ k + 1 \in Int /\ k < k + 1
        BY <1>1
      <4>2. SubSeq(splits, k + 1, k) = <<>>
        BY <4>1, SubSeqEmpty
      <4> QED BY <4>1, <4>2
    <3> HIDE DEF r, S
    <3>10. Is(r, k)
      BY <3>1, <3>5, <3>7, <3>9
    <3> QED BY <3>8, <3>10
  <2> QED BY <2>1, <2>2
<1>6. \A m, k : Is(m, k) => m \in S
  OBVIOUS
<1> HIDE DEF new, Is, S, first
<1>7. step \in [(1..n) \X S -> S]
  BY <1>2
<1>8. PICK g \in [0..n -> S] : IsRun(g, n, first, step)
  <2> HIDE DEF n, step
  <2> QED BY <1>1, <1>2, <1>7, RoundsExist
<1>9. g[0] = first
  <2>1. 0 \in 0..n
    BY <1>1
  <2> QED BY <1>8, <2>1 DEF IsRun
<1>10. ASSUME NEW k \in 1..n, Is(g[k - 1], k - 1) PROVE g[k] = new(g[k - 1], k)
  <2>1. k \in 0..n /\ k # 0 /\ k - 1 \in 0..n
    BY <1>1
  <2>2. new(g[k - 1], k) \in S
    BY <1>5, <1>6, <1>10
  <2>3. <<k, g[k - 1]>> \in (1..n) \X S
    BY <1>8, <2>1
  <2>4. step[<<k, g[k - 1]>>] = new(g[k - 1], k)
    BY <2>2, <2>3
  <2> HIDE DEF step
  <2> QED BY <1>8, <2>1, <2>4 DEF IsRun
<1>11. \A k \in 0..n : Is(g[k], k)
  <2> DEFINE G == {k \in 0..n : Is(g[k], k)}
  <2>1. 0 \in G
    BY <1>1, <1>3, <1>9
  <2>2. ASSUME NEW k \in 1..n, k - 1 \in G PROVE k \in G
    <3>1. k \in 0..n /\ g[k] = new(g[k - 1], k) /\ Is(g[k - 1], k - 1)
      BY <1>1, <1>10, <2>2
    <3> QED BY <1>5, <3>1
  <2>3. G \in SUBSET (0..n)
    OBVIOUS
  <2> HIDE DEF G, n
  <2>4. \A k \in 0..n : k \in G
    BY <1>1, <2>1, <2>2, <2>3, UpTo
  <2> QED BY <2>4 DEF G
<1>12. IsAfter(g)
  <2>1. ASSUME NEW k \in 0..n PROVE g[k] = IF k = 0 THEN first ELSE new(g[k - 1], k)
    <3>1. CASE k = 0
      BY <1>9, <3>1
    <3>2. CASE k # 0
      <4>1. k \in 1..n /\ k - 1 \in 0..n
        BY <1>1, <3>2
      <4> QED BY <1>10, <1>11, <3>2, <4>1
    <3> QED BY <3>1, <3>2
  <2>2. g = [k \in 0..n |-> g[k]]
    BY <1>8
  <2> QED BY <2>1, <2>2
<1> DEFINE after == CHOOSE h : IsAfter(h)
<1>13. Mixed(splits, again, sep, o) =
          after[n].chunks \o MergedOf(after[n].good, sep, o)
  BY DEF Mixed, new, first, MergedOf
<1>14. IsAfter(after)
  <2> HIDE DEF IsAfter
  <2> QED BY <1>12, Zenon
<1> HIDE DEF after, step
<1>15. after[0] = first /\ \A k \in 1..n : after[k] = new(after[k - 1], k)
  <2>1. \A k \in 0..n : after[k] = IF k = 0 THEN first ELSE new(after[k - 1], k)
    BY <1>14
  <2>2. 0 \in 0..n /\ \A k \in 1..n : k \in 0..n /\ k # 0
    BY <1>1
  <2> QED BY <2>1, <2>2
<1>16. Is(after[n], n)
  <2> DEFINE G == {k \in 0..n : Is(after[k], k)}
  <2>1. 0 \in G
    BY <1>1, <1>3, <1>15
  <2>2. ASSUME NEW k \in 1..n, k - 1 \in G PROVE k \in G
    <3>1. k \in 0..n /\ after[k] = new(after[k - 1], k) /\ Is(after[k - 1], k - 1)
      BY <1>1, <1>15, <2>2
    <3> QED BY <1>5, <3>1
  <2>3. G \in SUBSET (0..n)
    OBVIOUS
  <2> HIDE DEF G, n
  <2>4. \A k \in 0..n : k \in G
    BY <1>1, <2>1, <2>2, <2>3, UpTo
  <2> QED BY <1>1, <2>4 DEF G
<1>17. Span(splits, 1, n) = AllOf(splits)
  BY <1>1 DEF Span, AllOf
<1>18. n \in 0..n
  BY <1>1
<1> QED BY <1>4, <1>13, <1>16, <1>17, <1>18

-----------------------------------------------------------------------------
(* TextSplit: the pieces that a text is cut to at a separator.             *)

\* The word a character is of: its place, or none.
PlaceOf(cell) == IF cell.c \in Blank THEN {} ELSE {cell.at}

LEMMA AppendIs == ASSUME NEW S, NEW s \in Seq(S), NEW e \in S PROVE Append(s, e) = s \o <<e>>
OBVIOUS

LEMMA FlowOne ==
    ASSUME NEW cell \in Cells
    PROVE  Flow(<<cell>>) /\ Places(<<cell>>) = PlaceOf(cell) /\ Len(<<cell>>) = 1
<1> DEFINE t == <<cell>>
<1>1. t \in Seq(Cells) /\ Len(t) = 1 /\ t[1] = cell
  BY OneOf
<1> HIDE DEF t
<1>2. DOMAIN t = 1..1 /\ 1 \in 1..1 /\ \A k \in 1..1 : k = 1
  BY <1>1, PlacesCount, OneInOne
<1>3. Words(t) = IF cell.c \in Blank THEN {} ELSE {1}
  BY <1>1, <1>2 DEF Words
<1>4. Places(t) = PlaceOf(cell)
  BY <1>1, <1>3 DEF Places, PlaceOf
<1>5. Flow(t)
  <2>1. \A i, j \in Words(t) : ~(i < j)
    BY <1>3
  <2> QED BY <1>1, <2>1 DEF Flow
<1> QED BY <1>1, <1>4, <1>5 DEF t

LEMMA FlowAppend ==
    ASSUME NEW t, Flow(t), NEW cell \in Cells, Before(Places(t), PlaceOf(cell))
    PROVE  /\ Flow(Append(t, cell)) /\ Len(Append(t, cell)) = Len(t) + 1
           /\ Places(Append(t, cell)) = Places(t) \cup PlaceOf(cell)
<1>1. t \in Seq(Cells)
  BY DEF Flow
<1>2. Append(t, cell) = t \o <<cell>>
  <2> HIDE DEF Cells
  <2> QED BY <1>1, AppendIs
<1> DEFINE u == <<cell>>
<1>3. Flow(u) /\ Places(u) = PlaceOf(cell) /\ Len(u) = 1
  BY FlowOne
<1> HIDE DEF u
<1>4. /\ Flow(t \o u) /\ Len(t \o u) = Len(t) + 1
      /\ Places(t \o u) = Places(t) \cup PlaceOf(cell)
  BY <1>3, FlowConcat
<1> QED BY <1>2, <1>4 DEF u

\* Behind the blanks that it begins with, a text has none of the characters C.
Plain(t, C) ==
    \E m \in 0..Len(t) : /\ \A i \in 1..m : t[i].c \in Blank
                         /\ \A i \in (m + 1)..Len(t) : t[i].c \notin C

\* Pieces that have the words of a text, without the characters C.
Pieces(d, Q, C) ==
    /\ InARow(d) /\ AllOf(d) = Q
    /\ \A k \in 1..Len(d) : Plain(d[k], C)

LEMMA PlainFacts ==
    ASSUME NEW C
    PROVE  Plain(<<>>, C)
<1>1. Len(<<>>) = 0 /\ 0 \in 0..0 /\ 1..0 = {} /\ (0 + 1)..0 = {}
  BY EmptyWords
<1> QED BY <1>1 DEF Plain

LEMMA PlainAppend ==
    ASSUME NEW t \in Seq(Cells), NEW cell \in Cells, NEW C, Plain(t, C),
           \/ cell.c \notin C
           \/ cell.c \in Blank /\ \A i \in 1..Len(t) : t[i].c \in Blank
    PROVE  Plain(Append(t, cell), C)
<1> DEFINE u == Append(t, cell)
           n == Len(t)
<1>1. /\ n \in Nat /\ Len(u) = n + 1 /\ u[n + 1] = cell
      /\ \A i \in 1..n : u[i] = t[i]
  <2> HIDE DEF Cells
  <2> QED OBVIOUS
<1> HIDE DEF u
<1>2. CASE cell.c \notin C
  <2>1. PICK m \in 0..n : /\ \A i \in 1..m : t[i].c \in Blank
                          /\ \A i \in (m + 1)..n : t[i].c \notin C
    BY DEF Plain
  <2>2. /\ m \in 0..(n + 1) /\ (\A i \in 1..m : i \in 1..n)
        /\ \A i \in (m + 1)..(n + 1) : i = n + 1 \/ (i \in (m + 1)..n /\ i \in 1..n)
    BY <1>1
  <2>3. \A i \in 1..m : u[i].c \in Blank
    BY <1>1, <2>1, <2>2
  <2>4. \A i \in (m + 1)..(n + 1) : u[i].c \notin C
    BY <1>1, <1>2, <2>1, <2>2
  <2> QED BY <1>1, <2>2, <2>3, <2>4 DEF Plain, u
<1>3. CASE cell.c \in Blank /\ \A i \in 1..n : t[i].c \in Blank
  <2>1. n + 1 \in 0..(n + 1) /\ (n + 1 + 1)..(n + 1) = {}
        /\ \A i \in 1..(n + 1) : i = n + 1 \/ i \in 1..n
    BY <1>1
  <2>2. \A i \in 1..(n + 1) : u[i].c \in Blank
    BY <1>1, <1>3, <2>1
  <2> QED BY <1>1, <2>1, <2>2 DEF Plain, u
<1> QED BY <1>2, <1>3

(* The characters of a text, each a piece.                                 *)
LEMMA CutEach ==
    ASSUME NEW t, Flow(t)
    PROVE  LET d == SplitAt(t, "")
           IN /\ InARow(d) /\ AllOf(d) = Places(t)
              /\ \A k \in 1..Len(d) : Len(d[k]) = 1
<1> DEFINE n == Len(t)
           d == [k \in DOMAIN t |-> <<t[k]>>]
           T == Seq(Cells)
<1>1. /\ t \in Seq(Cells) /\ n \in Nat /\ DOMAIN t = 1..n
      /\ \A k \in 1..n : t[k] \in Cells
  BY PlacesCount DEF Flow
<1>2. SplitAt(t, "") = d
  BY DEF SplitAt
<1>3. /\ d \in Seq(T) /\ Len(d) = n /\ DOMAIN d = 1..n
      /\ \A k \in 1..n : d[k] = <<t[k]>>
  <2>1. \A k \in 1..n : <<t[k]>> \in T
    BY <1>1, OneOf
  <2> HIDE DEF T
  <2>2. d \in [1..n -> T] /\ \A k \in 1..n : d[k] = <<t[k]>>
    BY <1>1, <2>1
  <2> HIDE DEF d, n
  <2> QED BY <1>1, <2>2, ListIsSeq
<1> HIDE DEF d, n
<1>4. ASSUME NEW k \in 1..n
      PROVE  Flow(d[k]) /\ Places(d[k]) = PlaceOf(t[k]) /\ Len(d[k]) = 1
  BY <1>1, <1>3, FlowOne
<1>5. \A k \in 1..n : k \in Words(t) <=> t[k].c \notin Blank
  BY <1>1 DEF Words
<1>6. ASSUME NEW i \in 1..n, NEW j \in 1..n, i < j
      PROVE  Before(Places(d[i]), Places(d[j]))
  <2>1. ASSUME t[i].c \notin Blank, t[j].c \notin Blank
        PROVE  t[i].at < t[j].at
    BY <1>5, <1>6, <2>1 DEF Flow
  <2> QED BY <1>4, <2>1 DEF Before, PlaceOf
<1>7. InARow(d)
  BY <1>3, <1>4, <1>6 DEF InARow, T
<1>8. AllOf(d) = Places(t)
  <2>1. AllOf(d) = UNION {PlaceOf(t[k]) : k \in 1..n}
    BY <1>3, <1>4 DEF AllOf
  <2>2. Words(t) \subseteq 1..n
    BY <1>1 DEF Words
  <2>3. UNION {PlaceOf(t[k]) : k \in 1..n} = Places(t)
    BY <1>5, <2>2 DEF PlaceOf, Places
  <2> QED BY <2>1, <2>3
<1> QED BY <1>2, <1>3, <1>4, <1>7, <1>8

(* The pieces between the separators: they have all words, no separator,   *)
(* and what the text has none of.                                          *)
LEMMA CutAt ==
    ASSUME NEW t, Flow(t), NEW C, Plain(t, C), NEW c \in Blank
    PROVE  Pieces(SplitAt(t, c), Places(t), C \cup {c})
<1> DEFINE n == Len(t)
           T == Seq(Cells)
           S == Seq(T)
           D == C \cup {c}
           first == <<<<>>>>
           new(d, k) == IF t[k].c = c THEN Append(d, <<>>)
                        ELSE [d EXCEPT ![Len(d)] = Append(@, t[k])]
           upTo(k) == UNION {PlaceOf(t[i]) : i \in 1..k}
           IsCut(g) == g = [k \in 0..n |-> IF k = 0 THEN first
                                           ELSE IF t[k].c = c THEN Append(g[k - 1], <<>>)
                                           ELSE [g[k - 1] EXCEPT ![Len(g[k - 1])] =
                                                                   Append(@, t[k])]]
           step == [x \in (1..n) \X S |-> IF new(x[2], x[1]) \in S THEN new(x[2], x[1]) ELSE first]
<1>1. /\ t \in Seq(Cells) /\ n \in Nat /\ DOMAIN t = 1..n
      /\ \A k \in 1..n : t[k] \in Cells
      /\ c # "" /\ c \in Blank
  <2>1. c # ""
    BY DEF Blank
  <2> QED BY <2>1, PlacesCount DEF Flow
<1>0. n \in Nat
  BY <1>1
<1>2. PICK m \in 0..n : /\ \A i \in 1..m : t[i].c \in Blank
                        /\ \A i \in (m + 1)..n : t[i].c \notin C
  BY DEF Plain
<1> DEFINE Is(d, k) ==
              /\ Pieces(d, upTo(k), D) /\ Len(d) > 0
              /\ k <= m => \A j \in 1..Len(d) : \A i \in 1..Len(d[j]) :
                              d[j][i].c \in Blank
<1>3. first \in S
  <2> HIDE DEF T
  <2>1. <<>> \in T
    BY EmptyWords DEF T
  <2> QED BY <2>1, OneOf
<1>4. Is(first, 0)
  <2>1. first \in Seq(T) /\ Len(first) = 1 /\ first[1] = <<>> /\ Len(<<>>) = 0 /\ 1 > 0
    BY EmptyWords, OneOf
  <2> HIDE DEF first
  <2>2. Flow(<<>>) /\ Places(<<>>) = {}
    BY EmptyWords, BlankFlow
  <2>3. DOMAIN first = 1..1
    <3> HIDE DEF T
    <3> QED BY <2>1, LenProperties
  <2>4. \A j \in 1..1 : first[j] = <<>>
    BY <2>1, OneInOne
  <2>5. \A i, j \in 1..1 : ~(i < j)
    BY OneInOne
  <2>6. InARow(first)
    BY <2>1, <2>2, <2>3, <2>4, <2>5 DEF InARow
  <2>7. AllOf(first) = {} /\ upTo(0) = {}
    BY <2>2, <2>3, <2>4 DEF AllOf
  <2>8. \A k \in 1..1 : Plain(first[k], D)
    BY <2>4, PlainFacts
  <2>9. 1..0 = {}
    OBVIOUS
  <2>10. Pieces(first, upTo(0), D)
    BY <2>1, <2>6, <2>7, <2>8 DEF Pieces
  <2>11. \A j \in 1..1 : \A i \in 1..Len(first[j]) : first[j][i].c \in Blank
    BY <2>1, <2>4, <2>9
  <2> HIDE DEF upTo
  <2> QED BY <2>1, <2>10, <2>11
<1>5. ASSUME NEW k \in 1..n, NEW d, Is(d, k - 1) PROVE Is(new(d, k), k)
  <2> DEFINE l == Len(d)
             cell == t[k]
             Q == upTo(k - 1)
  <2>1. /\ InARow(d) /\ AllOf(d) = Q /\ (\A j \in 1..l : Plain(d[j], D)) /\ l > 0
        /\ k - 1 <= m => \A j \in 1..l : \A i \in 1..Len(d[j]) : d[j][i].c \in Blank
    BY <1>5 DEF Pieces
  <2>2. /\ d \in Seq(T) /\ l \in Nat /\ DOMAIN d = 1..l
        /\ \A j \in 1..l : d[j] \in Seq(Cells) /\ Flow(d[j])
    BY <2>1, RowFacts DEF InARow
  <2>3. upTo(k) = Q \cup PlaceOf(cell)
    <3>1. \A i : i \in 1..k <=> (i \in 1..(k - 1) \/ i = k)
      BY <1>0
    <3> QED BY <3>1
  <2>4. cell \in Cells
    BY <1>1
  <2>5. Before(Q, PlaceOf(cell))
    <3>1. ASSUME NEW i \in 1..(k - 1) PROVE Before(PlaceOf(t[i]), PlaceOf(cell))
      <4>0. i \in 1..n /\ i < k
        BY <1>0
      <4>1. i \in DOMAIN t /\ k \in DOMAIN t /\ i < k
        BY <1>1, <4>0
      <4>2. ASSUME t[i].c \notin Blank, cell.c \notin Blank
            PROVE  t[i].at < cell.at
        <5>1. i \in Words(t) /\ k \in Words(t)
          BY <4>1, <4>2 DEF Words
        <5> QED BY <4>1, <5>1 DEF Flow
      <4> HIDE DEF cell
      <4> QED BY <4>2 DEF Before, PlaceOf
    <3> QED BY <3>1 DEF Before
  <2>6. k <= m => k - 1 <= m /\ cell.c \in Blank
    <3>1. k <= m => k - 1 <= m /\ k \in 1..m
      BY <1>0
    <3> QED BY <1>2, <3>1
  <2> HIDE DEF Q, upTo
  <2>7. CASE cell.c = c
    <3> DEFINE e == Append(d, <<>>)
    <3>1. new(d, k) = e
      BY <2>7
    <3>2. /\ e \in Seq(T) /\ Len(e) = l + 1 /\ e[l + 1] = <<>>
          /\ \A j \in 1..l : e[j] = d[j]
      <4>1. <<>> \in T
        BY EmptyWords
      <4> HIDE DEF T
      <4> QED BY <2>2, <4>1
    <3> HIDE DEF e
    <3>3. DOMAIN e = 1..(l + 1)
      <4> HIDE DEF T
      <4> QED BY <3>2, LenProperties
    <3>4. \A j \in 1..(l + 1) : j = l + 1 \/ j \in 1..l
      BY <2>2
    <3>5. Flow(<<>>) /\ Places(<<>>) = {} /\ Len(<<>>) = 0 /\ Plain(<<>>, D)
      BY EmptyWords, BlankFlow, PlainFacts
    <3>6. \A j \in 1..(l + 1) : Flow(e[j]) /\ Plain(e[j], D)
      BY <2>1, <2>2, <3>2, <3>4, <3>5
    <3>7. ASSUME NEW i \in 1..(l + 1), NEW j \in 1..(l + 1), i < j
          PROVE  Before(Places(e[i]), Places(e[j]))
      <4>1. i \in 1..l
        BY <2>2, <3>7
      <4>2. CASE j = l + 1
        BY <3>2, <3>5, <4>2 DEF Before
      <4>3. CASE j \in 1..l
        BY <2>1, <2>2, <3>2, <3>7, <4>1, <4>3 DEF InARow
      <4> QED BY <3>4, <4>2, <4>3
    <3>8. InARow(e)
      BY <3>2, <3>3, <3>6, <3>7 DEF InARow
    <3>9. AllOf(e) = upTo(k)
      <4>1. PlaceOf(cell) = {}
        BY <1>1, <2>7 DEF PlaceOf
      <4>2. AllOf(e) = AllOf(d)
        <5>1. \A j \in 1..l : j \in 1..(l + 1)
          BY <2>2
        <5> QED BY <2>2, <3>2, <3>3, <3>4, <3>5, <5>1 DEF AllOf
      <4> QED BY <2>1, <2>3, <4>1, <4>2
    <3>10. k <= m => \A j \in 1..(l + 1) : \A i \in 1..Len(e[j]) : e[j][i].c \in Blank
      <4>1. 1..0 = {}
        OBVIOUS
      <4> QED BY <2>1, <2>6, <3>2, <3>4, <3>5, <4>1
    <3>11. l + 1 > 0
      BY <2>2
    <3>12. Pieces(e, upTo(k), D)
      BY <3>2, <3>6, <3>8, <3>9 DEF Pieces
    <3>13. Is(e, k)
      BY <3>2, <3>10, <3>11, <3>12
    <3> HIDE DEF Is, new
    <3> QED BY <3>1, <3>13
  <2>8. CASE cell.c # c
    <3> DEFINE u == Append(d[l], cell)
               e == [d EXCEPT ![l] = u]
    <3>1. new(d, k) = e
      BY <2>8
    <3>2. l \in 1..l
      BY <2>1, <2>2
    <3>3. Flow(d[l]) /\ d[l] \in Seq(Cells) /\ Places(d[l]) \subseteq Q
      <4>1. Flow(d[l]) /\ d[l] \in Seq(Cells)
        BY <2>2, <3>2
      <4>2. Places(d[l]) \subseteq AllOf(d)
        BY <2>2, <3>2 DEF AllOf
      <4> QED BY <2>1, <4>1, <4>2
    <3>4. Before(Places(d[l]), PlaceOf(cell))
      BY <2>5, <3>3 DEF Before
    <3>5. /\ Flow(u) /\ Len(u) = Len(d[l]) + 1
          /\ Places(u) = Places(d[l]) \cup PlaceOf(cell)
      <4> HIDE DEF cell
      <4> QED BY <2>4, <3>3, <3>4, FlowAppend
    <3>6. k <= m => \A i \in 1..Len(u) : u[i].c \in Blank
      <4>1. Len(d[l]) \in Nat /\ u[Len(d[l]) + 1] = cell
            /\ \A i \in 1..Len(d[l]) : u[i] = d[l][i]
        <5> HIDE DEF cell, Cells
        <5> QED BY <2>4, <3>3
      <4>2. \A i \in 1..Len(u) : i = Len(d[l]) + 1 \/ i \in 1..Len(d[l])
        BY <3>5, <4>1
      <4> HIDE DEF u, cell
      <4> QED BY <2>1, <2>6, <3>2, <4>1, <4>2
    <3>7. Plain(u, D)
      <4>1. Plain(d[l], D)
        BY <2>1, <3>2
      <4>2. CASE k <= m
        <5>1. cell.c \in Blank /\ \A i \in 1..Len(d[l]) : d[l][i].c \in Blank
          BY <2>1, <2>6, <3>2, <4>2
        <5> HIDE DEF cell, D
        <5> QED BY <2>4, <3>3, <4>1, <5>1, PlainAppend
      <4>3. CASE ~(k <= m)
        <5>1. k \in (m + 1)..n
          BY <1>0, <4>3
        <5>2. cell.c \notin D
          BY <1>2, <2>8, <5>1
        <5> HIDE DEF cell, D
        <5> QED BY <2>4, <3>3, <4>1, <5>2, PlainAppend
      <4> QED BY <4>2, <4>3
    <3> HIDE DEF u
    <3>8. /\ e \in Seq(T) /\ Len(e) = l /\ e[l] = u
          /\ \A j \in 1..l : j # l => e[j] = d[j]
      <4>1. u \in T
        BY <3>5 DEF Flow
      <4> HIDE DEF T
      <4>2. e \in Seq(T) /\ Len(e) = Len(d)
            /\ \A j \in 1..Len(d) : e[j] = IF j = l THEN u ELSE d[j]
        BY <2>2, <3>2, <4>1, ExceptSeq
      <4> QED BY <3>2, <4>2
    <3> HIDE DEF e
    <3>9. DOMAIN e = 1..l
      <4> HIDE DEF T
      <4> QED BY <3>8, LenProperties
    <3>10. \A j \in 1..l : Flow(e[j]) /\ Plain(e[j], D)
      BY <2>1, <2>2, <3>5, <3>7, <3>8
    <3>11. ASSUME NEW i \in 1..l, NEW j \in 1..l, i < j
           PROVE  Before(Places(e[i]), Places(e[j]))
      <4>0. l \in Nat
        BY <2>2
      <4>1. i # l
        BY <3>11, <4>0
      <4>2. Before(Places(d[i]), Places(d[j]))
        BY <2>1, <2>2, <3>11 DEF InARow
      <4>3. CASE j # l
        BY <3>8, <4>1, <4>2, <4>3
      <4>4. CASE j = l
        <5>1. Places(d[i]) \subseteq Q
          BY <2>1, <2>2 DEF AllOf
        <5>2. Before(Places(d[i]), PlaceOf(cell))
          BY <2>5, <5>1 DEF Before
        <5>3. Before(Places(d[i]), Places(u))
          BY <3>5, <4>2, <4>4, <5>2 DEF Before
        <5> QED BY <3>8, <4>1, <4>4, <5>3
      <4> QED BY <4>3, <4>4
    <3>12. InARow(e)
      BY <3>8, <3>9, <3>10, <3>11 DEF InARow
    <3>13. AllOf(e) = upTo(k)
      <4>1. \A j \in 1..l : Places(e[j]) =
               Places(d[j]) \cup (IF j = l THEN PlaceOf(cell) ELSE {})
        BY <3>5, <3>8
      <4>2. AllOf(e) = AllOf(d) \cup PlaceOf(cell)
        BY <2>2, <3>2, <3>9, <4>1 DEF AllOf
      <4> QED BY <2>1, <2>3, <4>2
    <3>14. k <= m => \A j \in 1..l : \A i \in 1..Len(e[j]) : e[j][i].c \in Blank
      BY <2>1, <2>6, <3>6, <3>8
    <3>15. Pieces(e, upTo(k), D)
      BY <3>8, <3>10, <3>12, <3>13 DEF Pieces
    <3>16. Is(e, k)
      BY <2>1, <3>8, <3>14, <3>15
    <3> HIDE DEF Is, new
    <3> QED BY <3>1, <3>16 DEF e, u
  <2> QED BY <2>7, <2>8
<1>6. \A d, k : Is(d, k) => d \in S
  BY DEF Pieces, InARow
<1> HIDE DEF Is, S, first
<1>7. step \in [(1..n) \X S -> S]
  <2> HIDE DEF new
  <2> QED BY <1>3
<1>8. PICK g \in [0..n -> S] : IsRun(g, n, first, step)
  <2> HIDE DEF n, step
  <2> QED BY <1>1, <1>3, <1>7, RoundsExist
<1>9. g[0] = first
  <2>1. 0 \in 0..n
    BY <1>0
  <2> QED BY <1>8, <2>1 DEF IsRun
<1> HIDE DEF new
<1>10. ASSUME NEW k \in 1..n, Is(g[k - 1], k - 1) PROVE g[k] = new(g[k - 1], k)
  <2>1. k \in 0..n /\ k # 0 /\ k - 1 \in 0..n
    BY <1>0
  <2>2. new(g[k - 1], k) \in S
    BY <1>5, <1>6, <1>10
  <2>3. <<k, g[k - 1]>> \in (1..n) \X S
    BY <1>8, <2>1
  <2>4. step[<<k, g[k - 1]>>] = new(g[k - 1], k)
    BY <2>2, <2>3
  <2> HIDE DEF step
  <2> QED BY <1>8, <2>1, <2>4 DEF IsRun
<1>11. \A k \in 0..n : Is(g[k], k)
  <2> DEFINE G == {k \in 0..n : Is(g[k], k)}
  <2>1. 0 \in G
    BY <1>0, <1>4, <1>9
  <2>2. ASSUME NEW k \in 1..n, k - 1 \in G PROVE k \in G
    <3>1. k \in 0..n /\ g[k] = new(g[k - 1], k) /\ Is(g[k - 1], k - 1)
      BY <1>0, <1>10, <2>2
    <3> QED BY <1>5, <3>1
  <2>3. G \in SUBSET (0..n)
    OBVIOUS
  <2> HIDE DEF G, n
  <2>4. \A k \in 0..n : k \in G
    BY <1>0, <2>1, <2>2, <2>3, UpTo
  <2> QED BY <2>4 DEF G
<1>12. IsCut(g)
  <2>1. ASSUME NEW k \in 0..n PROVE g[k] = IF k = 0 THEN first ELSE new(g[k - 1], k)
    <3>1. CASE k = 0
      BY <1>9, <3>1
    <3>2. CASE k # 0
      <4>1. k \in 1..n /\ k - 1 \in 0..n
        BY <1>0, <3>2
      <4> QED BY <1>10, <1>11, <3>2, <4>1
    <3> QED BY <3>1, <3>2
  <2>2. g = [k \in 0..n |-> g[k]]
    BY <1>8
  <2> QED BY <2>1, <2>2 DEF new
<1> DEFINE cut == CHOOSE h : IsCut(h)
<1>13. SplitAt(t, c) = cut[n]
  BY <1>1 DEF SplitAt, first
<1>14. IsCut(cut)
  <2> HIDE DEF IsCut
  <2> QED BY <1>12, Zenon
<1> HIDE DEF cut, step
<1>15. cut[0] = first /\ \A k \in 1..n : cut[k] = new(cut[k - 1], k)
  <2>1. \A k \in 0..n : cut[k] = IF k = 0 THEN first ELSE new(cut[k - 1], k)
    BY <1>14 DEF new
  <2>2. 0 \in 0..n /\ \A k \in 1..n : k \in 0..n /\ k # 0
    BY <1>0
  <2> QED BY <2>1, <2>2
<1>16. Is(cut[n], n)
  <2> DEFINE G == {k \in 0..n : Is(cut[k], k)}
  <2>1. 0 \in G
    BY <1>0, <1>4, <1>15
  <2>2. ASSUME NEW k \in 1..n, k - 1 \in G PROVE k \in G
    <3>1. k \in 0..n /\ cut[k] = new(cut[k - 1], k) /\ Is(cut[k - 1], k - 1)
      BY <1>0, <1>15, <2>2
    <3> QED BY <1>5, <3>1
  <2>3. G \in SUBSET (0..n)
    OBVIOUS
  <2> HIDE DEF G, n
  <2>4. \A k \in 0..n : k \in G
    BY <1>0, <2>1, <2>2, <2>3, UpTo
  <2> QED BY <1>0, <2>4 DEF G
<1>17. upTo(n) = Places(t)
  <2>1. \A k \in 1..n : k \in Words(t) <=> t[k].c \notin Blank
    BY <1>1 DEF Words
  <2>2. Words(t) \subseteq 1..n
    BY <1>1 DEF Words
  <2> QED BY <2>1, <2>2 DEF PlaceOf, Places
<1>18. Pieces(cut[n], upTo(n), D)
  BY <1>16 DEF Is
<1> HIDE DEF upTo
<1> QED BY <1>13, <1>17, <1>18

(* A text of which only blanks at its ends are no words is words only when *)
(* it is trimmed.                                                          *)
LEMMA PlainTrimmed ==
    ASSUME NEW t \in Seq(Cells), Plain(t, Blank)
    PROVE  \A ch \in Range(TrimSpace(t)) : ch.c = "x"
<1> DEFINE n == Len(t)
           cut == TrimSpace(t)
<1>0. n \in Nat
  BY PlacesCount
<1>1. DOMAIN t = 1..n /\ \A k \in 1..n : t[k] \in Cells
  BY PlacesCount
<1>2. CASE Words(t) = {}
  <2>1. cut = <<>>
    BY <1>2 DEF TrimSpace, Words
  <2>2. DOMAIN <<>> = {}
    OBVIOUS
  <2> QED BY <2>1, <2>2 DEF Range
<1>3. CASE Words(t) # {}
  <2>1. PICK a, b \in Words(t) :
           /\ \A k \in Words(t) : a <= k /\ k <= b
           /\ cut = SubSeq(t, a, b)
    BY <1>3, TrimmedIs
  <2>2. a \in 1..n /\ b \in 1..n /\ a <= b /\ t[a].c \notin Blank
    BY <1>1, <2>1 DEF Words
  <2>3. PICK m \in 0..n : /\ \A i \in 1..m : t[i].c \in Blank
                          /\ \A i \in (m + 1)..n : t[i].c \notin Blank
    BY DEF Plain
  <2>4. m < a
    <3>1. a \notin 1..m
      BY <2>2, <2>3
    <3> QED BY <1>0, <2>2, <3>1
  <2> HIDE DEF cut, n
  <2>5. /\ cut \in Seq(Cells) /\ Len(cut) = b - a + 1
        /\ \A i \in 1..(b - a + 1) : cut[i] = t[a + i - 1]
    <3>1. \A i \in a..b : i \in 1..n
      BY <1>0, <2>2
    <3>2. \A i \in a..b : t[i] \in Cells
      BY <1>1, <3>1
    <3>3. a \in Int /\ b \in Int
      BY <1>0, <2>2
    <3>4. /\ SubSeq(t, a, b) \in Seq(Cells)
          /\ Len(SubSeq(t, a, b)) = IF a <= b THEN b - a + 1 ELSE 0
          /\ \A i \in 1..(b - a + 1) : SubSeq(t, a, b)[i] = t[a + i - 1]
      <4> HIDE DEF Cells
      <4> QED BY <3>2, <3>3, SubSeqProperties
    <3> QED BY <2>1, <2>2, <3>4
  <2>6. DOMAIN cut = 1..(b - a + 1)
    BY <2>5, PlacesCount
  <2>7. ASSUME NEW i \in 1..(b - a + 1) PROVE cut[i].c = "x"
    <3>1. a + i - 1 \in (m + 1)..n /\ a + i - 1 \in 1..n
      BY <1>0, <2>2, <2>4
    <3>2. cut[i] = t[a + i - 1] /\ t[a + i - 1].c \notin Blank
          /\ t[a + i - 1] \in Cells
      BY <1>1, <2>3, <2>5, <3>1
    <3>3. \A cell \in Cells : cell.c \notin Blank => cell.c = "x"
      BY DEF Cells
    <3> QED BY <3>2, <3>3
  <2> QED BY <2>6, <2>7 DEF Range, cut
<1> QED BY <1>2, <1>3

(* A separator that is put back in front of the pieces changes no word.    *)
LEMMA PutBack ==
    ASSUME NEW d, InARow(d), NEW C, NEW sep, Flow(sep), Places(sep) = {},
           \A i \in 1..Len(sep) : sep[i].c \in Blank
    PROVE  LET e == addSeparatorInSplits(d, sep)
           IN /\ InARow(e) /\ AllOf(e) = AllOf(d) /\ Len(e) = Len(d)
              /\ \A k \in 1..Len(d) : Plain(d[k], C) => Plain(e[k], C)
              /\ sep = <<>> => \A k \in 1..Len(d) : e[k] = d[k]
<1> DEFINE n == Len(d)
           T == Seq(Cells)
           e == [k \in DOMAIN d |-> IF k = 1 THEN d[k] ELSE sep \o d[k]]
<1>1. /\ n \in Nat /\ DOMAIN d = 1..n
      /\ \A k \in 1..n : d[k] \in Seq(Cells) /\ Flow(d[k])
  BY RowFacts
<1>2. sep \in Seq(Cells)
  BY DEF Flow
<1>3. ASSUME NEW k \in 1..n
      PROVE  /\ Flow(sep \o d[k]) /\ Places(sep \o d[k]) = Places(d[k])
             /\ sep = <<>> => sep \o d[k] = d[k]
  <2> DEFINE u == d[k]
  <2>1. Flow(u) /\ u \in Seq(Cells)
    BY <1>1
  <2>2. Before(Places(sep), Places(u))
    BY DEF Before
  <2> HIDE DEF u
  <2>3. Flow(sep \o u) /\ Places(sep \o u) = Places(sep) \cup Places(u)
    BY <2>1, <2>2, FlowConcat
  <2>4. sep = <<>> => sep \o u = u
    <3> HIDE DEF Cells
    <3> QED BY <2>1, ConcatEmptySeq
  <2> QED BY <2>3, <2>4 DEF u
<1>4. ASSUME NEW k \in 1..n, Plain(d[k], C) PROVE Plain(sep \o d[k], C)
  <2> DEFINE u == d[k]
             l == Len(u)
             s == Len(sep)
             w == sep \o u
  <2>1. /\ w \in Seq(Cells) /\ Len(w) = s + l /\ s \in Nat /\ l \in Nat
        /\ \A i \in 1..(s + l) : w[i] = IF i <= s THEN sep[i] ELSE u[i - s]
    <3>1. u \in Seq(Cells)
      BY <1>1
    <3> HIDE DEF Cells, u
    <3> QED BY <1>2, <3>1, ConcatProperties, LenProperties
  <2>2. PICK m \in 0..l : /\ \A i \in 1..m : u[i].c \in Blank
                          /\ \A i \in (m + 1)..l : u[i].c \notin C
    BY <1>4 DEF Plain
  <2> HIDE DEF w, u, l, s
  <2>0. s \in Nat /\ l \in Nat
    BY <2>1
  <2>3. s + m \in 0..(s + l)
    BY <2>0
  <2>4. ASSUME NEW i \in 1..(s + m) PROVE w[i].c \in Blank
    <3>1. i \in 1..(s + l) /\ ((i <= s /\ i \in 1..s) \/ (~(i <= s) /\ i - s \in 1..m))
      BY <2>0
    <3> QED BY <2>1, <2>2, <3>1 DEF s
  <2>5. ASSUME NEW i \in (s + m + 1)..(s + l) PROVE w[i].c \notin C
    <3>1. i \in 1..(s + l) /\ ~(i <= s) /\ i - s \in (m + 1)..l
      BY <2>0
    <3> QED BY <2>1, <2>2, <3>1
  <2>6. Plain(w, C)
    BY <2>1, <2>3, <2>4, <2>5 DEF Plain
  <2> QED BY <2>6 DEF w, u
<1>5. /\ e \in Seq(T) /\ Len(e) = n /\ DOMAIN e = 1..n
      /\ \A k \in 1..n : e[k] = IF k = 1 THEN d[k] ELSE sep \o d[k]
  <2>1. \A k \in 1..n : (IF k = 1 THEN d[k] ELSE sep \o d[k]) \in T
    BY <1>1, <1>3 DEF Flow
  <2> HIDE DEF T
  <2>2. e \in [1..n -> T] /\ \A k \in 1..n : e[k] = IF k = 1 THEN d[k] ELSE sep \o d[k]
    BY <1>1, <2>1
  <2> HIDE DEF e, n
  <2> QED BY <1>1, <2>2, ListIsSeq
<1>6. addSeparatorInSplits(d, sep) = e
  BY DEF addSeparatorInSplits
<1> HIDE DEF e, n
<1>7. ASSUME NEW k \in 1..n
      PROVE  /\ Flow(e[k]) /\ Places(e[k]) = Places(d[k])
             /\ Plain(d[k], C) => Plain(e[k], C)
             /\ sep = <<>> => e[k] = d[k]
  <2>1. CASE k = 1
    BY <1>1, <1>5, <2>1
  <2>2. CASE k # 1
    <3>1. e[k] = sep \o d[k]
      BY <1>5, <2>2
    <3> QED BY <1>3, <1>4, <3>1
  <2> QED BY <2>1, <2>2
<1>8. InARow(e)
  <2>1. \A i, j \in 1..n : i < j => Before(Places(e[i]), Places(e[j]))
    BY <1>1, <1>7 DEF InARow
  <2> QED BY <1>5, <1>7, <2>1 DEF InARow, T
<1>9. AllOf(e) = AllOf(d)
  BY <1>1, <1>5, <1>7 DEF AllOf
<1> QED BY <1>5, <1>6, <1>7, <1>8, <1>9 DEF n

LEMMA NoPlaces == 1..0 = {}
OBVIOUS

\* What a text is split to at a separator, with it or without it.
SplitsOf(t, c, o) ==
    IF ~o.keep THEN SplitAt(t, c)
    ELSE addSeparatorInSplits(SplitAt(t, c), Separator(c))

\* A text that has none of the characters C is split to pieces with all its words.
SplitTo(d, t, C, c) ==
    /\ InARow(d) /\ AllOf(d) = Places(t)
    /\ c # "" => \A k \in 1..Len(d) : Plain(d[k], C \cup {c})
    /\ c = "" => \A k \in 1..Len(d) : Len(d[k]) = 1

LEMMA SplitsWell ==
    ASSUME NEW t, Flow(t), NEW C, Plain(t, C), NEW c \in {"", " ", "nl"}, NEW o
    PROVE  SplitTo(SplitsOf(t, c, o), t, C, c)
<1> DEFINE sep == Separator(c)
           d == SplitAt(t, c)
           e == addSeparatorInSplits(d, sep)
<1>1. /\ Flow(sep) /\ Places(sep) = {} /\ (c = "" => sep = <<>>)
      /\ \A i \in 1..Len(sep) : sep[i].c \in Blank
  <2>1. Flow(sep) /\ Places(sep) = {}
    BY SeparatorFlow
  <2>2. CASE c = ""
    <3>1. sep = <<>>
      BY <2>2 DEF Separator
    <3>2. Len(<<>>) = 0
      BY EmptyWords
    <3>3. 1..0 = {}
      BY NoPlaces
    <3> HIDE DEF sep
    <3> QED BY <2>1, <3>1, <3>2, <3>3
  <2>3. CASE c # ""
    <3> DEFINE cell == Char(c, 0)
    <3>1. cell \in Cells /\ cell.c \in Blank /\ sep = <<cell>>
      BY <2>3 DEF Cells, Char, Blank, Separator
    <3> HIDE DEF cell, sep
    <3>2. Len(<<cell>>) = 1 /\ <<cell>>[1] = cell
      BY <3>1, OneOf
    <3> QED BY <2>1, <2>3, <3>1, <3>2, OneInOne
  <2> QED BY <2>2, <2>3
<1>2. /\ InARow(d) /\ AllOf(d) = Places(t)
      /\ c # "" => \A k \in 1..Len(d) : Plain(d[k], C \cup {c})
      /\ c = "" => \A k \in 1..Len(d) : Len(d[k]) = 1
  <2>1. CASE c = ""
    BY <2>1, CutEach
  <2>2. CASE c # ""
    <3>1. c \in Blank
      BY <2>2 DEF Blank
    <3>2. Pieces(d, Places(t), C \cup {c})
      BY <3>1, CutAt
    <3> HIDE DEF d
    <3> QED BY <2>2, <3>2 DEF Pieces
  <2> QED BY <2>1, <2>2
<1> HIDE DEF sep, d
<1>3. /\ InARow(e) /\ AllOf(e) = AllOf(d) /\ Len(e) = Len(d)
      /\ \A k \in 1..Len(d) : Plain(d[k], C \cup {c}) => Plain(e[k], C \cup {c})
      /\ sep = <<>> => \A k \in 1..Len(d) : e[k] = d[k]
  <2> DEFINE D == C \cup {c}
  <2> HIDE DEF D
  <2>1. InARow(d)
    BY <1>2
  <2>2. Flow(sep)
    BY <1>1
  <2>3. Places(sep) = {}
    BY <1>1
  <2>4. \A i \in 1..Len(sep) : sep[i].c \in Blank
    BY <1>1
  <2>5. LET f == addSeparatorInSplits(d, sep)
        IN /\ InARow(f) /\ AllOf(f) = AllOf(d) /\ Len(f) = Len(d)
           /\ \A k \in 1..Len(d) : Plain(d[k], D) => Plain(f[k], D)
           /\ sep = <<>> => \A k \in 1..Len(d) : f[k] = d[k]
    BY <2>1, <2>2, <2>3, <2>4, PutBack, Zenon
  <2> QED BY <2>5 DEF D
<1> HIDE DEF e
<1>4. SplitsOf(t, c, o) = IF ~o.keep THEN d ELSE e
  BY DEF SplitsOf, d, e, sep
<1> QED BY <1>1, <1>2, <1>3, <1>4 DEF SplitTo

-----------------------------------------------------------------------------
(* TextSplit: splitting at one separator after the other.                  *)

LEMMA ToThree ==
    /\ \A k \in 1..3 : k = 1 \/ k = 2 \/ k = 3
    /\ (\A k \in 1..2 : k = 1 \/ k = 2) /\ 1 \in 1..2 /\ 2 \in 1..2
OBVIOUS

LEMMA ThreeOf ==
    ASSUME NEW a, NEW b, NEW c
    PROVE  LET s == <<a, b, c>>
           IN Len(s) = 3 /\ DOMAIN s = 1..3 /\ s[1] = a /\ s[2] = b /\ s[3] = c
OBVIOUS

LEMMA TwoOf ==
    ASSUME NEW a, NEW b
    PROVE  LET s == <<a, b>> IN Len(s) = 2 /\ DOMAIN s = 1..2 /\ s[1] = a /\ s[2] = b
OBVIOUS

(* The lists of separators that there are.                                 *)
LEMMA SeparatorsAre ==
    ASSUME NEW s \in SeparatorLists
    PROVE  /\ Len(s) \in Nat /\ Len(s) > 0 /\ DOMAIN s = 1..Len(s)
           /\ \A k \in 1..Len(s) : s[k] \in {"", " ", "nl"}
           /\ \A k \in 1..Len(s) : s[k] = "" => k = Len(s)
           /\ s[Len(s)] # "" => /\ "" \notin Range(s)
                                /\ Blank \subseteq {s[k] : k \in 1..Len(s)}
<1>1. CASE s = <<"nl", " ", "">>
  <2>1. /\ Len(s) = 3 /\ DOMAIN s = 1..3
        /\ s[1] = "nl" /\ s[2] = " " /\ s[3] = ""
    <3> DEFINE a == "nl"
               b == " "
               c == ""
    <3>1. s = <<a, b, c>>
      BY <1>1
    <3> HIDE DEF a, b, c
    <3>2. Len(s) = 3 /\ DOMAIN s = 1..3 /\ s[1] = a /\ s[2] = b /\ s[3] = c
      BY <3>1, ThreeOf
    <3> QED BY <3>2 DEF a, b, c
  <2>2. \A k \in 1..3 : k = 1 \/ k = 2 \/ k = 3
    BY ToThree
  <2>3. 3 \in Nat /\ 3 > 0
    BY ToThree
  <2> QED BY <2>1, <2>2, <2>3
<1>2. CASE s = <<"nl", " ">>
  <2>1. Len(s) = 2 /\ DOMAIN s = 1..2 /\ s[1] = "nl" /\ s[2] = " "
    BY <1>2, TwoOf, Zenon
  <2>2. (\A k \in 1..2 : k = 1 \/ k = 2) /\ 1 \in 1..2 /\ 2 \in 1..2
    BY ToThree
  <2>3. 2 \in Nat /\ 2 > 0
    BY ToThree
  <2>4. \A k \in 1..2 : s[k] \in {" ", "nl"}
    BY <2>1, <2>2
  <2>5. "" \notin Range(s)
    BY <2>1, <2>4 DEF Range
  <2>6. Blank \subseteq {s[k] : k \in 1..2}
    BY <2>1, <2>2 DEF Blank
  <2> QED BY <2>1, <2>3, <2>4, <2>5, <2>6
<1> QED BY <1>1, <1>2 DEF SeparatorLists

\* What a text is split at, of the separators from the i-th on.
FirstUsed(text, s, i) ==
    LET usable == Usable(text, s, i)
    IN IF usable = {} THEN Len(s) ELSE Min(usable)

LEMMA FirstUsedIs ==
    ASSUME NEW s \in SeparatorLists, NEW i \in 1..Len(s), NEW text
    PROVE  LET c == FirstUsed(text, s, i)
           IN /\ c \in i..Len(s)
              /\ \A j \in i..(c - 1), k \in DOMAIN text : text[k].c # s[j]
              /\ Usable(text, s, i) = {} => c = Len(s)
<1> DEFINE n == Len(s)
           usable == Usable(text, s, i)
           c == FirstUsed(text, s, i)
<1>1. n \in Nat /\ i \in Nat /\ i <= n
  <2>1. n \in Nat
    BY SeparatorsAre
  <2> HIDE DEF n, usable, c
  <2>2. i \in 1..n
    BY DEF n
  <2> QED BY <2>1, <2>2
<1>2. \A j \in i..n : j \notin usable => \A k \in DOMAIN text : text[k].c # s[j]
  BY DEF Usable
<1>3. usable \subseteq i..n
  BY DEF Usable
<1>4. CASE usable = {}
  <2>1. c = n
    BY <1>4 DEF FirstUsed
  <2>2. \A j \in i..(n - 1) : j \in i..n
    BY <1>1
  <2>3. n \in i..n
    BY <1>1
  <2>4. \A j \in i..(n - 1), k \in DOMAIN text : text[k].c # s[j]
    BY <1>2, <1>4, <2>2
  <2> HIDE DEF c, n, usable
  <2>5. /\ c \in i..n /\ (usable = {} => c = n)
        /\ \A j \in i..(c - 1), k \in DOMAIN text : text[k].c # s[j]
    BY <2>1, <2>3, <2>4
  <2> QED BY <2>5 DEF c, n, usable
<1>5. CASE usable # {}
  <2>1. c = Min(usable)
    BY <1>5 DEF FirstUsed
  <2> HIDE DEF c, usable
  <2>2. \A j \in i..n : j \in Nat
    BY <1>1
  <2>3. \E x \in usable : \A y \in usable : x <= y
    BY <1>3, <1>5, <2>2, LeastOf
  <2>4. c \in usable /\ \A y \in usable : c <= y
    BY <2>1, <2>3, Zenon DEF Min
  <2>5. c \in i..n
    BY <1>3, <2>4
  <2>6. ASSUME NEW j \in i..(c - 1) PROVE j \in i..n /\ j \notin usable
    <3>1. j \in i..n /\ ~(c <= j)
      BY <1>1, <2>5
    <3> QED BY <2>4, <3>1
  <2> HIDE DEF n
  <2>7. \A j \in i..(c - 1), k \in DOMAIN text : text[k].c # s[j]
    BY <1>2, <2>6
  <2> QED BY <1>5, <2>5, <2>7 DEF c, n, usable
<1> QED BY <1>4, <1>5

\* What is made of the pieces that are too long, by the rounds behind the i-th.
AgainOf(h, text, s, i, o) ==
    LET c == FirstUsed(text, s, i)
        splits == SplitsOf(text, s[c], o)
    IN [k \in DOMAIN splits |->
           IF Usable(text, s, i) = {} \/ c = Len(s) THEN <<splits[k]>>
           ELSE h[c + 1][splits[k]]]

\* The splitting with the separators from the i-th on, by the rounds behind it.
SplitRound(h, i, s, o) ==
    [text \in Seq(Cells) |->
        LET c == FirstUsed(text, s, i)
        IN Mixed(SplitsOf(text, s[c], o), AgainOf(h, text, s, i, o),
                           IF o.keep THEN <<>> ELSE Separator(s[c]), o)]

IsSplit(h, s, o) == h = [i \in 1..Len(s) |-> SplitRound(h, i, s, o)]

(* A round depends on those behind it only.                                *)
LEMMA RoundBehind ==
    ASSUME NEW s \in SeparatorLists, NEW i \in 1..Len(s), NEW o, NEW g, NEW h,
           \A k \in (i + 1)..Len(s) : g[k] = h[k]
    PROVE  SplitRound(g, i, s, o) = SplitRound(h, i, s, o)
<1>1. ASSUME NEW text \in Seq(Cells) PROVE AgainOf(g, text, s, i, o) = AgainOf(h, text, s, i, o)
  <2> DEFINE c == FirstUsed(text, s, i)
  <2>1. c \in i..Len(s)
    BY FirstUsedIs
  <2> HIDE DEF c
  <2> DEFINE n == Len(s)
  <2>2. n \in Nat
    BY SeparatorsAre
  <2> HIDE DEF n
  <2>3. c # n => c + 1 \in (i + 1)..n
    <3>1. c \in i..n /\ i \in 1..n
      BY <2>1 DEF n
    <3> QED BY <2>2, <3>1
  <2>4. c # Len(s) => g[c + 1] = h[c + 1]
    BY <2>3 DEF n
  <2> QED BY <2>4 DEF AgainOf, c
<1> QED BY <1>1 DEF SplitRound

(* There are such rounds.                                                  *)
LEMMA SplitExists ==
    ASSUME NEW s \in SeparatorLists, NEW o
    PROVE  \E h : IsSplit(h, s, o)
<1> DEFINE n == Len(s)
           From(h, m) == /\ h = [i \in 1..n |-> h[i]]
                         /\ \A i \in (n - m + 1)..n : h[i] = SplitRound(h, i, s, o)
           G == {m \in 0..n : \E h : From(h, m)}
<1>0. n \in Nat
  BY SeparatorsAre
<1>1. 0 \in G
  <2> DEFINE h == [i \in 1..n |-> <<>>]
  <2>1. h = [i \in 1..n |-> h[i]]
    OBVIOUS
  <2>2. (n - 0 + 1)..n = {} /\ 0 \in 0..n
    BY <1>0
  <2> HIDE DEF h, n
  <2>3. From(h, 0)
    BY <2>1, <2>2
  <2> QED BY <2>2, <2>3
<1>2. ASSUME NEW m \in 1..n, m - 1 \in G PROVE m \in G
  <2> DEFINE j == n - m + 1
  <2>0. /\ j \in 1..n /\ m \in 0..n /\ n - (m - 1) + 1 = j + 1
        /\ \A i \in j..n : /\ i \in 1..n /\ (i = j \/ i \in (j + 1)..n)
                           /\ \A k \in (i + 1)..n : k \in 1..n /\ k # j
    BY <1>0
  <2>1. PICK h : From(h, m - 1)
    BY <1>2
  <2> DEFINE g == [i \in 1..n |-> IF i = j THEN SplitRound(h, j, s, o) ELSE h[i]]
  <2> HIDE DEF j
  <2>2. \A i \in (j + 1)..n : h[i] = SplitRound(h, i, s, o)
    BY <2>0, <2>1
  <2>3. g = [i \in 1..n |-> g[i]] /\ \A i \in 1..n : g[i] = IF i = j THEN SplitRound(h, j, s, o) ELSE h[i]
    OBVIOUS
  <2> HIDE DEF g
  <2>4. ASSUME NEW i \in j..n PROVE g[i] = SplitRound(g, i, s, o)
    <3>1. i \in 1..n /\ \A k \in (i + 1)..n : g[k] = h[k]
      BY <2>0, <2>3
    <3>2. SplitRound(g, i, s, o) = SplitRound(h, i, s, o)
      BY <3>1, RoundBehind
    <3>3. g[i] = SplitRound(h, i, s, o)
      BY <2>0, <2>2, <2>3
    <3> QED BY <3>2, <3>3
  <2> HIDE DEF n
  <2>5. From(g, m)
    BY <2>3, <2>4 DEF j
  <2> QED BY <2>0, <2>5
<1>3. G \in SUBSET (0..n)
  OBVIOUS
<1> HIDE DEF G
<1>4. \A m \in 0..n : m \in G
  <2> HIDE DEF n
  <2> QED BY <1>0, <1>1, <1>2, <1>3, UpTo
<1>5. n \in 0..n /\ (n - n + 1)..n = 1..n
  BY <1>0
<1>6. PICK h : From(h, n)
  BY <1>4, <1>5 DEF G
<1>7. h = [i \in 1..n |-> SplitRound(h, i, s, o)]
  BY <1>5, <1>6
<1> QED BY <1>7 DEF IsSplit

\* The separators before the i-th.
Gone(s, i) == {s[j] : j \in 1..(i - 1)}

\* Texts without the separators before the i-th are split well from it on.
SplitsFrom(h, i, o) ==
    \A text : Flow(text) /\ Plain(text, Gone(o.separators, i))
                 => Chunked(h[i][text], Places(text), o)

(* A text that has none of the separators before the chosen one.           *)
LEMMA PlainFirstUsed ==
    ASSUME NEW s \in SeparatorLists, NEW i \in 1..Len(s),
           NEW text \in Seq(Cells), Plain(text, Gone(s, i))
    PROVE  Plain(text, Gone(s, FirstUsed(text, s, i)))
<1> DEFINE n == Len(s)
           l == Len(text)
           c == FirstUsed(text, s, i)
<1>0. n \in Nat
  BY SeparatorsAre
<1>1. l \in Nat /\ DOMAIN text = 1..l
  BY PlacesCount
<1>2. c \in i..n /\ \A j \in i..(c - 1), k \in DOMAIN text : text[k].c # s[j]
  BY FirstUsedIs
<1>3. PICK m \in 0..l : /\ \A k \in 1..m : text[k].c \in Blank
                        /\ \A k \in (m + 1)..l : text[k].c \notin Gone(s, i)
  BY DEF Plain
<1>4. i \in 1..n
  OBVIOUS
<1> HIDE DEF c, n, l
<1>5. \A j \in 1..(c - 1) : j \in 1..(i - 1) \/ j \in i..(c - 1)
  BY <1>0, <1>2, <1>4
<1>6. \A k \in (m + 1)..l : k \in 1..l
  BY <1>1
<1>7. \A k \in (m + 1)..l : text[k].c \notin Gone(s, c)
  BY <1>1, <1>2, <1>3, <1>5, <1>6 DEF Gone
<1> QED BY <1>3, <1>7 DEF Plain, c, l

LEMMA OneFits == \A n \in Nat : 1 <= n + 1
OBVIOUS

LEMMA LastOrBefore == \A n \in Nat : \A k \in 1..n : k \in 1..(n - 1) \/ k = n
OBVIOUS

LEMMA GoneNext ==
    ASSUME NEW s, NEW c \in Nat, c > 0
    PROVE  Gone(s, c) \cup {s[c]} = Gone(s, c + 1)
<1>1. \A j : j \in 1..(c + 1 - 1) <=> (j \in 1..(c - 1) \/ j = c)
  OBVIOUS
<1> QED BY <1>1 DEF Gone

(* A piece that there is nothing to split at.                              *)
LEMMA LastFits ==
    ASSUME NEW o, Options(o), NEW d, Flow(d), NEW s, s = o.separators, s \in SeparatorLists,
           s[Len(s)] = "" => Len(d) = 1,
           s[Len(s)] # "" => Plain(d, Gone(s, Len(s)) \cup {s[Len(s)]})
    PROVE  Chunked(<<d>>, Places(d), o)
<1> DEFINE n == Len(s)
           l == Len(d)
<1>1. CASE s[n] = ""
  <2>1. l = 1
    BY <1>1
  <2>2. o.size \in Nat
    BY DEF Options
  <2>3. l <= o.size + 1
    BY <2>1, <2>2, OneFits
  <2>4. Fits(d, o)
    BY <2>3 DEF Fits
  <2> QED BY <2>4, ChunkedOne
<1>2. CASE s[n] # ""
  <2>1. /\ "" \notin Range(s)
        /\ Blank \subseteq {s[k] : k \in 1..n}
    BY <1>2, SeparatorsAre
  <2>2. n \in Nat /\ n > 0
    BY SeparatorsAre
  <2> HIDE DEF n
  <2>3. \A k \in 1..n : k \in 1..(n - 1) \/ k = n
    BY <2>2, LastOrBefore
  <2>4. Blank \subseteq Gone(s, n) \cup {s[n]}
    BY <2>1, <2>3 DEF Gone
  <2>5. Plain(d, Gone(s, n) \cup {s[n]})
    BY <1>2 DEF n
  <2>6. Plain(d, Blank)
    BY <2>4, <2>5 DEF Plain
  <2>7. d \in Seq(Cells)
    BY DEF Flow
  <2>8. \A ch \in Range(TrimSpace(d)) : ch.c = "x"
    BY <2>6, <2>7, PlainTrimmed
  <2>9. Fits(d, o)
    BY <2>1, <2>8 DEF Fits
  <2> QED BY <2>9, ChunkedOne
<1> QED BY <1>1, <1>2

(* A round splits well if those behind it do.                              *)
LEMMA SplitStep ==
    ASSUME NEW o, Options(o), NEW i \in 1..Len(o.separators), NEW h,
           \A j \in (i + 1)..Len(o.separators) : SplitsFrom(h, j, o),
           NEW text, Flow(text), Plain(text, Gone(o.separators, i))
    PROVE  Chunked(SplitRound(h, i, o.separators, o)[text], Places(text), o)
<1> DEFINE s == o.separators
           n == Len(s)
           c == FirstUsed(text, s, i)
           d == SplitsOf(text, s[c], o)
           again == AgainOf(h, text, s, i, o)
           sep == IF o.keep THEN <<>> ELSE Separator(s[c])
           none == Usable(text, s, i) = {}
<1>1. text \in Seq(Cells)
  BY DEF Flow
<1>2. SplitRound(h, i, s, o)[text] = Mixed(d, again, sep, o)
  BY <1>1 DEF SplitRound
<1>3. s \in SeparatorLists
  BY DEF Options
<1>4. /\ n \in Nat /\ \A k \in 1..n : s[k] \in {"", " ", "nl"}
      /\ \A k \in 1..n : s[k] = "" => k = n
  BY <1>3, SeparatorsAre
<1>0. n \in Nat
  BY <1>4
<1>5. c \in i..n /\ (none => c = n)
  BY <1>3, FirstUsedIs
<1>6. c \in 1..n /\ (c # n => c + 1 \in (i + 1)..n)
  <2>1. i \in 1..n /\ c \in i..n
    BY <1>5
  <2> HIDE DEF c, n
  <2> QED BY <1>0, <2>1
<1>7. Plain(text, Gone(s, c))
  BY <1>1, <1>3, PlainFirstUsed
<1> HIDE DEF c, none
<1>8. s[c] \in {"", " ", "nl"}
  BY <1>4, <1>6
<1>9. /\ InARow(d) /\ AllOf(d) = Places(text)
      /\ s[c] # "" => \A k \in 1..Len(d) : Plain(d[k], Gone(s, c) \cup {s[c]})
      /\ s[c] = "" => \A k \in 1..Len(d) : Len(d[k]) = 1
  <2> DEFINE C == Gone(s, c)
             e == s[c]
  <2>1. Plain(text, C)
    BY <1>7
  <2>3. e \in {"", " ", "nl"}
    BY <1>8
  <2>4. Flow(text)
    OBVIOUS
  <2> HIDE DEF C, e, d, again, sep
  <2>2. SplitTo(SplitsOf(text, e, o), text, C, e)
    BY <2>1, <2>3, <2>4, SplitsWell
  <2> QED BY <2>2 DEF C, e, d, SplitTo
<1>10. Gone(s, c) \cup {s[c]} = Gone(s, c + 1)
  <2>1. c \in Nat /\ c > 0
    <3>1. c \in 1..n
      BY <1>6
    <3> HIDE DEF n
    <3> QED BY <1>0, <3>1
  <2> QED BY <2>1, GoneNext
<1>11. again = [k \in DOMAIN d |-> IF none \/ c = n THEN <<d[k]>> ELSE h[c + 1][d[k]]]
  BY DEF AgainOf, c, none
<1> HIDE DEF d, again
<1>12. /\ DOMAIN d = 1..Len(d)
       /\ \A k \in 1..Len(d) : d[k] \in Seq(Cells) /\ Flow(d[k])
  BY <1>9, RowFacts
<1>13. ASSUME NEW k \in 1..Len(d) PROVE Chunked(again[k], Places(d[k]), o)
  <2> DEFINE u == d[k]
  <2>1. Flow(u)
    BY <1>12
  <2>2. CASE none \/ c = n
    <3>1. c = n
      BY <1>5, <2>2
    <3>2. again[k] = <<u>>
      BY <1>11, <1>12, <2>2
    <3>3. s[n] = "" => Len(u) = 1
      BY <1>9, <3>1
    <3>4. s[n] # "" => Plain(u, Gone(s, n) \cup {s[n]})
      BY <1>9, <3>1
    <3> HIDE DEF u, s
    <3>5. s = o.separators
      BY DEF s
    <3>6. Chunked(<<u>>, Places(u), o)
      BY <1>3, <2>1, <3>3, <3>4, <3>5, LastFits
    <3> QED BY <3>2, <3>6 DEF u
  <2>3. CASE ~(none \/ c = n)
    <3>1. c # n /\ c + 1 \in (i + 1)..n
      BY <1>6, <2>3
    <3>2. s[c] # ""
      BY <1>4, <1>6, <3>1
    <3>3. Plain(u, Gone(s, c + 1))
      BY <1>9, <1>10, <3>2
    <3>4. SplitsFrom(h, c + 1, o)
      BY <3>1
    <3>5. Chunked(h[c + 1][u], Places(u), o)
      BY <2>1, <3>3, <3>4 DEF SplitsFrom
    <3>6. again[k] = h[c + 1][u]
      BY <1>11, <1>12, <2>3
    <3> QED BY <3>5, <3>6
  <2> QED BY <2>2, <2>3
<1>14. Flow(sep) /\ Places(sep) = {} /\ Len(sep) \in {0, 1}
  <2>1. CASE o.keep
    <3>1. sep = <<>> /\ Words(<<>>) = {} /\ Len(<<>>) = 0 /\ <<>> \in Seq(Cells)
      BY <2>1, EmptyWords
    <3> QED BY <3>1, BlankFlow
  <2>2. CASE ~o.keep
    BY <1>8, <2>2, SeparatorFlow
  <2> QED BY <2>1, <2>2
<1> HIDE DEF sep
<1>15. Chunked(Mixed(d, again, sep, o), AllOf(d), o)
  BY <1>9, <1>13, <1>14, MixedChunks
<1> QED BY <1>2, <1>9, <1>15

(* The chunks of a text.                                                   *)
LEMMA SplitWell ==
    ASSUME NEW o, Options(o), NEW text, Flow(text)
    PROVE  Chunked(splitText(text, o.separators, o), Places(text), o)
<1> DEFINE s == o.separators
           n == Len(s)
           h == CHOOSE g : IsSplit(g, s, o)
           G == {m \in 0..n : \A i \in (n - m + 1)..n : SplitsFrom(h, i, o)}
<1>1. s \in SeparatorLists
  BY DEF Options
<1>2. n \in Nat /\ n > 0
  BY <1>1, SeparatorsAre
<1>3. IsSplit(h, s, o)
  <2>1. \E g : IsSplit(g, s, o)
    BY <1>1, SplitExists
  <2> QED BY <2>1, Zenon
<1>4. splitText(text, s, o) = h[1][text]
  BY DEF splitText, IsSplit, SplitRound, FirstUsed, AgainOf, SplitsOf, Cells
<1> HIDE DEF h
<1>5. \A i \in 1..n : h[i] = SplitRound(h, i, s, o)
  BY <1>3 DEF IsSplit
<1>6. 0 \in G
  <2> HIDE DEF n
  <2>1. 0 \in 0..n /\ (n - 0 + 1)..n = {}
    BY <1>2
  <2> QED BY <2>1
<1>7. ASSUME NEW m \in 1..n, m - 1 \in G PROVE m \in G
  <2> DEFINE j == n - m + 1
  <2>0. /\ j \in 1..n /\ m \in 0..n /\ n - (m - 1) + 1 = j + 1
        /\ \A i \in j..n : i = j \/ i \in (j + 1)..n
    <3>1. m \in 1..n
      OBVIOUS
    <3> HIDE DEF n, G
    <3> QED BY <1>2, <3>1
  <2>1. \A i \in (j + 1)..n : SplitsFrom(h, i, o)
    BY <1>7, <2>0
  <2> HIDE DEF j
  <2>2. SplitsFrom(h, j, o)
    <3>1. ASSUME NEW t, Flow(t), Plain(t, Gone(s, j))
          PROVE  Chunked(h[j][t], Places(t), o)
      <4>1. Chunked(SplitRound(h, j, s, o)[t], Places(t), o)
        BY <2>0, <2>1, <3>1, SplitStep
      <4> QED BY <1>5, <2>0, <4>1
    <3> QED BY <3>1 DEF SplitsFrom
  <2>3. \A i \in j..n : SplitsFrom(h, i, o)
    BY <2>0, <2>1, <2>2
  <2> QED BY <2>0, <2>3 DEF j
<1>8. G \in SUBSET (0..n)
  OBVIOUS
<1> HIDE DEF G
<1>9. \A m \in 0..n : m \in G
  <2> HIDE DEF n
  <2> QED BY <1>2, <1>6, <1>7, <1>8, UpTo
<1>10. n \in 0..n /\ 1 \in (n - n + 1)..n
  <2> HIDE DEF n
  <2> QED BY <1>2
<1>11. SplitsFrom(h, 1, o)
  BY <1>9, <1>10 DEF G
<1>12. Plain(text, Gone(s, 1))
  <2>1. 1..(1 - 1) = {} /\ 1..0 = {}
    BY NoPlaces
  <2>2. Gone(s, 1) = {}
    BY <2>1 DEF Gone
  <2>3. Len(text) \in Nat
    BY PlacesCount DEF Flow
  <2>4. 0 \in 0..Len(text)
    BY <2>3
  <2> QED BY <2>1, <2>2, <2>4 DEF Plain
<1> QED BY <1>4, <1>11, <1>12 DEF SplitsFrom

-----------------------------------------------------------------------------
(* TextSplit: the chunks of tokens.                                        *)

LEMMA LesserOf ==
    ASSUME NEW a \in Nat, NEW b \in Nat
    PROVE  Min({a, b}) = IF a <= b THEN a ELSE b
<1> DEFINE S == {a, b}
           m == Min(S)
<1>1. \E x \in S : \A y \in S : x <= y
  OBVIOUS
<1>2. m \in S /\ \A y \in S : m <= y
  <2> HIDE DEF S
  <2> QED BY <1>1, Zenon DEF Min
<1> HIDE DEF m
<1> QED BY <1>2 DEF m

Pair == [from : Nat, to : Nat]

\* The chunks of the tokens up to the last-th, when the next one begins there.
CutTo(chunk, start, tokens, size) ==
    /\ chunk \in Seq(Pair)
    /\ \A i \in 1..Len(chunk) :
          /\ chunk[i].from >= 1 /\ chunk[i].to <= tokens
          /\ chunk[i].to - chunk[i].from < size
    /\ \A p \in 1..tokens : p <= start =>
          \E i \in 1..Len(chunk) : p \in chunk[i].from..chunk[i].to

(* One chunk more.                                                         *)
LEMMA CutMore ==
    ASSUME NEW tokens \in Nat, NEW size \in Nat, NEW overlap \in Nat, overlap < size,
           NEW start \in Nat, start < tokens, NEW cs, CutTo(cs, start, tokens, size)
    PROVE  LET to == Min({start + size, tokens})
           IN CutTo(Append(cs, [from |-> start + 1, to |-> to]), start + size - overlap,
                    tokens, size)
<1> DEFINE to == Min({start + size, tokens})
           new == [from |-> start + 1, to |-> to]
           ds == Append(cs, new)
           n == Len(cs)
<1>1. to \in Nat /\ to = IF start + size <= tokens THEN start + size ELSE tokens
  BY LesserOf
<1> HIDE DEF to
<1>2. new \in Pair /\ new.from = start + 1 /\ new.to = to
  BY <1>1 DEF Pair
<1> HIDE DEF new
<1>3. /\ n \in Nat /\ ds \in Seq(Pair) /\ Len(ds) = n + 1 /\ ds[n + 1] = new
      /\ \A i \in 1..n : ds[i] = cs[i]
  <2>1. cs \in Seq(Pair)
    BY DEF CutTo
  <2> HIDE DEF Pair
  <2> QED BY <1>2, <2>1
<1> HIDE DEF ds, n
<1>4. \A i \in 1..(n + 1) : i \in 1..n \/ i = n + 1
  BY <1>3
<1>5. new.from >= 1 /\ new.to <= tokens /\ new.to - new.from < size
  BY <1>1, <1>2
<1>6. \A i \in 1..(n + 1) : /\ ds[i].from >= 1 /\ ds[i].to <= tokens
                            /\ ds[i].to - ds[i].from < size
  <2>1. \A i \in 1..n : /\ cs[i].from >= 1 /\ cs[i].to <= tokens
                        /\ cs[i].to - cs[i].from < size
    BY DEF CutTo, n
  <2> QED BY <1>3, <1>4, <1>5, <2>1
<1>7. ASSUME NEW p \in 1..tokens, p <= start + size - overlap
      PROVE  \E i \in 1..(n + 1) : p \in ds[i].from..ds[i].to
  <2>1. CASE p <= start
    <3>1. PICK i \in 1..n : p \in cs[i].from..cs[i].to
      BY <2>1 DEF CutTo, n
    <3>2. i \in 1..(n + 1)
      BY <1>3
    <3> QED BY <1>3, <3>1, <3>2
  <2>2. CASE ~(p <= start)
    <3>1. p \in (start + 1)..to
      BY <1>1, <1>7, <2>2
    <3>2. n + 1 \in 1..(n + 1)
      BY <1>3
    <3> QED BY <1>2, <1>3, <3>1, <3>2
  <2> QED BY <2>1, <2>2
<1>8. CutTo(ds, start + size - overlap, tokens, size)
  BY <1>3, <1>6, <1>7 DEF CutTo
<1> QED BY <1>8 DEF ds, new, to

(* The chunks of tokens leave none out, and each is of the size.           *)
LEMMA TokensCut ==
    ASSUME NEW tokens \in Nat, NEW o, o.size \in Nat, o.overlap \in Nat,
           tokens = 0 \/ o.overlap < o.size
    PROVE  CutTo(TokenChunks(tokens, o), tokens, tokens, o.size)
<1> DEFINE size == o.size
           overlap == o.overlap
           State == [start : Nat, chunks : Seq(Pair)]
           first == [start |-> 0, chunks |-> <<>>]
           next(m) == [start |-> m.start + size - overlap,
                       chunks |-> Append(m.chunks, [from |-> m.start + 1,
                                                    to |-> Min({m.start + size, tokens})])]
           new(m) == IF m.start >= tokens THEN m ELSE next(m)
           IsRounds(g) == g = [n \in 0..tokens |-> IF n = 0 THEN first ELSE new(g[n - 1])]
           step == [x \in (1..tokens) \X State |-> IF new(x[2]) \in State THEN new(x[2]) ELSE first]
           Is(m, k) == /\ m \in State /\ CutTo(m.chunks, m.start, tokens, size)
                       /\ m.start >= tokens \/ m.start >= k
<1>1. size \in Nat /\ overlap \in Nat /\ (tokens = 0 \/ overlap < size)
  OBVIOUS
<1>2. TokenChunks(tokens, o) = (CHOOSE g : IsRounds(g))[tokens].chunks
  BY DEF TokenChunks
<1> HIDE DEF size, overlap
<1>3. first \in State /\ Is(first, 0)
  <2>1. <<>> \in Seq(Pair) /\ Len(<<>>) = 0
    <3> HIDE DEF Pair
    <3> QED BY EmptySeq
  <2>2. first \in State /\ first.start = 0 /\ first.chunks = <<>>
    BY <2>1
  <2> HIDE DEF first, State
  <2>3. 1..0 = {} /\ \A p \in 1..tokens : ~(p <= 0)
    OBVIOUS
  <2>4. CutTo(<<>>, 0, tokens, size)
    BY <2>1, <2>3 DEF CutTo
  <2> QED BY <2>2, <2>4
<1>4. ASSUME NEW k \in 1..tokens, NEW m, Is(m, k - 1) PROVE new(m) \in State /\ Is(new(m), k)
  <2>1. m.start \in Nat /\ m.chunks \in Seq(Pair) /\ CutTo(m.chunks, m.start, tokens, size)
    BY <1>4
  <2>2. CASE m.start >= tokens
    BY <1>4, <2>2
  <2>3. CASE ~(m.start >= tokens)
    <3> DEFINE s == m.start
               to == Min({s + size, tokens})
               cs == Append(m.chunks, [from |-> s + 1, to |-> to])
               t == s + size - overlap
    <3>1. s \in Nat /\ s < tokens /\ overlap < size /\ s >= k - 1
      BY <1>1, <1>4, <2>1, <2>3
    <3>2. CutTo(cs, t, tokens, size)
      BY <1>1, <2>1, <3>1, CutMore
    <3>3. cs \in Seq(Pair)
      BY <3>2 DEF CutTo
    <3>4. new(m) = [start |-> t, chunks |-> cs]
      BY <2>3
    <3> HIDE DEF cs
    <3>5. t \in Nat /\ t >= k
      BY <1>1, <3>1
    <3> HIDE DEF t, s, new
    <3>6. new(m) \in State /\ new(m).start = t /\ new(m).chunks = cs
      BY <3>3, <3>4, <3>5
    <3> QED BY <3>2, <3>5, <3>6
  <2> QED BY <2>2, <2>3
<1>5. \A m, k : Is(m, k) => m \in State
  OBVIOUS
<1> HIDE DEF Is, first, State, new
<1>6. step \in [(1..tokens) \X State -> State]
  BY <1>3
<1>7. PICK g \in [0..tokens -> State] : IsRun(g, tokens, first, step)
  <2> HIDE DEF step
  <2> QED BY <1>3, <1>6, RoundsExist
<1>8. g[0] = first
  <2>1. 0 \in 0..tokens
    OBVIOUS
  <2> QED BY <1>7, <2>1 DEF IsRun
<1>9. ASSUME NEW k \in 1..tokens, Is(g[k - 1], k - 1) PROVE g[k] = new(g[k - 1])
  <2>1. k \in 0..tokens /\ k # 0 /\ k - 1 \in 0..tokens
    OBVIOUS
  <2>2. new(g[k - 1]) \in State
    BY <1>4, <1>9
  <2>3. <<k, g[k - 1]>> \in (1..tokens) \X State
    BY <1>7, <2>1
  <2>4. step[<<k, g[k - 1]>>] = new(g[k - 1])
    BY <2>2, <2>3
  <2> HIDE DEF step
  <2> QED BY <1>7, <2>1, <2>4 DEF IsRun
<1>10. \A k \in 0..tokens : Is(g[k], k)
  <2> DEFINE G == {k \in 0..tokens : Is(g[k], k)}
  <2>1. 0 \in G
    BY <1>3, <1>8
  <2>2. ASSUME NEW k \in 1..tokens, k - 1 \in G PROVE k \in G
    <3>1. k \in 0..tokens /\ g[k] = new(g[k - 1]) /\ Is(g[k - 1], k - 1)
      BY <1>9, <2>2
    <3> QED BY <1>4, <3>1
  <2>3. G \in SUBSET (0..tokens)
    OBVIOUS
  <2> HIDE DEF G
  <2>4. \A k \in 0..tokens : k \in G
    BY <2>1, <2>2, <2>3, UpTo
  <2> QED BY <2>4 DEF G
<1>11. IsRounds(g)
  <2>1. ASSUME NEW k \in 0..tokens PROVE g[k] = IF k = 0 THEN first ELSE new(g[k - 1])
    <3>1. CASE k = 0
      BY <1>8, <3>1
    <3>2. CASE k # 0
      <4>1. k \in 1..tokens /\ k - 1 \in 0..tokens
        BY <3>2
      <4> QED BY <1>9, <1>10, <3>2, <4>1
    <3> QED BY <3>1, <3>2
  <2>2. g = [k \in 0..tokens |-> g[k]]
    BY <1>7
  <2> QED BY <2>1, <2>2
<1> DEFINE h == CHOOSE f : IsRounds(f)
<1>12. IsRounds(h)
  <2> HIDE DEF IsRounds
  <2> QED BY <1>11, Zenon
<1>13. TokenChunks(tokens, o) = h[tokens].chunks
  BY <1>2
<1> HIDE DEF h, step
<1>14. h[0] = first /\ \A k \in 1..tokens : h[k] = new(h[k - 1])
  <2>1. \A k \in 0..tokens : h[k] = IF k = 0 THEN first ELSE new(h[k - 1])
    BY <1>12
  <2>2. 0 \in 0..tokens /\ \A k \in 1..tokens : k \in 0..tokens /\ k # 0
    OBVIOUS
  <2> QED BY <2>1, <2>2
<1>15. Is(h[tokens], tokens)
  <2> DEFINE G == {k \in 0..tokens : Is(h[k], k)}
  <2>1. 0 \in G
    BY <1>3, <1>14
  <2>2. ASSUME NEW k \in 1..tokens, k - 1 \in G PROVE k \in G
    <3>1. k \in 0..tokens /\ h[k] = new(h[k - 1]) /\ Is(h[k - 1], k - 1)
      BY <1>14, <2>2
    <3> QED BY <1>4, <3>1
  <2>3. G \in SUBSET (0..tokens)
    OBVIOUS
  <2> HIDE DEF G
  <2>4. \A k \in 0..tokens : k \in G
    BY <2>1, <2>2, <2>3, UpTo
  <2> QED BY <2>4 DEF G
<1> DEFINE m == h[tokens]
<1>16. m.start \in Nat /\ m.start >= tokens /\ CutTo(m.chunks, m.start, tokens, size)
  BY <1>15 DEF Is, State
<1> HIDE DEF m
<1>17. \A p \in 1..tokens : p <= m.start
  <2>1. m.start \in Nat /\ m.start >= tokens
    BY <1>16
  <2> QED BY <2>1
<1>18. CutTo(m.chunks, tokens, tokens, size)
  BY <1>16, <1>17 DEF CutTo
<1> QED BY <1>13, <1>18 DEF m, size

-----------------------------------------------------------------------------
(* TextSplit: what the chunks of a text are.                               *)

LEMMA SplitCounts == \A S : Cardinality(S) = Cardinality(S)
BY DEF Cardinality, Cardinality

(* Chunks that a text is split well to have its words, and are short.      *)
LEMMA ChunkedTells ==
    ASSUME NEW cs, NEW Q, NEW o, Chunked(cs, Q, o)
    PROVE  /\ Len(cs) \in Nat
           /\ UNION {Places(cs[k]) : k \in DOMAIN cs} = Q
           /\ \A k \in DOMAIN cs :
                 /\ \A i, j \in Words(cs[k]) : i < j => cs[k][i].at < cs[k][j].at
                 /\ \A p \in Q, q, r \in Places(cs[k]) :
                       q <= p /\ p <= r => p \in Places(cs[k])
                 /\ \A j \in 1..(k - 1), p \in Places(cs[k]) :
                       Places(cs[j]) # {} =>
                          \E q \in Places(cs[j]) : q <= p
                 /\ Fits(cs[k], o)
           /\ \A k \in 1..(Len(cs) - 1) :
                 Cardinality(Places(cs[k]) \cap Places(cs[k + 1]))
                    <= o.overlap
<1> DEFINE n == Len(cs)
           S == Seq(Cells)
<1>1. cs \in Seq(S)
  BY DEF Chunked
<1>2. n \in Nat /\ DOMAIN cs = 1..n
  <2> HIDE DEF S
  <2> QED BY <1>1, LenProperties
<1>0. n \in Nat
  BY <1>2
<1> HIDE DEF S
<1>3. \A k \in 1..n :
         /\ Flow(cs[k]) /\ Fits(cs[k], o)
         /\ Places(cs[k]) \subseteq Q /\ Convex(Places(cs[k]), Q)
  BY DEF Chunked
<1>4. \A p \in Q : \E k \in 1..n : p \in Places(cs[k])
  BY DEF Chunked
<1>5. \A i, k \in 1..n : i < k =>
         /\ Leads(Places(cs[i]), Places(cs[k]))
         /\ Cardinality(Places(cs[i]) \cap Places(cs[k])) <= o.overlap
  BY DEF Chunked
<1> HIDE DEF n
<1>6. UNION {Places(cs[k]) : k \in 1..n} = Q
  BY <1>3, <1>4
<1>7. ASSUME NEW k \in 1..n
      PROVE  /\ \A i, j \in Words(cs[k]) : i < j => cs[k][i].at < cs[k][j].at
             /\ \A p \in Q, q, r \in Places(cs[k]) :
                   q <= p /\ p <= r => p \in Places(cs[k])
             /\ Fits(cs[k], o)
  BY <1>3 DEF Flow, Convex
<1>8. ASSUME NEW k \in 1..n, NEW j \in 1..(k - 1), NEW p \in Places(cs[k]),
             Places(cs[j]) # {}
      PROVE  \E q \in Places(cs[j]) : q <= p
  <2>1. j \in 1..n /\ j < k
    BY <1>0
  <2> QED BY <1>5, <1>8, <2>1 DEF Leads
<1>9. ASSUME NEW k \in 1..(n - 1)
      PROVE  Cardinality(Places(cs[k]) \cap Places(cs[k + 1]))
                <= o.overlap
  <2>1. k \in 1..n /\ k + 1 \in 1..n /\ k < k + 1
    BY <1>0
  <2> DEFINE P == Places(cs[k]) \cap Places(cs[k + 1])
  <2>2. Cardinality(P) <= o.overlap
    BY <1>5, <2>1
  <2>3. Cardinality(P) = Cardinality(P)
    BY SplitCounts
  <2> QED BY <2>2, <2>3
<1> QED BY <1>2, <1>6, <1>7, <1>8, <1>9 DEF n

(* The texts that are given.                                               *)
LEMMA TextsFlow ==
    ASSUME MaxCharacters \in Nat, NEW text \in Texts
    PROVE  Flow(text)
<1>1. PICK n \in 0..MaxCharacters :
         text \in {[k \in 1..n |-> Char(cs[k], k)] :
                      cs \in [1..n -> {"x"} \cup Blank]}
  BY DEF Texts
<1>2. PICK cs \in [1..n -> {"x"} \cup Blank] :
         text = [k \in 1..n |-> Char(cs[k], k)]
  BY <1>1
<1>3. n \in Nat
  OBVIOUS
<1>4. \A k \in 1..n : k \in Nat
  OBVIOUS
<1>5. \A k \in 1..n : text[k] = [c |-> cs[k], at |-> k]
  BY <1>2 DEF Char
<1>6. \A k \in 1..n : text[k] \in Cells /\ text[k].at = k
  <2> SUFFICES ASSUME NEW k \in 1..n PROVE text[k] \in Cells /\ text[k].at = k
    OBVIOUS
  <2> DEFINE c == cs[k]
  <2>1. c \in {"x"} \cup Blank
    OBVIOUS
  <2>2. k \in Nat
    BY <1>4
  <2>3. text[k] = [c |-> c, at |-> k]
    BY <1>5
  <2> DEFINE S == {"x"} \cup Blank
  <2>4. c \in S
    BY <2>1
  <2>5. Cells = [c : S, at : Nat]
    BY DEF Cells
  <2> HIDE DEF c, S
  <2>6. text[k] \in [c : S, at : Nat] /\ text[k].at = k
    BY <2>2, <2>3, <2>4
  <2> QED BY <2>5, <2>6
<1>7. text \in [1..n -> Cells]
  <2> HIDE DEF Cells
  <2> QED BY <1>2, <1>6
<1>8. text \in Seq(Cells) /\ DOMAIN text = 1..n
  <2> HIDE DEF Cells
  <2> QED BY <1>3, <1>7, ListIsSeq
<1>9. Words(text) \subseteq 1..n
  BY <1>8 DEF Words
<1> QED BY <1>6, <1>8, <1>9 DEF Flow

\* What is split: a text, or a number of tokens.
Splittable ==
    \/ splitter = "recursive" /\ Flow(given) /\ Options(options)
    \/ /\ splitter = "token" /\ given \in Nat
       /\ options.size \in Nat /\ options.overlap \in Nat

SplitInv ==
    /\ TypeOK
    /\ pc = "split" => Splittable /\ outcome = "none"

AsChunks == /\ WordsKept /\ ChunksFit
            /\ OverlapKept /\ TokensKept

LEMMA SplitInit ==
    ASSUME Init, MaxCharacters \in Nat, MaxTokens \in Nat, MaxChunk \in Nat
    PROVE  SplitInv /\ AsChunks
<1>1. chunks = <<>> /\ pc = "split" /\ outcome = "none"
  BY DEF Init
<1>2. Len(<<>>) \in Nat
  <2>1. Len(<<>>) = 0
    BY EmptyWords
  <2> QED BY <2>1
<1>3. \A n \in 0..MaxChunk : n \in Nat
  OBVIOUS
<1>4. Splittable
  <2>1. CASE /\ splitter = "recursive" /\ given \in Texts
             /\ options \in [size : 0..MaxChunk, overlap : 0..MaxChunk, keep : BOOLEAN,
                             separators : SeparatorLists]
    <3>1. Flow(given)
      BY <2>1, TextsFlow
    <3>2. Options(options)
      BY <1>3, <2>1 DEF Options
    <3> QED BY <2>1, <3>1, <3>2 DEF Splittable
  <2>2. CASE /\ splitter = "token" /\ given \in 0..MaxTokens
             /\ options \in [size : 0..MaxChunk, overlap : 0..MaxChunk]
    <3>1. given \in Nat
      <4>1. given \in 0..MaxTokens
        BY <2>2
      <4> QED BY <4>1
    <3> QED BY <1>3, <2>2, <3>1 DEF Splittable
  <2> QED BY <2>1, <2>2 DEF Init
<1>5. splitter \in Splitters
  BY <1>4 DEF Splittable, Splitters
<1>6. SplitInv
  BY <1>1, <1>2, <1>4, <1>5 DEF SplitInv, TypeOK
<1>7. AsChunks
  BY <1>1 DEF AsChunks, WordsKept, ChunksFit, OverlapKept,
              TokensKept, Done
<1> QED BY <1>6, <1>7

(* What a text is split to.                                                *)
LEMMA PlainStep ==
    ASSUME SplitInv, Next, SplitPlain PROVE SplitInv' /\ AsChunks'
<1>1. /\ pc = "split" /\ splitter = "recursive" /\ pc' = "done" /\ outcome' = "ok"
      /\ splitter' = splitter /\ options' = options /\ given' = given
      /\ chunks' = splitText(given, options.separators, options)
  BY DEF Next, SplitPlain, Ends
<1>2. Flow(given) /\ Options(options)
  BY <1>1 DEF SplitInv, Splittable
<1> DEFINE Q == Places(given)
<1>3. Chunked(chunks', Q, options)
  BY <1>1, <1>2, SplitWell
<1>4. /\ Len(chunks') \in Nat
      /\ UNION {Places(chunks'[k]) : k \in DOMAIN chunks'} = Q
      /\ \A k \in DOMAIN chunks' :
            /\ \A i, j \in Words(chunks'[k]) :
                  i < j => chunks'[k][i].at < chunks'[k][j].at
            /\ \A p \in Q, q, r \in Places(chunks'[k]) :
                  q <= p /\ p <= r => p \in Places(chunks'[k])
            /\ \A j \in 1..(k - 1), p \in Places(chunks'[k]) :
                  Places(chunks'[j]) # {} =>
                     \E q \in Places(chunks'[j]) : q <= p
            /\ Fits(chunks'[k], options)
      /\ \A k \in 1..(Len(chunks') - 1) :
            Cardinality(Places(chunks'[k])
                                     \cap Places(chunks'[k + 1])) <= options.overlap
  <2> HIDE DEF Q
  <2> QED BY <1>3, ChunkedTells, Zenon
<1> HIDE DEF Q
<1>5. Q = Places(given')
  BY <1>1 DEF Q
<1>6. WordsKept'
  BY <1>4, <1>5, Zenon DEF WordsKept, Words, Places
<1>7. ChunksFit'
  BY <1>1, <1>4 DEF ChunksFit, Fits
<1>8. OverlapKept'
  BY <1>1, <1>4 DEF OverlapKept
<1>9. TokensKept'
  BY <1>1 DEF TokensKept
<1>10. SplitInv'
  BY <1>1, <1>4 DEF SplitInv, TypeOK, Splitters
<1> QED BY <1>6, <1>7, <1>8, <1>9, <1>10 DEF AsChunks

(* What a number of tokens is split to.                                    *)
LEMMA TokenStep ==
    ASSUME SplitInv, Next, SplitTokens PROVE SplitInv' /\ AsChunks'
<1> DEFINE split == TokenSplit(given, options)
<1>1. /\ pc = "split" /\ splitter = "token" /\ pc' = "done"
      /\ outcome' = split.how /\ chunks' = split.chunks
      /\ splitter' = splitter /\ options' = options /\ given' = given
  BY DEF Next, SplitTokens, Ends
<1>2. given \in Nat /\ options.size \in Nat /\ options.overlap \in Nat
  BY <1>1 DEF SplitInv, Splittable
<1>3. splitter' = "token" /\ splitter' # "recursive" /\ pc' = "done"
  BY <1>1
<1>4. WordsKept' /\ ChunksFit' /\ OverlapKept'
  BY <1>3 DEF WordsKept, ChunksFit, OverlapKept, Done
<1>5. CASE given = 0 \/ options.overlap < options.size
  <2> DEFINE cs == TokenChunks(given, options)
  <2>1. outcome' = "ok" /\ chunks' = cs
    BY <1>1, <1>5 DEF TokenSplit
  <2>2. CutTo(cs, given, given, options.size)
    BY <1>2, <1>5, TokensCut
  <2> HIDE DEF cs
  <2> DEFINE n == Len(cs)
  <2>3. /\ cs \in Seq(Pair)
        /\ \A i \in 1..n : /\ cs[i].from >= 1 /\ cs[i].to <= given
                           /\ cs[i].to - cs[i].from < options.size
        /\ \A p \in 1..given : p <= given =>
              \E i \in 1..n : p \in cs[i].from..cs[i].to
    BY <2>2 DEF CutTo
  <2>4. n \in Nat /\ DOMAIN cs = 1..n /\ \A i \in 1..n : cs[i] \in Pair
    <3> HIDE DEF Pair
    <3> QED BY <2>3, LenProperties
  <2> HIDE DEF n
  <2>5. \A p \in 1..given : \E i \in 1..n : p \in cs[i].from..cs[i].to
    BY <1>2, <2>3
  <2>6. \A i \in 1..n : cs[i].from..cs[i].to \subseteq 1..given
    <3> SUFFICES ASSUME NEW i \in 1..n PROVE cs[i].from..cs[i].to \subseteq 1..given
      OBVIOUS
    <3> DEFINE a == cs[i].from
               b == cs[i].to
    <3>1. a \in Nat /\ b \in Nat /\ a >= 1 /\ b <= given
      BY <2>3, <2>4 DEF Pair
    <3> HIDE DEF a, b
    <3>2. a..b \subseteq 1..given
      BY <1>2, <3>1
    <3> QED BY <3>2 DEF a, b
  <2>7. UNION {cs[i].from..cs[i].to : i \in DOMAIN cs} = 1..given
    BY <2>4, <2>5, <2>6, Zenon
  <2>8. TokensKept'
    BY <1>1, <2>1, <2>3, <2>4, <2>7 DEF TokensKept
  <2>9. SplitInv'
    BY <1>3, <2>1, <2>4 DEF SplitInv, TypeOK, Splitters, n
  <2> QED BY <1>4, <2>8, <2>9 DEF AsChunks
<1>6. CASE ~(given = 0 \/ options.overlap < options.size)
  <2>1. chunks' = <<>> /\ outcome' \in {"endless", "panic"}
    BY <1>1, <1>6 DEF TokenSplit
  <2>2. options.overlap >= options.size
    BY <1>2, <1>6
  <2>3. TokensKept'
    BY <1>1, <2>1, <2>2 DEF TokensKept
  <2>4. Len(<<>>) \in Nat
    <3>1. Len(<<>>) = 0
      BY EmptyWords
    <3> QED BY <3>1
  <2>5. SplitInv'
    BY <1>3, <2>1, <2>4 DEF SplitInv, TypeOK, Splitters
  <2> QED BY <1>4, <2>3, <2>5 DEF AsChunks
<1> QED BY <1>5, <1>6

LEMMA SplitSteps ==
    ASSUME SplitInv, AsChunks, [Next]_(vars) PROVE SplitInv' /\ AsChunks'
<1>1. CASE Next
  <2>1. SplitPlain \/ SplitTokens
    BY <1>1 DEF Next
  <2> QED BY <1>1, <2>1, PlainStep, TokenStep
<1>2. CASE UNCHANGED vars
  <2>1. UNCHANGED <<splitter, options, given, chunks, pc, outcome>>
    BY <1>2 DEF vars
  <2>2. SplitInv'
    BY <2>1 DEF SplitInv, Splittable, TypeOK
  <2>3. WordsKept'
    BY <2>1 DEF AsChunks, WordsKept, Done
  <2>4. ChunksFit'
    BY <2>1 DEF AsChunks, ChunksFit, Done
  <2>5. OverlapKept'
    BY <2>1 DEF AsChunks, OverlapKept, Done
  <2>6. TokensKept'
    BY <2>1 DEF AsChunks, TokensKept
  <2> QED BY <2>2, <2>3, <2>4, <2>5, <2>6 DEF AsChunks
<1> QED BY <1>1, <1>2

=============================================================================
