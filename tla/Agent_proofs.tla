--------------------------- MODULE Agent_proofs ----------------------------
(***************************************************************************)
(* The Python agent.  Its requests, for projects, texts and limits of any   *)
(* size: a chat's context is the best there is, public sources are all      *)
(* tried and compared in one space, an analysis is refused only for lack of *)
(* passages, and gaps follow the model's reply.  And its chunker, for every *)
(* text and every setting whose overlap is at most half of the chunk: it    *)
(* moves forward, loses nothing and keeps its context.  And the indexer's   *)
(* chunker, which the same run checks: it keeps every text.                 *)
(*                                                                          *)
(* Sorting by score is a permutation because the ranks of the passages are  *)
(* distinct (ByScoreIs); a passage with fewer rivals than the search has    *)
(* places survives the search, the merge and the cut (SearchFinds, BestIs,  *)
(* Merging).  AnswersInv adds what is left over after each step.            *)
(***************************************************************************)
EXTENDS Answers, MCTextChunker, FiniteSetTheorems, SequenceTheorems, Induction, TLAPS

\* The slice [:n] of a list keeps its order.
LEMMA FirstOfIs ==
  ASSUME NEW A, NEW s \in Seq(A), NEW n \in Nat
  PROVE  /\ FirstOf(n, s) \in Seq(A)
         /\ Len(FirstOf(n, s)) = IF Len(s) < n THEN Len(s) ELSE n
         /\ \A i \in 1..Len(FirstOf(n, s)) : i \in 1..Len(s) /\ FirstOf(n, s)[i] = s[i]
<1> DEFINE t == IF Len(s) < n THEN Len(s) ELSE n
<1>1. t \in Nat /\ t <= Len(s) /\ 0 \in Nat /\ t \in Int
  OBVIOUS
<1>2. FirstOf(n, s) = SubSeq(s, 0 + 1, t)
  BY DEF FirstOf
<1> HIDE DEF t
<1>3. /\ SubSeq(s, 0 + 1, t) \in Seq(A)
      /\ Len(SubSeq(s, 0 + 1, t)) = IF 0 < t THEN t - 0 ELSE 0
      /\ \A i \in 1..(t - 0) : SubSeq(s, 0 + 1, t)[i] = s[0 + i]
  <2> DEFINE a == 0
  <2>1. a \in Nat
    OBVIOUS
  <2> HIDE DEF a
  <2>2. /\ SubSeq(s, a + 1, t) \in Seq(A)
        /\ Len(SubSeq(s, a + 1, t)) = IF a < t THEN t - a ELSE 0
        /\ \A i \in 1..(t - a) : SubSeq(s, a + 1, t)[i] = s[a + i]
    BY <1>1, <2>1, SubSeqIs
  <2> QED BY <2>2 DEF a
<1>4. Len(FirstOf(n, s)) = t
  BY <1>1, <1>2, <1>3
<1>5. ASSUME NEW i \in 1..t PROVE i \in 1..Len(s) /\ FirstOf(n, s)[i] = s[i]
  <2>1. i \in 1..(t - 0) /\ 0 + i = i /\ i \in 1..Len(s)
    BY <1>1
  <2> QED BY <1>2, <1>3, <2>1
<1> QED BY <1>2, <1>3, <1>4, <1>5 DEF t

\* An injection into a finite set of as many elements reaches all of them.
LEMMA AllReached ==
  ASSUME NEW n \in Nat, NEW S, IsFiniteSet(S), Cardinality(S) = n, NEW f \in [1..n -> S],
         \A i, j \in 1..n : f[i] = f[j] => i = j
  PROVE  \A x \in S : \E i \in 1..n : f[i] = x
<1>1. f \in Injection(1..n, S)
  BY DEF Injection, IsInjective
<1>2. IsFiniteSet(1..n) /\ Cardinality(1..n) = n
  <2>1. 1 \in Int /\ n \in Int
    OBVIOUS
  <2>2. IsFiniteSet(1..n) /\ Cardinality(1..n) = IF 1 > n THEN 0 ELSE n - 1 + 1
    BY <2>1, FS_Interval
  <2>3. (IF 1 > n THEN 0 ELSE n - 1 + 1) = n
    OBVIOUS
  <2> QED BY <2>2, <2>3
<1>3. f \in Surjection(1..n, S)
  BY <1>1, <1>2, FS_Injection
<1> QED BY <1>3 DEF Surjection

\* What the ORDER BY of a search promises.
LEMMA RankingIs ==
  ASSUME NEW S, IsFiniteSet(S), NEW s \in Rankings(S)
  PROVE  /\ s \in Seq(S)
         /\ \A i, j \in 1..Len(s) : i < j => s[i].score >= s[j].score
         /\ \A i, j \in 1..Len(s) : s[i] = s[j] => i = j
         /\ \A x \in S : \E i \in 1..Len(s) : s[i] = x
<1> DEFINE n == Cardinality(S)
<1>1. n \in Nat
  BY FS_CardinalityType
<1>2. s \in [1..n -> S] /\ (\A i, j \in 1..n : i # j => s[i] # s[j]) /\ Ranked(s)
  BY DEF Rankings, SetToSeqs
<1> HIDE DEF n
<1>3. s \in Seq(S) /\ Len(s) = n /\ DOMAIN s = 1..n
  BY <1>1, <1>2
<1>4. \A x \in S : \E i \in 1..n : s[i] = x
  <2>1. \A i, j \in 1..n : s[i] = s[j] => i = j
    BY <1>2
  <2>2. Cardinality(S) = n
    BY DEF n
  <2> QED BY <1>1, <1>2, <2>1, <2>2, AllReached
<1> QED BY <1>2, <1>3, <1>4 DEF Ranked

\* A search of S that finds f, at most n relevant passages, those of R.
FoundIn(f, S, R, n) ==
  /\ f \in Seq(R)
  /\ Len(f) <= n
  /\ \A i, j \in 1..Len(f) : i < j => f[i].score >= f[j].score
  /\ \A i, j \in 1..Len(f) : f[i] = f[j] => i = j
  /\ \A x \in R : Cardinality(Rivals(x, S)) < n => \E i \in 1..Len(f) : f[i] = x
  /\ f = <<>> => R = {}

\* The search takes of the best n passages of S the relevant ones.
LEMMA SearchFinds ==
  ASSUME NEW S, IsFiniteSet(S), \A x \in S : x.score \in Int,
         NEW s \in Rankings(S), NEW n \in Nat \ {0}, NEW R, R \subseteq S,
         \A x \in R, y \in S : y.score >= x.score => y \in R,
         NEW f, f = Select(FirstOf(n, s), R)
  PROVE  FoundIn(f, S, R, n)
<1> DEFINE t == FirstOf(n, s)
<1>1. /\ s \in Seq(S)
      /\ \A i, j \in 1..Len(s) : i < j => s[i].score >= s[j].score
      /\ \A i, j \in 1..Len(s) : s[i] = s[j] => i = j
      /\ \A x \in S : \E i \in 1..Len(s) : s[i] = x
  BY RankingIs
<1>2. /\ t \in Seq(S)
      /\ Len(t) = IF Len(s) < n THEN Len(s) ELSE n
      /\ \A i \in 1..Len(t) : i \in 1..Len(s) /\ t[i] = s[i]
  BY <1>1, FirstOfIs
<1> HIDE DEF t
<1>3. PICK pos : Places(pos, Select(t, R), t, Len(t), R)
  BY <1>2, SelectPlaces
<1>4. f = Select(t, R) /\ f \in Seq(S) /\ Len(f) \in Nat
  BY <1>2, SelectType DEF t
<1>5. /\ pos \in [1..Len(f) -> 1..Len(t)]
      /\ \A i \in 1..Len(f) : f[i] = t[pos[i]] /\ f[i] \in R
      /\ \A i, j \in 1..Len(f) : i < j => pos[i] < pos[j]
      /\ \A k \in 1..Len(t) : t[k] \in R => \E i \in 1..Len(f) : pos[i] = k
  BY <1>3, <1>4 DEF Places
<1>6. \A i \in 1..Len(f) : pos[i] \in 1..Len(t) /\ pos[i] \in 1..Len(s) /\ f[i] = s[pos[i]]
  BY <1>2, <1>5
<1>7. f \in Seq(R)
  BY <1>4, <1>5
<1>8. Len(f) <= n
  <2>1. pos \in Injection(1..Len(f), 1..Len(t))
    <3>1. ASSUME NEW i \in 1..Len(f), NEW j \in 1..Len(f), pos[i] = pos[j] PROVE i = j
      <4>1. i < j \/ j < i \/ i = j
        OBVIOUS
      <4>2. pos[i] \in Int /\ pos[j] \in Int
        BY <1>6
      <4>3. ~(i < j) /\ ~(j < i)
        BY <1>5, <3>1, <4>2
      <4> QED BY <4>1, <4>3
    <3> QED BY <1>5, <3>1 DEF Injection, IsInjective
  <2>2. /\ IsFiniteSet(1..Len(f)) /\ Cardinality(1..Len(f)) = IF 1 > Len(f) THEN 0 ELSE Len(f) - 1 + 1
        /\ IsFiniteSet(1..Len(t)) /\ Cardinality(1..Len(t)) = IF 1 > Len(t) THEN 0 ELSE Len(t) - 1 + 1
    <3>1. 1 \in Int /\ Len(f) \in Int /\ Len(t) \in Int
      BY <1>2, <1>4
    <3> QED BY <3>1, FS_Interval
  <2>3. Cardinality(1..Len(f)) <= Cardinality(1..Len(t))
    BY <2>1, <2>2, FS_Injection
  <2> QED BY <1>1, <1>2, <1>4, <2>2, <2>3
<1>9. ASSUME NEW i \in 1..Len(f), NEW j \in 1..Len(f), i < j PROVE f[i].score >= f[j].score
  <2>1. pos[i] < pos[j]
    BY <1>5, <1>9
  <2>2. pos[i] \in 1..Len(s) /\ pos[j] \in 1..Len(s) /\ f[i] = s[pos[i]] /\ f[j] = s[pos[j]]
    BY <1>6
  <2> QED BY <1>1, <2>1, <2>2
<1>10. ASSUME NEW i \in 1..Len(f), NEW j \in 1..Len(f), f[i] = f[j] PROVE i = j
  <2>1. pos[i] = pos[j]
    <3>1. pos[i] \in 1..Len(s) /\ pos[j] \in 1..Len(s) /\ f[i] = s[pos[i]] /\ f[j] = s[pos[j]]
      BY <1>6
    <3> QED BY <1>1, <1>10, <3>1
  <2>2. pos[i] \in Int /\ pos[j] \in Int
    BY <1>6
  <2>3. ~(i < j) /\ ~(j < i)
    BY <1>5, <2>1, <2>2
  <2> QED BY <2>3
<1>11. ASSUME NEW x \in R, Cardinality(Rivals(x, S)) < n PROVE \E i \in 1..Len(f) : f[i] = x
  <2>1. PICK k \in 1..Len(s) : s[k] = x
    BY <1>1
  <2> DEFINE g == [i \in 1..(k - 1) |-> s[i]]
  <2>2. \A i \in 1..(k - 1) : s[i] \in S /\ s[i] # x /\ s[i].score >= x.score /\ i \in 1..Len(s)
    <3>1. ASSUME NEW i \in 1..(k - 1)
          PROVE  s[i] \in S /\ s[i] # x /\ s[i].score >= x.score /\ i \in 1..Len(s)
      <4>1. i \in 1..Len(s) /\ k \in 1..Len(s) /\ i < k /\ i # k
        BY <1>1
      <4>2. s[i].score >= s[k].score
        BY <1>1, <4>1
      <4>3. s[i] # s[k] /\ s[i] \in S
        BY <1>1, <4>1
      <4> QED BY <2>1, <4>1, <4>2, <4>3
    <3> QED BY <3>1
  <2>3. g \in Injection(1..(k - 1), Rivals(x, S))
    <3>1. \A i \in 1..(k - 1) : s[i] \in Rivals(x, S)
      BY <2>2 DEF Rivals
    <3>2. \A i, j \in 1..(k - 1) : s[i] = s[j] => i = j
      BY <1>1, <2>2
    <3> QED BY <3>1, <3>2 DEF Injection, IsInjective
  <2>4. IsFiniteSet(Rivals(x, S))
    <3>1. Rivals(x, S) \in SUBSET S
      BY DEF Rivals
    <3> QED BY <3>1, FS_Subset
  <2> HIDE DEF g
  <2>5. Cardinality(1..(k - 1)) <= Cardinality(Rivals(x, S))
    BY <2>3, <2>4, FS_Injection
  <2>6. Cardinality(1..(k - 1)) = IF 1 > k - 1 THEN 0 ELSE (k - 1) - 1 + 1
    <3>1. 1 \in Int /\ k - 1 \in Int
      OBVIOUS
    <3> QED BY <3>1, FS_Interval
  <2>7. Cardinality(Rivals(x, S)) \in Nat
    BY <2>4, FS_CardinalityType
  <2>8. k <= n
    <3> DEFINE c == Cardinality(Rivals(x, S))
               d == Cardinality(1..(k - 1))
    <3>1. c \in Nat /\ c < n /\ d <= c /\ d = (IF 1 > k - 1 THEN 0 ELSE (k - 1) - 1 + 1) /\ k \in Nat /\ n \in Nat
      BY <1>11, <2>5, <2>6, <2>7
    <3> HIDE DEF c, d
    <3> QED BY <3>1
  <2>9. k \in 1..Len(t) /\ t[k] = x
    <3>1. k \in 1..Len(t)
      BY <1>1, <1>2, <2>8
    <3> QED BY <1>2, <2>1, <3>1
  <2>10. PICK i \in 1..Len(f) : pos[i] = k
    BY <1>5, <2>9
  <2> QED BY <1>5, <2>9, <2>10
<1>12. ASSUME f = <<>>, NEW x \in R PROVE FALSE
  <2>1. PICK k \in 1..Len(s) : s[k] = x
    BY <1>1
  <2>2. 1 \in 1..Len(s) /\ 1 \in 1..Len(t)
    BY <1>1, <1>2
  <2>3. s[1] \in S /\ s[1].score \in Int /\ s[k].score \in Int
    BY <1>1, <2>2
  <2>4. s[1].score >= s[k].score
    <3>1. k = 1 \/ 1 < k
      BY <2>1
    <3>2. 1 < k => s[1].score >= s[k].score
      BY <1>1, <2>1, <2>2
    <3>3. s[1].score >= s[1].score
      <4> DEFINE v == s[1].score
      <4>1. v \in Int
        BY <2>3
      <4> HIDE DEF v
      <4>2. v >= v
        BY <4>1
      <4> QED BY <4>2 DEF v
    <3> QED BY <3>1, <3>2, <3>3
  <2>5. t[1] \in R
    BY <1>2, <2>1, <2>2, <2>3, <2>4
  <2>6. Len(f) = 0
    BY <1>12
  <2> QED BY <1>5, <2>2, <2>5, <2>6
<1> QED BY <1>7, <1>8, <1>9, <1>10, <1>11, <1>12 DEF FoundIn

\* order[k] is the place in s of the k-th best.
Order(order, s) ==
  /\ order \in [1..Len(s) -> 1..Len(s)]
  /\ \A k \in 1..Len(s) : Cardinality(Better(s, order[k])) = k - 1
  /\ \A i \in 1..Len(s) : \E k \in 1..Len(s) : order[k] = i
  /\ \A k, l \in 1..Len(s) : order[k] = order[l] => k = l
  /\ \A k, l \in 1..Len(s) : k < l => s[order[k]].score >= s[order[l]].score

\* The stable sort, by the count of betters, is a permutation in the order of scores.
LEMMA ByScoreIs ==
  ASSUME NEW A, \A x \in A : x.score \in Int, NEW s \in Seq(A)
  PROVE  /\ ByScore(s) \in Seq(A)
         /\ Len(ByScore(s)) = Len(s)
         /\ \E order : Order(order, s) /\ \A k \in 1..Len(s) : ByScore(s)[k] = s[order[k]]
<1> DEFINE n == Len(s)
           r == [i \in 1..n |-> Cardinality(Better(s, i)) + 1]
<1>1. n \in Nat /\ DOMAIN s = 1..n /\ \A i \in 1..n : s[i] \in A /\ s[i].score \in Int
  OBVIOUS
<1>2. IsFiniteSet(1..n) /\ Cardinality(1..n) = n
  <2>1. 1 \in Int /\ n \in Int
    BY <1>1
  <2>2. IsFiniteSet(1..n) /\ Cardinality(1..n) = IF 1 > n THEN 0 ELSE n - 1 + 1
    BY <2>1, FS_Interval
  <2>3. (IF 1 > n THEN 0 ELSE n - 1 + 1) = n
    BY <1>1
  <2> QED BY <2>2, <2>3
<1>3. ASSUME NEW i \in 1..n
      PROVE  IsFiniteSet(Better(s, i)) /\ Cardinality(Better(s, i)) \in Nat /\ Cardinality(Better(s, i)) + 1 \in 1..n
  <2>1. Better(s, i) \in SUBSET ((1..n) \ {i})
    BY <1>1 DEF Better
  <2>2. IsFiniteSet((1..n) \ {i}) /\ Cardinality((1..n) \ {i}) = n - 1
    BY <1>2, FS_RemoveElement
  <2>3. IsFiniteSet(Better(s, i)) /\ Cardinality(Better(s, i)) <= n - 1
    BY <2>1, <2>2, FS_Subset
  <2>4. Cardinality(Better(s, i)) \in Nat
    BY <2>3, FS_CardinalityType
  <2> QED BY <1>1, <2>3, <2>4
<1>4. ASSUME NEW i \in 1..n, NEW j \in 1..n, i \in Better(s, j) PROVE r[i] < r[j]
  <2>1. Better(s, i) \cup {i} \in SUBSET Better(s, j)
    <3>1. i \in 1..n /\ (s[i].score > s[j].score \/ (s[i].score = s[j].score /\ i < j))
      BY <1>1, <1>4 DEF Better
    <3>2. ASSUME NEW h \in Better(s, i) PROVE h \in Better(s, j)
      <4>1. h \in 1..n /\ (s[h].score > s[i].score \/ (s[h].score = s[i].score /\ h < i))
        BY <1>1, <3>2 DEF Better
      <4>2. s[h].score \in Int /\ s[i].score \in Int /\ s[j].score \in Int /\ h \in Int /\ i \in Int /\ j \in Int
        BY <1>1, <4>1
      <4>3. s[h].score > s[j].score \/ (s[h].score = s[j].score /\ h < j)
        BY <3>1, <4>1, <4>2
      <4> QED BY <1>1, <4>1, <4>3 DEF Better
    <3> QED BY <1>4, <3>2
  <2>2. i \notin Better(s, i)
    BY <1>1 DEF Better
  <2>3. Cardinality(Better(s, i) \cup {i}) = Cardinality(Better(s, i)) + 1
    BY <1>3, <2>2, FS_AddElement
  <2>4. Cardinality(Better(s, i) \cup {i}) <= Cardinality(Better(s, j))
    BY <1>3, <2>1, FS_Subset
  <2> QED BY <1>3, <2>3, <2>4
<1>5. ASSUME NEW i \in 1..n, NEW j \in 1..n, i # j PROVE i \in Better(s, j) \/ j \in Better(s, i)
  <2>1. s[i].score \in Int /\ s[j].score \in Int /\ i \in Int /\ j \in Int
    BY <1>1
  <2> QED BY <1>1, <1>5, <2>1 DEF Better
<1>6. r \in [1..n -> 1..n]
  BY <1>3
<1>7. \A i, j \in 1..n : r[i] = r[j] => i = j
  <2> HIDE DEF r
  <2>1. ASSUME NEW i \in 1..n, NEW j \in 1..n, r[i] = r[j], i # j PROVE FALSE
    <3>1. r[i] \in Int /\ r[j] \in Int
      BY <1>6
    <3>2. r[i] < r[j] \/ r[j] < r[i]
      BY <1>4, <1>5, <2>1
    <3> QED BY <2>1, <3>1, <3>2
  <2> QED BY <2>1
<1>8. \A k \in 1..n : \E i \in 1..n : r[i] = k
  <2> DEFINE S == 1..n
  <2>1. /\ n \in Nat /\ IsFiniteSet(S) /\ Cardinality(S) = n /\ r \in [1..n -> S]
        /\ \A i, j \in 1..n : r[i] = r[j] => i = j
    BY <1>1, <1>2, <1>6, <1>7
  <2> HIDE DEF r, n, S
  <2>2. \A x \in S : \E i \in 1..n : r[i] = x
    BY <2>1, AllReached
  <2> QED BY <2>2 DEF S
<1> DEFINE order == [k \in 1..n |-> CHOOSE i \in DOMAIN s : Cardinality(Better(s, i)) = k - 1]
<1>9. ASSUME NEW k \in 1..n PROVE order[k] \in 1..n /\ Cardinality(Better(s, order[k])) = k - 1
  <2>1. PICK i \in 1..n : r[i] = k
    BY <1>8
  <2>2. i \in DOMAIN s /\ Cardinality(Better(s, i)) = k - 1
    <3>1. r[i] = Cardinality(Better(s, i)) + 1
      OBVIOUS
    <3>2. Cardinality(Better(s, i)) \in Nat
      BY <1>3
    <3> HIDE DEF r, order
    <3>3. Cardinality(Better(s, i)) = k - 1
      BY <2>1, <3>1, <3>2
    <3> QED BY <1>1, <3>3
  <2>3. order[k] = CHOOSE j \in DOMAIN s : Cardinality(Better(s, j)) = k - 1
    OBVIOUS
  <2> HIDE DEF order, r
  <2>4. order[k] \in DOMAIN s /\ Cardinality(Better(s, order[k])) = k - 1
    BY ONLY <2>2, <2>3
  <2> QED BY <1>1, <2>4
<1>10. ByScore(s) = [k \in 1..n |-> s[order[k]]]
  BY <1>1 DEF ByScore
<1>11. order \in [1..n -> 1..n]
  <2>1. order = [k \in 1..n |-> order[k]]
    OBVIOUS
  <2> HIDE DEF order
  <2> QED BY <1>9, <2>1
<1> HIDE DEF order
<1>12. ByScore(s) \in Seq(A) /\ Len(ByScore(s)) = n
  <2>1. \A k \in 1..n : s[order[k]] \in A
    BY <1>1, <1>9
  <2> QED BY <1>1, <1>10, <2>1
<1>13. \A k \in 1..n : r[order[k]] = k
  <2>1. ASSUME NEW k \in 1..n PROVE r[order[k]] = k
    <3>1. order[k] \in 1..n /\ Cardinality(Better(s, order[k])) = k - 1
      BY <1>9
    <3>2. r[order[k]] = (k - 1) + 1
      BY <3>1
    <3> QED BY <3>2
  <2> QED BY <2>1
<1> HIDE DEF r
<1>14. \A i \in 1..n : \E k \in 1..n : order[k] = i
  <2>1. ASSUME NEW i \in 1..n PROVE order[r[i]] = i
    <3>1. r[i] \in 1..n
      BY <1>6
    <3>2. r[order[r[i]]] = r[i]
      BY <1>13, <3>1
    <3> QED BY <1>7, <1>9, <3>1, <3>2
  <2> QED BY <1>6, <2>1
<1>15. \A k, l \in 1..n : order[k] = order[l] => k = l
  BY <1>13
<1>16. ASSUME NEW k \in 1..n, NEW l \in 1..n, k < l PROVE s[order[k]].score >= s[order[l]].score
  <2> DEFINE i == order[k]
             j == order[l]
  <2>1. i \in 1..n /\ j \in 1..n /\ r[i] = k /\ r[j] = l
    BY <1>9, <1>13
  <2> HIDE DEF i, j
  <2>2. i # j /\ ~(r[j] < r[i])
    BY <1>16, <2>1
  <2>3. i \in Better(s, j)
    BY <1>4, <1>5, <2>1, <2>2
  <2>4. s[i].score >= s[j].score
    BY <1>1, <2>1, <2>3 DEF Better
  <2> QED BY <2>4 DEF i, j
<1>17. Order(order, s)
  BY <1>9, <1>11, <1>14, <1>15, <1>16 DEF Order
<1>18. \A k \in 1..n : ByScore(s)[k] = s[order[k]]
  BY <1>10
<1> QED BY <1>12, <1>17, <1>18

\* A selection that keeps the first element starts with it.
LEMMA SelectFirst ==
  ASSUME NEW A, NEW s \in Seq(A), s # <<>>, NEW S, s[1] \in S
  PROVE  Select(s, S) \in Seq(A) /\ Len(Select(s, S)) >= 1 /\ Select(s, S)[1] = s[1]
<1> DEFINE t == Select(s, S)
<1>1. t \in Seq(A)
  BY SelectType
<1>2. PICK pos : Places(pos, t, s, Len(s), S)
  BY SelectPlaces
<1> HIDE DEF t
<1>3. 1 \in 1..Len(s)
  OBVIOUS
<1>4. PICK i \in 1..Len(t) : pos[i] = 1
  BY <1>2, <1>3 DEF Places
<1>5. 1 \in 1..Len(t) /\ Len(t) \in Nat
  BY <1>1, <1>4
<1>6. pos[1] \in 1..Len(s) /\ (1 < i => pos[1] < pos[i])
  BY <1>2, <1>4, <1>5 DEF Places
<1>7. pos[1] = 1
  BY <1>4, <1>5, <1>6
<1>8. t[1] = s[1]
  BY <1>2, <1>5, <1>7 DEF Places
<1> QED BY <1>1, <1>5, <1>8 DEF t

\* f has the first place of each of the n keys.
FirstPlaces(f, keys, n) ==
  /\ f \in Seq(1..n)
  /\ \A k, l \in 1..Len(f) : keys[f[k]] = keys[f[l]] => k = l
  /\ \A i \in 1..n : \E k \in 1..Len(f) : keys[f[k]] = keys[i] /\ f[k] <= i
  /\ n # 0 => Len(f) >= 1 /\ f[1] = 1

\* The first places of the keys are found, each once.
LEMMA FirstsIs ==
  ASSUME NEW n \in Nat, NEW keys, DOMAIN keys = 1..n
  PROVE  FirstPlaces(Firsts(keys), keys, n)
<1> DEFINE f == Firsts(keys)
           s == [i \in 1..n |-> i]
           F == {i \in 1..n : \A j \in 1..(i - 1) : keys[j] # keys[i]}
<1>1. s \in Seq(1..n) /\ Len(s) = n /\ \A i \in 1..n : s[i] = i
  OBVIOUS
<1>2. f = Select(s, F)
  BY DEF Firsts
<1> HIDE DEF s, f
<1>3. f \in Seq(1..n)
  BY <1>1, <1>2, SelectType
<1>4. PICK pos : Places(pos, f, s, n, F)
  <2> HIDE DEF F
  <2>1. \E pos : Places(pos, Select(s, F), s, Len(s), F)
    BY <1>1, SelectPlaces
  <2> QED BY <1>1, <1>2, <2>1
<1>5. /\ \A k \in 1..Len(f) : f[k] \in F /\ f[k] \in 1..n /\ pos[k] = f[k]
      /\ \A k, l \in 1..Len(f) : k < l => f[k] < f[l]
      /\ \A i \in F : \E k \in 1..Len(f) : f[k] = i
  <2>1. F \subseteq 1..n
    OBVIOUS
  <2> HIDE DEF F
  <2>2. \A k \in 1..Len(f) : pos[k] \in 1..n /\ f[k] = s[pos[k]] /\ f[k] \in F
    BY <1>4 DEF Places
  <2>3. \A k \in 1..Len(f) : f[k] \in F /\ f[k] \in 1..n /\ pos[k] = f[k]
    BY <1>1, <2>2
  <2>4. \A k, l \in 1..Len(f) : k < l => f[k] < f[l]
    BY <1>4, <2>3 DEF Places
  <2>5. \A i \in F : \E k \in 1..Len(f) : f[k] = i
    <3>1. ASSUME NEW i \in F PROVE \E k \in 1..Len(f) : f[k] = i
      <4>1. i \in 1..n /\ s[i] \in F
        BY <1>1, <2>1
      <4> QED BY <1>4, <2>3, <4>1 DEF Places
    <3> QED BY <3>1
  <2> QED BY <2>3, <2>4, <2>5
<1>6. ASSUME NEW k \in 1..Len(f), NEW l \in 1..Len(f), keys[f[k]] = keys[f[l]] PROVE k = l
  <2>1. f[k] \in 1..n /\ f[l] \in 1..n /\ f[k] \in F /\ f[l] \in F
    BY <1>5
  <2>2. ~(f[k] < f[l]) /\ ~(f[l] < f[k])
    BY <1>6, <2>1
  <2>3. ~(k < l) /\ ~(l < k)
    BY <1>5, <2>2
  <2> QED BY <2>3
<1>7. ASSUME NEW i \in 1..n PROVE \E k \in 1..Len(f) : keys[f[k]] = keys[i] /\ f[k] <= i
  <2> DEFINE T == {j \in 1..n : keys[j] = keys[i]}
  <2>1. PICK j \in T : \A m \in T : j <= m
    <3>1. T \subseteq Nat /\ i \in T
      OBVIOUS
    <3> HIDE DEF T
    <3> QED BY <3>1, LeastNat
  <2>2. j \in F /\ j <= i
    <3>1. ASSUME NEW m \in 1..(j - 1), keys[m] = keys[j] PROVE FALSE
      <4>1. m \in T /\ m < j
        BY <3>1
      <4> QED BY <2>1, <4>1
    <3> QED BY <2>1, <3>1
  <2>3. PICK k \in 1..Len(f) : f[k] = j
    BY <1>5, <2>2
  <2> QED BY <2>1, <2>2, <2>3
<1>8. ASSUME n # 0 PROVE Len(f) >= 1 /\ f[1] = 1
  <2>1. s # <<>> /\ s[1] = 1 /\ 1 \in F
    BY <1>1, <1>8
  <2> HIDE DEF F
  <2> QED BY <1>1, <1>2, <2>1, SelectFirst
<1> QED BY <1>3, <1>6, <1>7, <1>8 DEF FirstPlaces, f

\* Dropping duplicates keeps the first copy of every text.
LEMMA FirstCopiesIs ==
  ASSUME NEW A, NEW s \in Seq(A), NEW c, c = FirstCopies(s)
  PROVE  /\ c \in Seq(A)
         /\ \A k, l \in 1..Len(c) : c[k].text = c[l].text => k = l
         /\ \A i \in 1..Len(s) : \E k \in 1..Len(c), m \in 1..Len(s) :
              c[k] = s[m] /\ s[m].text = s[i].text /\ m <= i
         /\ s # <<>> => Len(c) >= 1
<1> DEFINE n == Len(s)
           keys == [i \in 1..n |-> s[i].text]
           f == Firsts(keys)
<1>1. n \in Nat /\ DOMAIN s = 1..n /\ (s # <<>> => n # 0) /\ \A i \in 1..n : s[i] \in A
  OBVIOUS
<1>2. DOMAIN keys = 1..n /\ \A i \in 1..n : keys[i] = s[i].text
  OBVIOUS
<1> HIDE DEF keys
<1>3. c = [k \in DOMAIN f |-> s[f[k]]]
  BY <1>1 DEF FirstCopies, keys
<1>4. FirstPlaces(f, keys, n)
  <2> HIDE DEF n
  <2> QED BY <1>1, <1>2, FirstsIs
<1> HIDE DEF f, n
<1>5. DOMAIN f = 1..Len(f) /\ Len(f) \in Nat /\ \A k \in 1..Len(f) : f[k] \in 1..n
  <2>1. f \in Seq(1..n)
    BY <1>4 DEF FirstPlaces
  <2> DEFINE N == 1..n
  <2>2. f \in Seq(N)
    BY <2>1
  <2> HIDE DEF N
  <2>3. DOMAIN f = 1..Len(f) /\ Len(f) \in Nat /\ \A k \in 1..Len(f) : f[k] \in N
    BY <2>2
  <2> QED BY <2>3 DEF N
<1>6. c \in Seq(A) /\ Len(c) = Len(f) /\ \A k \in 1..Len(c) : c[k] = s[f[k]]
  BY <1>1, <1>3, <1>5
<1>7. ASSUME NEW k \in 1..Len(c), NEW l \in 1..Len(c), c[k].text = c[l].text PROVE k = l
  <2>1. keys[f[k]] = keys[f[l]]
    BY <1>2, <1>5, <1>6, <1>7
  <2> QED BY <1>4, <1>6, <2>1 DEF FirstPlaces
<1>8. ASSUME NEW i \in 1..n PROVE \E k \in 1..Len(c), m \in 1..n : c[k] = s[m] /\ s[m].text = s[i].text /\ m <= i
  <2>1. PICK k \in 1..Len(f) : keys[f[k]] = keys[i] /\ f[k] <= i
    BY <1>4 DEF FirstPlaces
  <2>2. f[k] \in 1..n /\ s[f[k]].text = s[i].text /\ c[k] = s[f[k]]
    BY <1>2, <1>5, <1>6, <2>1
  <2> QED BY <1>6, <2>1, <2>2
<1>9. n # 0 => Len(c) >= 1
  BY <1>4, <1>6 DEF FirstPlaces
<1> QED BY <1>1, <1>6, <1>7, <1>8, <1>9 DEF n

\* Grouping by document keeps the best passage in front.
LEMMA ByDocumentIs ==
  ASSUME NEW A, NEW s \in Seq(A), s # <<>>, NEW b, b = ByDocument(s)
  PROVE  b \in Seq(Seq(A)) /\ Len(b) >= 1 /\ Len(b[1]) >= 1 /\ b[1][1] = s[1]
<1> DEFINE n == Len(s)
           keys == [i \in 1..n |-> s[i].doc]
           f == Firsts(keys)
           Of(k) == {p \in Range(s) : p.doc = s[f[k]].doc}
<1>1. n \in Nat /\ n # 0 /\ DOMAIN s = 1..n /\ \A i \in 1..n : s[i] \in A
  OBVIOUS
<1>2. DOMAIN keys = 1..n
  OBVIOUS
<1> HIDE DEF keys
<1>3. b = [k \in DOMAIN f |-> Select(s, Of(k))]
  BY <1>1 DEF ByDocument, keys
<1>4. f \in Seq(1..n) /\ Len(f) >= 1 /\ f[1] = 1
  <2>1. FirstPlaces(f, keys, n)
    <3> HIDE DEF n
    <3> QED BY <1>1, <1>2, FirstsIs
  <2> QED BY <1>1, <2>1 DEF FirstPlaces
<1> HIDE DEF f
<1>5. \A k \in DOMAIN f : Select(s, Of(k)) \in Seq(A)
  <2> HIDE DEF Of
  <2> QED BY SelectType
<1>6. s[1] \in Of(1)
  BY <1>1, <1>4 DEF Range
<1>7. Len(Select(s, Of(1))) >= 1 /\ Select(s, Of(1))[1] = s[1]
  <2> HIDE DEF Of
  <2> QED BY <1>6, SelectFirst
<1> HIDE DEF Of
<1>8. DOMAIN f = 1..Len(f) /\ Len(f) \in Nat /\ 1 \in DOMAIN f
  BY <1>4
<1>9. b \in Seq(Seq(A)) /\ Len(b) = Len(f) /\ b[1] = Select(s, Of(1))
  BY <1>3, <1>5, <1>8
<1> QED BY <1>4, <1>7, <1>9

\* flat[i] joins the first i of the blocks.
IsFlat(flat, blocks) ==
  flat = [i \in 1..Len(blocks) |-> IF i = 1 THEN blocks[i] ELSE flat[i - 1] \o blocks[i]]

\* The recursive function of FlattenSeq exists, for blocks of any number.
LEMMA FlatExists ==
  ASSUME NEW A, NEW blocks \in Seq(Seq(A))
  PROVE  \E flat : IsFlat(flat, blocks)
<1> DEFINE W == Len(blocks)
           D == Seq(A)
           next == [p \in (1..W) \X D |-> IF p[1] = 1 THEN blocks[p[1]] ELSE p[2] \o blocks[p[1]]]
           b == <<>>
<1>1. W \in Nat /\ b \in D /\ \A i \in 1..W : blocks[i] \in D
  OBVIOUS
<1>2. next \in [(1..W) \X D -> D]
  <2>1. ASSUME NEW p \in (1..W) \X D
        PROVE  (IF p[1] = 1 THEN blocks[p[1]] ELSE p[2] \o blocks[p[1]]) \in D
    <3>1. p[1] \in 1..W /\ p[2] \in Seq(A) /\ blocks[p[1]] \in Seq(A)
      BY <1>1
    <3> QED BY <3>1
  <2> HIDE DEF D, W
  <2> QED BY <2>1
<1>3. \A i \in 1..W, d \in D : next[<<i, d>>] = IF i = 1 THEN blocks[i] ELSE d \o blocks[i]
  <2> HIDE DEF D, W
  <2> QED OBVIOUS
<1>4. PICK f \in [0..W -> D] : Follows(f, W, b, next)
  <2> HIDE DEF W, D, next, b
  <2> QED BY <1>1, <1>2, Recursion
<1>5. \A i \in 1..W : f[i] = IF i = 1 THEN blocks[i] ELSE f[i - 1] \o blocks[i]
  <2> HIDE DEF W, D, next, b
  <2>1. ASSUME NEW i \in 1..W PROVE f[i] = IF i = 1 THEN blocks[i] ELSE f[i - 1] \o blocks[i]
    <3>1. i \in 0..W /\ i # 0 /\ i - 1 \in 0..W
      BY <1>1
    <3>2. f[i] = next[<<i, f[i - 1]>>] /\ f[i - 1] \in D
      BY <1>4, <3>1 DEF Follows
    <3> QED BY <1>3, <3>2
  <2> QED BY <2>1
<1> DEFINE flat == [i \in 1..W |-> f[i]]
<1>6. flat = [i \in 1..W |-> IF i = 1 THEN blocks[i] ELSE flat[i - 1] \o blocks[i]]
  <2> HIDE DEF D, next, b
  <2>1. ASSUME NEW i \in 1..W PROVE f[i] = IF i = 1 THEN blocks[i] ELSE flat[i - 1] \o blocks[i]
    <3>1. i # 1 => i - 1 \in 1..W
      BY <1>1
    <3> QED BY <1>5, <3>1
  <2> QED BY <2>1
<1> QED BY <1>6 DEF IsFlat

\* Joined blocks are a sequence; one more block comes at the end.
LEMMA FlattenAppend ==
  ASSUME NEW A, NEW blocks \in Seq(Seq(A)), NEW x \in Seq(A)
  PROVE  /\ FlattenSeq(blocks) \in Seq(A)
         /\ FlattenSeq(Append(blocks, x)) = FlattenSeq(blocks) \o x
<1> DEFINE W == Len(blocks)
           more == Append(blocks, x)
           flat == CHOOSE flatten : IsFlat(flatten, blocks)
           longer == CHOOSE flatten : IsFlat(flatten, more)
           B == Seq(A)
<1>1. /\ more \in Seq(B) /\ Len(more) = W + 1 /\ W \in Nat /\ more[W + 1] = x
      /\ \A i \in 1..W : more[i] = blocks[i] /\ blocks[i] \in B
  <2>1. blocks \in Seq(B) /\ x \in B
    OBVIOUS
  <2> HIDE DEF B
  <2> QED BY <2>1
<1>2. IsFlat(flat, blocks)
  BY FlatExists
<1>3. IsFlat(longer, more)
  BY <1>1, FlatExists
<1>4. FlattenSeq(more) = longer[W + 1]
  <2>1. Len(more) # 0
    BY <1>1
  <2> QED BY <1>1, <2>1 DEF FlattenSeq, IsFlat
<1>5. W # 0 => FlattenSeq(blocks) = flat[W]
  BY DEF FlattenSeq, IsFlat
<1>6. W = 0 => FlattenSeq(blocks) = <<>>
  <2>1. W = 0 => blocks = <<>>
    OBVIOUS
  <2> QED BY <2>1 DEF FlattenSeq
<1> HIDE DEF flat, longer, more
<1> DEFINE P == {i \in 0..W : i # 0 => flat[i] = longer[i] /\ flat[i] \in B}
<1>7. 0 \in P
  BY <1>1
<1>8. ASSUME NEW i \in 0..(W - 1), i \in P PROVE i + 1 \in P
  <2>1. i + 1 \in 1..W /\ i + 1 \in 1..(W + 1) /\ i + 1 \in 0..W /\ (i + 1) - 1 = i /\ (i # 0 <=> i + 1 # 1)
    <3>1. W \in Nat /\ i \in 0..(W - 1)
      BY <1>1
    <3> HIDE DEF W
    <3> QED BY <3>1
  <2>2. flat[i + 1] = IF i + 1 = 1 THEN blocks[i + 1] ELSE flat[i] \o blocks[i + 1]
    BY <1>2, <2>1 DEF IsFlat
  <2>3. longer[i + 1] = IF i + 1 = 1 THEN more[i + 1] ELSE longer[i] \o more[i + 1]
    BY <1>1, <1>3, <2>1 DEF IsFlat
  <2>4. more[i + 1] = blocks[i + 1] /\ blocks[i + 1] \in B
    BY <1>1, <2>1
  <2> HIDE DEF W
  <2>5. CASE i = 0
    BY <2>1, <2>2, <2>3, <2>4, <2>5
  <2>6. CASE i # 0
    <3>1. flat[i] = longer[i] /\ flat[i] \in Seq(A) /\ blocks[i + 1] \in Seq(A)
      BY <1>8, <2>4, <2>6
    <3>2. flat[i] \o blocks[i + 1] \in Seq(A)
      BY <3>1
    <3> QED BY <2>1, <2>2, <2>3, <2>4, <2>6, <3>1, <3>2
  <2> QED BY <2>5, <2>6
<1>9. W \in P
  <2>1. 0..W \subseteq P
    <3> HIDE DEF P, W
    <3> QED BY <1>1, <1>7, <1>8, UpTo
  <2> HIDE DEF P
  <2>2. W \in 0..W
    BY <1>1
  <2> QED BY <2>1, <2>2
<1>10. longer[W + 1] = IF W = 0 THEN x ELSE longer[W] \o x
  <2>1. W + 1 \in 1..Len(more) /\ (W + 1) - 1 = W /\ (W + 1 = 1 <=> W = 0)
    BY <1>1
  <2> QED BY <1>1, <1>3, <2>1 DEF IsFlat
<1> HIDE DEF W
<1>11. CASE W = 0
  <2>1. <<>> \o x = x /\ <<>> \in Seq(A)
    OBVIOUS
  <2> QED BY <1>4, <1>6, <1>10, <1>11, <2>1 DEF more
<1>12. CASE W # 0
  <2>1. flat[W] = longer[W] /\ flat[W] \in Seq(A)
    BY <1>9, <1>12
  <2> QED BY <1>4, <1>5, <1>10, <1>12, <2>1 DEF more
<1> QED BY <1>11, <1>12

LEMMA FlattenEmpty == FlattenSeq(<<>>) = <<>>
<1>1. Len(<<>>) = 0
  OBVIOUS
<1> QED BY <1>1 DEF FlattenSeq

\* Two lists of blocks are joined like their elements.
LEMMA FlattenConcat ==
  ASSUME NEW A, NEW a \in Seq(Seq(A)), NEW b \in Seq(Seq(A))
  PROVE  FlattenSeq(a \o b) = FlattenSeq(a) \o FlattenSeq(b)
<1> DEFINE W == Len(b)
           B == Seq(A)
           t(i) == [k \in 1..i |-> b[k]]
           P == {i \in 0..W : FlattenSeq(a \o t(i)) = FlattenSeq(a) \o FlattenSeq(t(i))}
<1>1. a \in Seq(B) /\ b \in Seq(B) /\ W \in Nat /\ (\A i \in 1..W : b[i] \in B) /\ b = t(W)
  OBVIOUS
<1>2. FlattenSeq(a) \in B
  <2>1. <<>> \in Seq(A)
    OBVIOUS
  <2> QED BY <2>1, FlattenAppend
<1> HIDE DEF W
<1>3. 0 \in P
  <2>1. t(0) = <<>>
    OBVIOUS
  <2>2. a \o <<>> = a /\ FlattenSeq(a) \o <<>> = FlattenSeq(a)
    <3>1. a \o <<>> = a
      <4> HIDE DEF B
      <4> QED BY <1>1
    <3> QED BY <1>2, <3>1
  <2> HIDE DEF t
  <2>3. FlattenSeq(a \o t(0)) = FlattenSeq(a) \o FlattenSeq(t(0))
    BY <2>1, <2>2, FlattenEmpty
  <2> QED BY <1>1, <2>3
<1>4. ASSUME NEW i \in 0..(W - 1), i \in P PROVE i + 1 \in P
  <2>1. i + 1 \in 0..W /\ i \in Nat /\ b[i + 1] \in B /\ \A k \in 1..(i + 1) : b[k] \in B
    BY <1>1
  <2> HIDE DEF B
  <2>2. t(i) \in Seq(B) /\ t(i + 1) \in Seq(B) /\ Len(t(i)) = i /\ t(i + 1) = Append(t(i), b[i + 1])
    BY <2>1
  <2>3. a \o t(i + 1) = Append(a \o t(i), b[i + 1]) /\ a \o t(i) \in Seq(B)
    <3> DEFINE u == t(i)
               x == b[i + 1]
    <3>1. u \in Seq(B) /\ x \in B /\ t(i + 1) = Append(u, x)
      BY <2>1, <2>2
    <3> HIDE DEF u, x
    <3>2. a \o Append(u, x) = Append(a \o u, x) /\ a \o u \in Seq(B)
      BY <1>1, <3>1
    <3> QED BY <3>1, <3>2 DEF u, x
  <2> HIDE DEF t
  <2> USE DEF B
  <2>4. /\ FlattenSeq(a \o t(i + 1)) = FlattenSeq(a \o t(i)) \o b[i + 1]
        /\ FlattenSeq(t(i + 1)) = FlattenSeq(t(i)) \o b[i + 1]
        /\ FlattenSeq(t(i)) \in Seq(A)
    BY <2>1, <2>2, <2>3, FlattenAppend
  <2>5. FlattenSeq(a \o t(i)) = FlattenSeq(a) \o FlattenSeq(t(i))
    BY <1>4
  <2> DEFINE u == FlattenSeq(a)
             v == FlattenSeq(t(i))
             w == b[i + 1]
  <2>6. u \in Seq(A) /\ v \in Seq(A) /\ w \in Seq(A)
    BY <1>2, <2>1, <2>4
  <2> HIDE DEF u, v, w
  <2>7. (u \o v) \o w = u \o (v \o w)
    BY <2>6, ConcatAssociative
  <2> QED BY <2>1, <2>4, <2>5, <2>7 DEF u, v, w
<1>5. W \in P
  <2>1. 0..W \subseteq P
    <3> HIDE DEF P
    <3> QED BY <1>1, <1>3, <1>4, UpTo
  <2> HIDE DEF P
  <2>2. W \in 0..W
    BY <1>1
  <2> QED BY <2>1, <2>2
<1> QED
  <2> HIDE DEF t
  <2> QED BY <1>1, <1>5

\* Blocks joined begin with the beginning of the first.
LEMMA FlattenFirst ==
  ASSUME NEW A, NEW blocks \in Seq(Seq(A)), Len(blocks) >= 1, Len(blocks[1]) >= 1
  PROVE  /\ FlattenSeq(blocks) \in Seq(A)
         /\ Len(FlattenSeq(blocks)) >= 1
         /\ FlattenSeq(blocks)[1] = blocks[1][1]
<1> DEFINE W == Len(blocks)
           flat == CHOOSE flatten : IsFlat(flatten, blocks)
<1>1. IsFlat(flat, blocks)
  BY FlatExists
<1>2. FlattenSeq(blocks) = flat[W]
  <2>1. Len(blocks) # 0
    OBVIOUS
  <2> QED BY <2>1 DEF FlattenSeq, IsFlat
<1> HIDE DEF flat
<1>3. W \in Nat /\ W \in 0..W /\ W # 0 /\ \A i \in 1..W : blocks[i] \in Seq(A)
  OBVIOUS
<1> DEFINE P == {i \in 0..W : i # 0 => flat[i] \in Seq(A) /\ Len(flat[i]) >= 1 /\ flat[i][1] = blocks[1][1]}
<1> HIDE DEF W
<1>4. 0 \in P
  BY <1>3
<1>5. ASSUME NEW i \in 0..(W - 1), i \in P PROVE i + 1 \in P
  <2>1. i + 1 \in 1..W /\ i + 1 \in 0..W /\ (i + 1) - 1 = i /\ (i # 0 => i + 1 # 1)
    BY <1>3
  <2>2. flat[i + 1] = IF i + 1 = 1 THEN blocks[i + 1] ELSE flat[i] \o blocks[i + 1]
    BY <1>1, <2>1 DEF IsFlat, W
  <2>3. CASE i = 0
    <3>1. i + 1 = 1
      BY <2>3
    <3>2. flat[i + 1] = blocks[1] /\ blocks[1] \in Seq(A)
      BY <1>3, <2>1, <2>2, <3>1
    <3> QED BY <2>1, <3>2
  <2>4. CASE i # 0
    <3>1. flat[i + 1] = flat[i] \o blocks[i + 1]
      BY <2>1, <2>2, <2>4
    <3>2. flat[i] \in Seq(A) /\ blocks[i + 1] \in Seq(A) /\ Len(flat[i]) >= 1 /\ flat[i][1] = blocks[1][1]
      BY <1>3, <1>5, <2>1, <2>4
    <3> DEFINE u == flat[i]
               v == blocks[i + 1]
    <3>3. u \in Seq(A) /\ v \in Seq(A) /\ Len(u) >= 1
      BY <3>2
    <3> HIDE DEF u, v
    <3>4. u \o v \in Seq(A) /\ Len(u \o v) >= 1 /\ (u \o v)[1] = u[1]
      BY <3>3
    <3> QED BY <2>1, <3>1, <3>2, <3>4 DEF u, v
  <2> QED BY <2>3, <2>4
<1>6. W \in P
  <2> HIDE DEF P
  <2>1. 0..W \subseteq P
    BY <1>3, <1>4, <1>5, UpTo
  <2> QED BY <1>3, <2>1
<1> QED BY <1>2, <1>3, <1>6

\* What fits begins with the first block, however little room there is.
LEMMA FittingFirst ==
  ASSUME NEW A, NEW blocks \in Seq(Seq(A)), Len(blocks) >= 1, Len(blocks[1]) >= 1, NEW room
  PROVE  /\ Fitting(blocks, room) \in Seq(A)
         /\ Len(Fitting(blocks, room)) >= 1
         /\ Fitting(blocks, room)[1] = blocks[1][1]
<1> DEFINE L == Len(blocks)
           Fits(k) == k <= 1 \/ Len(FlattenSeq(FirstOf(k, blocks))) <= room
           K == {k \in 0..L : Fits(k)}
           n == CHOOSE k \in 0..L : Fits(k) /\ \A j \in 0..L : Fits(j) => j <= k
<1>1. Fitting(blocks, room) = FlattenSeq(FirstOf(n, blocks))
  BY DEF Fitting
<1>2. L \in Nat /\ L >= 1 /\ 1 \in 0..L
  OBVIOUS
<1>3. Fits(1)
  OBVIOUS
<1> HIDE DEF Fits, L
<1>4. \E k \in K : \A j \in K : j <= k
  <2> DEFINE T == {L - k : k \in K}
  <2>1. T \subseteq Nat /\ L - 1 \in T
    BY <1>2, <1>3
  <2>2. PICK m \in T : \A l \in T : m <= l
    <3> HIDE DEF T
    <3> QED BY <2>1, LeastNat
  <2>3. PICK k \in K : m = L - k
    BY <2>2
  <2>4. ASSUME NEW j \in K PROVE j <= k
    <3>1. L - j \in T /\ j \in Int /\ k \in Int /\ L \in Int
      BY <1>2, <2>3
    <3>2. L - k <= L - j
      BY <2>2, <2>3, <3>1
    <3> QED BY <3>1, <3>2
  <2> QED BY <2>4
<1>5. n \in 0..L /\ Fits(n) /\ \A j \in 0..L : Fits(j) => j <= n
  <2>1. \E k \in 0..L : Fits(k) /\ \A j \in 0..L : Fits(j) => j <= k
    BY <1>4
  <2> QED BY <2>1
<1> HIDE DEF n
<1>6. n \in Nat /\ n >= 1
  BY <1>2, <1>3, <1>5
<1>7. /\ FirstOf(n, blocks) \in Seq(Seq(A))
      /\ Len(FirstOf(n, blocks)) >= 1
      /\ FirstOf(n, blocks)[1] = blocks[1]
  <2> DEFINE B == Seq(A)
             t == FirstOf(n, blocks)
  <2>1. blocks \in Seq(B)
    OBVIOUS
  <2> HIDE DEF B
  <2>2. /\ t \in Seq(B)
        /\ Len(t) = IF Len(blocks) < n THEN Len(blocks) ELSE n
        /\ \A i \in 1..Len(t) : i \in 1..Len(blocks) /\ t[i] = blocks[i]
    BY <1>6, <2>1, FirstOfIs
  <2> HIDE DEF t
  <2>3. Len(t) >= 1 /\ Len(t) \in Nat
    BY <1>2, <1>6, <2>2 DEF L
  <2>4. 1 \in 1..Len(t)
    BY <2>3
  <2> QED BY <2>2, <2>3, <2>4 DEF B, t
<1> DEFINE t == FirstOf(n, blocks)
<1> HIDE DEF t
<1>8. t \in Seq(Seq(A)) /\ Len(t) >= 1 /\ t[1] = blocks[1] /\ Len(t[1]) >= 1
  BY <1>7 DEF t
<1>9. FlattenSeq(t) \in Seq(A) /\ Len(FlattenSeq(t)) >= 1 /\ FlattenSeq(t)[1] = t[1][1]
  BY <1>8, FlattenFirst
<1> QED BY <1>1, <1>8, <1>9 DEF t
LEMMA CountTo ==
  ASSUME NEW n \in Nat
  PROVE  IsFiniteSet(1..n) /\ Cardinality(1..n) = n
<1>1. 1 \in Int /\ n \in Int
  OBVIOUS
<1>2. IsFiniteSet(1..n) /\ Cardinality(1..n) = IF 1 > n THEN 0 ELSE n - 1 + 1
  BY <1>1, FS_Interval
<1>3. (IF 1 > n THEN 0 ELSE n - 1 + 1) = n
  OBVIOUS
<1> QED BY <1>2, <1>3

\* The n best of a sequence: each of its elements is among them or no better
\* than any of them, and one with fewer than n rivals is among them.
BestOf(t, s, n) ==
  \E order :
    /\ Order(order, s)
    /\ Len(t) = IF Len(s) < n THEN Len(s) ELSE n
    /\ \A k \in 1..Len(t) : k \in 1..Len(s) /\ t[k] = s[order[k]]

\* Sorting and cutting gives the n best.
LEMMA FirstBest ==
  ASSUME NEW A, \A x \in A : x.score \in Int, NEW s \in Seq(A), NEW n \in Nat
  PROVE  FirstOf(n, ByScore(s)) \in Seq(A) /\ BestOf(FirstOf(n, ByScore(s)), s, n)
<1> DEFINE b == ByScore(s)
           t == FirstOf(n, b)
<1>1. b \in Seq(A) /\ Len(b) = Len(s)
  BY ByScoreIs
<1>2. PICK order : Order(order, s) /\ \A k \in 1..Len(s) : b[k] = s[order[k]]
  BY ByScoreIs
<1> HIDE DEF b
<1>3. /\ t \in Seq(A)
      /\ Len(t) = IF Len(b) < n THEN Len(b) ELSE n
      /\ \A i \in 1..Len(t) : i \in 1..Len(b) /\ t[i] = b[i]
  BY <1>1, FirstOfIs
<1> HIDE DEF t
<1>4. BestOf(t, s, n)
  BY <1>1, <1>2, <1>3 DEF BestOf
<1> QED BY <1>3, <1>4 DEF t, b

\* What an answer needs of the n best.
Best(t, s, n) ==
  /\ Len(t) <= n
  /\ \A k, l \in 1..Len(t) : k < l => t[k].score >= t[l].score
  /\ \A k \in 1..Len(t) : \E i \in 1..Len(s) : t[k] = s[i]
  /\ \A i \in 1..Len(s) : \/ \E k \in 1..Len(t) : t[k] = s[i]
                          \/ Len(t) = n /\ \A k \in 1..Len(t) : t[k].score >= s[i].score
  /\ \A i \in 1..Len(s) :
       Cardinality({j \in 1..Len(s) \ {i} : s[j].score >= s[i].score}) < n =>
         \E k \in 1..Len(t) : t[k] = s[i]
  /\ s # <<>> /\ n # 0 => t # <<>>

\* Passages with fewer than n rivals have their place among the n best.
LEMMA BestIs ==
  ASSUME NEW A, \A x \in A : x.score \in Int, NEW s \in Seq(A), NEW n \in Nat, NEW t \in Seq(A), BestOf(t, s, n)
  PROVE  Best(t, s, n)
<1>1. PICK order :
        /\ Order(order, s)
        /\ Len(t) = IF Len(s) < n THEN Len(s) ELSE n
        /\ \A k \in 1..Len(t) : k \in 1..Len(s) /\ t[k] = s[order[k]]
  BY DEF BestOf
<1> DEFINE N == Len(s)
<1>2. /\ order \in [1..N -> 1..N]
      /\ \A i \in 1..N : \E k \in 1..N : order[k] = i
      /\ \A k, l \in 1..N : order[k] = order[l] => k = l
      /\ \A k, l \in 1..N : k < l => s[order[k]].score >= s[order[l]].score
  BY <1>1 DEF Order
<1>3. N \in Nat /\ Len(t) \in Nat /\ Len(t) <= n /\ Len(t) <= N /\ \A i \in 1..N : s[i].score \in Int
  BY <1>1
<1>4. \A k, l \in 1..Len(t) : k < l => t[k].score >= t[l].score
  BY <1>1, <1>2
<1>5. \A k \in 1..Len(t) : \E i \in 1..N : t[k] = s[i]
  BY <1>1, <1>2
<1>6. ASSUME NEW i \in 1..N, \A k \in 1..Len(t) : t[k] # s[i]
      PROVE  \E k \in 1..N : order[k] = i /\ k > Len(t) /\ Len(t) = n
  <2>1. PICK k \in 1..N : order[k] = i
    BY <1>2
  <2>2. k \notin 1..Len(t)
    BY <1>1, <1>6, <2>1
  <2>3. k > Len(t) /\ Len(t) # N
    BY <1>3, <2>2
  <2> QED BY <1>1, <2>1, <2>3
<1>7. ASSUME NEW i \in 1..N, \A k \in 1..Len(t) : t[k] # s[i]
      PROVE  Len(t) = n /\ \A k \in 1..Len(t) : t[k].score >= s[i].score
  <2>1. PICK k \in 1..N : order[k] = i /\ k > Len(t) /\ Len(t) = n
    BY <1>6, <1>7
  <2>2. ASSUME NEW l \in 1..Len(t) PROVE t[l].score >= s[i].score
    <3>1. l \in 1..N /\ l < k /\ t[l] = s[order[l]]
      BY <1>1, <1>3, <2>1
    <3> QED BY <1>2, <2>1, <3>1
  <2> QED BY <2>1, <2>2
<1>8. ASSUME NEW i \in 1..N, Cardinality({j \in 1..N \ {i} : s[j].score >= s[i].score}) < n,
             \A k \in 1..Len(t) : t[k] # s[i]
      PROVE  FALSE
  <2> DEFINE R == {j \in 1..N \ {i} : s[j].score >= s[i].score}
  <2>1. PICK k \in 1..N : order[k] = i /\ k > Len(t) /\ Len(t) = n
    BY <1>6, <1>8
  <2> DEFINE g == [l \in 1..n |-> order[l]]
  <2>2. ASSUME NEW l \in 1..n PROVE order[l] \in R
    <3>1. l \in 1..N /\ l < k /\ l # k
      BY <1>3, <2>1
    <3>2. order[l] \in 1..N /\ order[l] # i /\ s[order[l]].score >= s[i].score
      BY <1>2, <2>1, <3>1
    <3> QED BY <3>2
  <2>3. \A l, m \in 1..n : order[l] = order[m] => l = m
    <3>1. \A l \in 1..n : l \in 1..N
      BY <1>3, <2>1
    <3> QED BY <1>2, <3>1
  <2>4. IsFiniteSet(R) /\ Cardinality(R) \in Nat /\ Cardinality(R) < n
    <3>1. R \in SUBSET (1..N)
      OBVIOUS
    <3>2. IsFiniteSet(1..N)
      BY <1>3, CountTo
    <3>3. Cardinality(R) < n
      BY <1>8
    <3> HIDE DEF R, N
    <3>4. IsFiniteSet(R)
      BY <3>1, <3>2, FS_Subset
    <3> QED BY <3>3, <3>4, FS_CardinalityType
  <2> HIDE DEF R
  <2>5. g \in Injection(1..n, R)
    BY <2>2, <2>3 DEF Injection, IsInjective
  <2> HIDE DEF g
  <2>6. Cardinality(1..n) <= Cardinality(R)
    BY <2>4, <2>5, FS_Injection
  <2>7. Cardinality(1..n) = n
    BY CountTo
  <2> QED BY <2>4, <2>6, <2>7
<1>9. s # <<>> /\ n # 0 => t # <<>>
  <2>1. s # <<>> => Len(s) # 0
    OBVIOUS
  <2> QED BY <1>1, <2>1
<1> QED BY <1>3, <1>4, <1>5, <1>7, <1>8, <1>9 DEF Best

\* x is in t, or t is full of what is no worse.
InOrBeaten(x, t, n) ==
  \/ \E k \in 1..Len(t) : t[k] = x
  \/ Len(t) = n /\ \A k \in 1..Len(t) : t[k].score >= x.score

\* A merge of what was found with the best public passages.
Merged(all, f, p, n) ==
  /\ Len(all) <= n
  /\ \A k, l \in 1..Len(all) : k < l => all[k].score >= all[l].score
  /\ \A k, l \in 1..Len(all) : all[k].text = all[l].text => k = l
  /\ all = <<>> => f = <<>> /\ p = <<>>
  /\ \A i \in 1..Len(f) : \E m \in 1..Len(f) :
       m <= i /\ f[m].text = f[i].text /\ InOrBeaten(f[m], all, n)
  /\ \A i \in 1..Len(p) :
       Cardinality({j \in 1..Len(p) \ {i} : p[j].score >= p[i].score}) < n =>
         \/ \E m \in 1..Len(f) : f[m].text = p[i].text
         \/ \E m \in 1..Len(p) :
              p[m].text = p[i].text /\ p[m].score >= p[i].score /\ InOrBeaten(p[m], all, n)

\* What joins two sequences.
Join(u, f, t) ==
  /\ Len(u) = Len(f) + Len(t) /\ Len(f) \in Nat /\ Len(t) \in Nat
  /\ \A i \in 1..Len(f) : u[i] = f[i] /\ i \in 1..Len(u)
  /\ \A i \in 1..Len(t) : u[Len(f) + i] = t[i] /\ Len(f) + i \in 1..Len(u)
  /\ \A i \in 1..Len(u) : i \in 1..Len(f) \/ \E j \in 1..Len(t) : i = Len(f) + j

LEMMA Joined ==
  ASSUME NEW A, NEW f \in Seq(A), NEW t \in Seq(A)
  PROVE  f \o t \in Seq(A) /\ Join(f \o t, f, t)
<1>1. f \o t \in Seq(A) /\ Len(f \o t) = Len(f) + Len(t) /\ Len(f) \in Nat /\ Len(t) \in Nat
  OBVIOUS
<1>2. \A i \in 1..Len(f) : (f \o t)[i] = f[i] /\ i \in 1..Len(f \o t)
  OBVIOUS
<1>3. ASSUME NEW i \in 1..Len(t)
      PROVE  (f \o t)[Len(f) + i] = t[i] /\ Len(f) + i \in 1..Len(f \o t)
  OBVIOUS
<1>4. ASSUME NEW i \in 1..Len(f \o t), i \notin 1..Len(f)
      PROVE  i - Len(f) \in 1..Len(t) /\ i = Len(f) + (i - Len(f))
  BY <1>1, <1>4
<1> QED BY <1>1, <1>2, <1>3, <1>4 DEF Join

\* The RAG service's merge, without duplicates and cut again, loses no certain passage.
LEMMA Merging ==
  ASSUME NEW A, \A x \in A : x.score \in Int, NEW f \in Seq(A), NEW p \in Seq(A), NEW n \in Nat \ {0},
         NEW all, all = FirstOf(n, ByScore(FirstCopies(f \o FirstOf(n, ByScore(p)))))
  PROVE  all \in Seq(A) /\ Merged(all, f, p, n)
<1> DEFINE t == FirstOf(n, ByScore(p))
           s == f \o t
           c == FirstCopies(s)
           F == Len(f)
<1>1. n \in Nat /\ n # 0
  OBVIOUS
<1>2. t \in Seq(A) /\ BestOf(t, p, n)
  BY <1>1, FirstBest
<1> HIDE DEF t
<1>3. /\ Len(t) <= n
      /\ \A k, l \in 1..Len(t) : k < l => t[k].score >= t[l].score
      /\ \A k \in 1..Len(t) : \E i \in 1..Len(p) : t[k] = p[i]
      /\ \A i \in 1..Len(p) :
           Cardinality({j \in 1..Len(p) \ {i} : p[j].score >= p[i].score}) < n =>
             \E k \in 1..Len(t) : t[k] = p[i]
      /\ p # <<>> /\ n # 0 => t # <<>>
  <2>1. Best(t, p, n)
    BY <1>1, <1>2, BestIs
  <2> QED BY <2>1 DEF Best
<1>4. /\ s \in Seq(A) /\ Len(s) = F + Len(t) /\ F \in Nat /\ Len(t) \in Nat
      /\ \A i \in 1..F : s[i] = f[i] /\ i \in 1..Len(s)
      /\ \A i \in 1..Len(t) : s[F + i] = t[i] /\ F + i \in 1..Len(s)
      /\ \A i \in 1..Len(s) : i \in 1..F \/ \E j \in 1..Len(t) : i = F + j
  <2>1. s \in Seq(A) /\ Join(s, f, t)
    BY <1>2, Joined
  <2> QED BY <2>1 DEF Join
<1> HIDE DEF s
<1>5. /\ c \in Seq(A)
      /\ \A k, l \in 1..Len(c) : c[k].text = c[l].text => k = l
      /\ \A i \in 1..Len(s) : \E k \in 1..Len(c), m \in 1..Len(s) :
           c[k] = s[m] /\ s[m].text = s[i].text /\ m <= i
      /\ s # <<>> => Len(c) >= 1
  BY <1>4, FirstCopiesIs
<1> HIDE DEF c
<1>6. all \in Seq(A) /\ BestOf(all, c, n)
  <2>1. all = FirstOf(n, ByScore(c))
    BY DEF c, s, t
  <2> QED BY <1>1, <1>5, <2>1, FirstBest
<1>7. /\ Len(all) <= n
      /\ \A k, l \in 1..Len(all) : k < l => all[k].score >= all[l].score
      /\ \A i \in 1..Len(c) : \/ \E k \in 1..Len(all) : all[k] = c[i]
                              \/ Len(all) = n /\ \A k \in 1..Len(all) : all[k].score >= c[i].score
      /\ c # <<>> /\ n # 0 => all # <<>>
  <2>1. Best(all, c, n)
    BY <1>1, <1>5, <1>6, BestIs
  <2> QED BY <2>1 DEF Best
<1>8. ASSUME NEW k \in 1..Len(all), NEW l \in 1..Len(all), all[k].text = all[l].text PROVE k = l
  <2>1. PICK order :
        /\ Order(order, c)
        /\ \A j \in 1..Len(all) : j \in 1..Len(c) /\ all[j] = c[order[j]]
    BY <1>6 DEF BestOf
  <2>2. /\ order \in [1..Len(c) -> 1..Len(c)]
        /\ \A i, j \in 1..Len(c) : order[i] = order[j] => i = j
    BY <2>1 DEF Order
  <2>3. k \in 1..Len(c) /\ l \in 1..Len(c) /\ order[k] \in 1..Len(c) /\ order[l] \in 1..Len(c)
    BY <2>1, <2>2
  <2>4. order[k] = order[l]
    <3>1. all[k] = c[order[k]] /\ all[l] = c[order[l]]
      BY <2>1
    <3> QED BY <1>5, <1>8, <2>3, <3>1
  <2> QED BY <2>2, <2>3, <2>4
<1>9. ASSUME all = <<>> PROVE f = <<>> /\ p = <<>>
  <2>1. c = <<>> /\ s = <<>>
    <3>1. c = <<>>
      BY <1>1, <1>7, <1>9
    <3>2. Len(c) = 0
      BY <3>1
    <3> QED BY <1>5, <3>1, <3>2
  <2>2. F = 0 /\ Len(t) = 0
    <3>1. Len(s) = 0
      BY <2>1
    <3> QED BY <1>4, <3>1
  <2> QED BY <1>1, <1>2, <1>3, <2>2
<1>10. ASSUME NEW i \in 1..F
       PROVE  \E m \in 1..F : m <= i /\ f[m].text = f[i].text /\ InOrBeaten(f[m], all, n)
  <2>1. PICK k \in 1..Len(c), m \in 1..Len(s) : c[k] = s[m] /\ s[m].text = s[i].text /\ m <= i
    BY <1>4, <1>5
  <2>2. m \in 1..F /\ s[m] = f[m] /\ s[i] = f[i]
    BY <1>4, <2>1
  <2>3. InOrBeaten(f[m], all, n)
    BY <1>7, <2>1, <2>2 DEF InOrBeaten
  <2> QED BY <2>1, <2>2, <2>3
<1>11. ASSUME NEW i \in 1..Len(p), Cardinality({j \in 1..Len(p) \ {i} : p[j].score >= p[i].score}) < n
       PROVE  \/ \E m \in 1..F : f[m].text = p[i].text
              \/ \E m \in 1..Len(p) :
                   p[m].text = p[i].text /\ p[m].score >= p[i].score /\ InOrBeaten(p[m], all, n)
  <2>1. PICK h \in 1..Len(t) : t[h] = p[i]
    BY <1>3, <1>11
  <2>2. F + h \in 1..Len(s) /\ s[F + h] = p[i]
    BY <1>4, <2>1
  <2>3. PICK k \in 1..Len(c), m \in 1..Len(s) : c[k] = s[m] /\ s[m].text = s[F + h].text /\ m <= F + h
    BY <1>5, <2>2
  <2>4. CASE m \in 1..F
    BY <1>4, <2>2, <2>3, <2>4
  <2>5. CASE m \notin 1..F
    <3>1. PICK j \in 1..Len(t) : m = F + j
      BY <1>4, <2>5
    <3>2. s[m] = t[j] /\ j <= h
      BY <1>4, <2>3, <3>1
    <3>3. t[j].score >= t[h].score
      <4>1. t[h].score \in Int
        BY <1>2
      <4>2. CASE j = h
        BY <4>1, <4>2
      <4>3. CASE j # h
        <5>1. j < h
          BY <3>2, <4>3
        <5> QED BY <1>3, <5>1
      <4> QED BY <4>2, <4>3
    <3>4. PICK e \in 1..Len(p) : t[j] = p[e]
      BY <1>3
    <3>5. InOrBeaten(p[e], all, n)
      BY <1>7, <2>3, <3>2, <3>4 DEF InOrBeaten
    <3> QED BY <2>1, <2>2, <2>3, <3>2, <3>3, <3>4, <3>5
  <2> QED BY <2>4, <2>5
<1> QED BY <1>6, <1>7, <1>8, <1>9, <1>10, <1>11 DEF Merged
-----------------------------------------------------------------------------
\* A public passage.
Borrowed == [doc : {"library"}, text : Text, score : Int, space : {"real", "mock"}, copy : {0}]

\* Types of the state that the public sources depend on.
Typed ==
  /\ task \in Task /\ asked \subseteq Document /\ provider \in Provider
  /\ stored \subseteq Row /\ IsFiniteSet(stored)
  /\ similar \in [Text -> 0..Top]
  /\ space \in {"none", "real", "mock"} /\ fallen \in BOOLEAN
  /\ pieces \in Seq(Text) /\ public \in Seq(Borrowed)
  /\ works \in Nat /\ at \in 0..works

\* Which tasks reach which part of the agent.
Phased ==
  /\ pc \in {"works", "next", "url", "doi", "book", "pieces", "books"} => task = "library chat"
  /\ pc \in {"merge", "limited"} => task \in {"chat", "library chat"}
  /\ pc \in {"choose", "insufficient"} => task \in Analysis
  /\ pc = "items" => task = "gaps"

\* Where the embeddings of a provider come from that has one kind only.
Own == IF provider = "openai" THEN "real" ELSE "mock"

\* An embedder that fell back stays so.
FallsOnce ==
  /\ \A i \in DOMAIN public : public[i].space = "mock" => fallen
  /\ \A i, j \in DOMAIN public : i < j /\ public[i].space = "mock" => public[j].space = "mock"

\* A provider with one kind of embeddings has the question's and the passages' of it.
Spaced ==
  /\ provider = "openai" => ~fallen
  /\ provider = "no key" => fallen
  /\ pc = "embed" => public = <<>>
  /\ provider # "compatible" =>
       /\ pc \notin {"embed", "failed"} \/ public # <<>> => space = Own
       /\ \A i \in DOMAIN public : public[i].space = Own
  /\ FallsOnce

\* The works that were tried in vain, while there are no public passages.
Tried ==
  /\ pc \in {"embed", "search", "works"} => public = <<>> /\ vain = {} /\ at = 0 /\ works = 0
  /\ pc \in {"url", "doi", "book", "pieces"} => at >= 1
  /\ public = <<>> =>
       /\ pc = "next" => vain = 1..at
       /\ pc \in {"url", "doi", "book", "pieces"} => vain = 1..(at - 1)
       /\ pc = "books" => vain = 1..works
       /\ pc = "merge" /\ task = "library chat" => vain = 0..works
  /\ pc = "books" => public = <<>>
  /\ pc = "limited" /\ task = "library chat" => vain = 0..works

SourcesInv == Typed /\ Phased /\ Spaced /\ Tried

LEMMA Constants ==
  /\ ChatTopK \in Nat \ {0} /\ WideTopK \in Nat \ {0} /\ Top \in Nat \ {0} /\ PerWork \in Nat \ {0}
  /\ MaxTotal \in Nat \ {0} /\ Room \in Nat \ {0} /\ MaxGaps \in Nat \ {0} /\ MaxCited \in Nat \ {0}
  /\ MaxWorks \in Nat \ {0} /\ MinScore \in Int
BY AnswersAssumption

LEMMA TopKIs == TopK \in Nat \ {0}
BY Constants DEF TopK

LEMMA PiecesIs ==
  ASSUME NEW d \in Pieces
  PROVE  d \in Seq(Text) /\ (d # <<>> => Len(d) >= 1)
<1>1. PICK m \in 0..MaxPieces : d \in [1..m -> Text]
  BY DEF Pieces, SeqOf
<1>2. MaxPieces \in Nat
  BY AnswersAssumption
<1>3. d \in Seq(Text)
  BY <1>1, <1>2
<1> QED BY <1>3

LEMMA ScoreIs ==
  ASSUME similar \in [Text -> 0..Top], NEW texts \in Seq(Text), NEW k \in {"real", "mock"}, NEW s \in Score(texts, k)
  PROVE  s \in Seq(Borrowed) /\ Len(s) = Len(texts) /\ \A i \in 1..Len(s) : s[i].space = k
<1>1. PICK f \in [Text -> Int] : s = [i \in DOMAIN texts |-> Passage("library", texts[i], f[texts[i]], k, 0)]
  <2>1. PICK f \in (IF k = space THEN {similar} ELSE [Text -> {0, Top}]) :
          s = [i \in DOMAIN texts |-> Passage("library", texts[i], f[texts[i]], k, 0)]
    BY DEF Score
  <2>2. f \in [Text -> Int]
    BY Constants
  <2> QED BY <2>1, <2>2
<1>2. DOMAIN texts = 1..Len(texts) /\ Len(texts) \in Nat /\ \A i \in 1..Len(texts) : texts[i] \in Text
  OBVIOUS
<1>3. ASSUME NEW i \in 1..Len(texts)
      PROVE  /\ Passage("library", texts[i], f[texts[i]], k, 0) \in Borrowed
             /\ Passage("library", texts[i], f[texts[i]], k, 0).space = k
  BY <1>1, <1>2 DEF Passage, Borrowed
<1>4. s \in Seq(Borrowed) /\ Len(s) = Len(texts)
  BY <1>1, <1>2, <1>3
<1> QED BY <1>1, <1>2, <1>3, <1>4

LEMMA SpacesIs ==
  ASSUME NEW mock \in BOOLEAN, NEW k \in Spaces(mock), provider \in Provider
  PROVE  /\ k \in {"real", "mock"}
         /\ provider # "compatible" /\ (provider = "openai" => ~mock) /\ (provider = "no key" => mock) =>
              k = Own /\ (provider = "openai" => k # "mock") /\ (provider = "no key" => k = "mock")
BY DEF Spaces, ShouldFallback, Provider, Own

LEMMA SourcesInit == Init => SourcesInv
<1> SUFFICES ASSUME Init PROVE SourcesInv
  OBVIOUS
<1>1. /\ task \in Task /\ provider \in Provider /\ similar \in [Text -> 0..Top]
      /\ pc = "embed" /\ space = "none" /\ works = 0 /\ at = 0 /\ fallen = (provider = "no key")
      /\ pieces = <<>> /\ public = <<>> /\ vain = {}
  BY DEF Init
<1>2. asked \in SUBSET Document
  BY DEF Init
<1>3. stored \subseteq Row /\ IsFiniteSet(stored)
  BY AnswersAssumption DEF Init
<1>4. pieces \in Seq(Text) /\ public \in Seq(Borrowed) /\ DOMAIN public = {}
  <2>1. <<>> \in Seq(Text) /\ <<>> \in Seq(Borrowed)
    OBVIOUS
  <2>2. Len(<<>>) = 0 /\ 1..0 = {}
    OBVIOUS
  <2>3. DOMAIN <<>> = {}
    BY <2>1, <2>2
  <2>4. pieces = <<>> /\ public = <<>>
    BY <1>1
  <2> QED BY <2>1, <2>3, <2>4
<1>5. Typed
  <2>1. 0 \in Nat /\ 0 \in 0..0
    OBVIOUS
  <2>2. works = 0 /\ at = 0 /\ space = "none"
    BY <1>1
  <2>3. works \in Nat /\ at \in 0..works /\ space \in {"none", "real", "mock"}
    BY <2>1, <2>2
  <2>4. fallen \in BOOLEAN
    <3>1. (provider = "no key") \in BOOLEAN
      OBVIOUS
    <3> QED BY <1>1, <3>1, Zenon
  <2> QED BY <1>1, <1>2, <1>3, <1>4, <2>3, <2>4 DEF Typed
<1>6. Phased
  BY <1>1 DEF Phased
<1>7. Spaced
  BY <1>1, <1>4 DEF Spaced, FallsOnce
<1>8. Tried
  BY <1>1 DEF Tried
<1> QED BY <1>5, <1>6, <1>7, <1>8 DEF SourcesInv

\* What does not touch the sources' part of the state.
LEMMA SourcesAside ==
  ASSUME SourcesInv, UNCHANGED <<request, space, library>>,
         \/ pc \in {"model", "choose", "items"} /\
            pc' \in {"model", "insufficient", "answered", "failed", "items"} /\ (pc' = "items" => task = "gaps")
            /\ (pc' = "insufficient" => pc = "choose")
         \/ pc = "search" /\ pc' = "failed"
         \/ pc' = pc
  PROVE  SourcesInv'
<1>1. /\ UNCHANGED <<task, asked, provider, stored, similar, space, works, at, offer, fallen, pieces, public, vain>>
  BY DEF request, library
<1>2. Typed'
  BY <1>1 DEF SourcesInv, Typed
<1>3. Phased'
  BY <1>1 DEF SourcesInv, Phased
<1>4. Spaced'
  BY <1>1 DEF SourcesInv, Spaced, FallsOnce, Own
<1>5. Tried'
  BY <1>1 DEF SourcesInv, Tried
<1> QED BY <1>2, <1>3, <1>4, <1>5 DEF SourcesInv

LEMMA FetchKeeps ==
  ASSUME SourcesInv, NEW route, NEW otherwise, Fetch(route, otherwise),
         <<route, otherwise>> \in {<<"url", "doi">>, <<"doi", "book">>, <<"book", "next">>}
  PROVE  SourcesInv'
<1>1. /\ UNCHANGED <<task, asked, provider, stored, similar, space, works, at, fallen, public>>
      /\ pc = route /\ route \in {"url", "doi", "book"}
      /\ \/ pc' = "pieces" /\ pieces' \in Pieces
         \/ pc' \in {"doi", "book", "next"} /\ pieces' = pieces
      /\ vain' = IF pc' = "next" THEN vain \cup {at} ELSE vain
  BY DEF Fetch, Go, request
<1>2. pieces' \in Seq(Text)
  BY <1>1, PiecesIs DEF SourcesInv, Typed
<1>3. Typed'
  BY <1>1, <1>2 DEF SourcesInv, Typed
<1>4. task = "library chat" /\ Phased'
  BY <1>1 DEF SourcesInv, Phased
<1>5. Spaced'
  BY <1>1 DEF SourcesInv, Spaced, FallsOnce, Own
<1>6. at \in Nat /\ at >= 1 /\ (public = <<>> => vain = 1..(at - 1))
  <2>1. works \in Nat /\ at \in 0..works
    BY DEF SourcesInv, Typed
  <2>2. at >= 1 /\ (public = <<>> => vain = 1..(at - 1))
    BY <1>1 DEF SourcesInv, Tried
  <2> QED BY <2>1, <2>2
<1>7. public = <<>> /\ pc' = "next" => vain' = 1..at
  BY <1>1, <1>6
<1>8. Tried'
  BY <1>1, <1>2, <1>6, <1>7 DEF Tried
<1> QED BY <1>3, <1>4, <1>5, <1>8 DEF SourcesInv

LEMMA EmbedPiecesKeeps == ASSUME SourcesInv, EmbedPieces PROVE SourcesInv'
<1>1. PICK k \in Spaces(fallen) : \E s \in Score(FirstOf(PerWork, pieces), k) :
        public' = public \o s /\ fallen' = (k = "mock")
  BY DEF EmbedPieces
<1>2. PICK s \in Score(FirstOf(PerWork, pieces), k) : public' = public \o s /\ fallen' = (k = "mock")
  BY <1>1
<1>3. /\ UNCHANGED <<task, asked, provider, stored, similar, space, works, at, vain>>
      /\ pc = "pieces" /\ pc' = "next" /\ pieces' = <<>>
  BY DEF EmbedPieces, Go, request
<1>4. pieces \in Seq(Text) /\ pieces # <<>> /\ fallen \in BOOLEAN /\ provider \in Provider /\ public \in Seq(Borrowed)
      /\ similar \in [Text -> 0..Top]
  BY <1>3 DEF EmbedPieces, SourcesInv, Typed
<1>5. /\ k \in {"real", "mock"}
      /\ provider # "compatible" => k = Own /\ (provider = "openai" => k # "mock") /\ (provider = "no key" => k = "mock")
  BY <1>4, SpacesIs DEF SourcesInv, Spaced
<1> DEFINE texts == FirstOf(PerWork, pieces)
<1>6. texts \in Seq(Text) /\ Len(texts) >= 1
  <2>1. PerWork \in Nat /\ PerWork >= 1
    BY Constants
  <2>2. texts \in Seq(Text) /\ Len(texts) = IF Len(pieces) < PerWork THEN Len(pieces) ELSE PerWork
    BY <1>4, <2>1, FirstOfIs
  <2>3. Len(pieces) >= 1 /\ Len(pieces) \in Nat
    BY <1>4
  <2> HIDE DEF texts
  <2> QED BY <2>1, <2>2, <2>3
<1> HIDE DEF texts
<1>7. s \in Seq(Borrowed) /\ Len(s) >= 1 /\ \A i \in 1..Len(s) : s[i].space = k
  <2>1. s \in Score(texts, k)
    BY <1>2 DEF texts
  <2> QED BY <1>4, <1>5, <1>6, <2>1, ScoreIs
<1>8. /\ public' \in Seq(Borrowed) /\ public' # <<>>
      /\ DOMAIN public' = 1..Len(public')
      /\ DOMAIN public = 1..Len(public)
      /\ \A i \in 1..Len(public') : \/ i \in 1..Len(public) /\ public'[i] = public[i]
                                    \/ \E j \in 1..Len(s) : public'[i] = s[j] /\ i > Len(public)
  <2> DEFINE B == Borrowed
  <2> HIDE DEF B
  <2>1. public \in Seq(B) /\ s \in Seq(B)
    BY <1>4, <1>7 DEF B
  <2> DEFINE u == public \o s
  <2>2. u \in Seq(B) /\ Join(u, public, s)
    BY <2>1, Joined
  <2>3. public' = u
    BY <1>2
  <2> HIDE DEF u
  <2>4. u # <<>> /\ DOMAIN u = 1..Len(u)
    <3>1. Len(u) = Len(public) + Len(s) /\ Len(public) \in Nat
      BY <2>2 DEF Join
    <3>2. Len(u) # 0
      BY <1>7, <3>1
    <3> QED BY <2>2, <3>2
  <2>5. \A i \in 1..Len(u) : \/ i \in 1..Len(public) /\ u[i] = public[i]
                            \/ \E j \in 1..Len(s) : u[i] = s[j] /\ i > Len(public)
    <3>1. ASSUME NEW i \in 1..Len(u), i \notin 1..Len(public)
          PROVE  \E j \in 1..Len(s) : u[i] = s[j] /\ i > Len(public)
      <4>1. PICK j \in 1..Len(s) : i = Len(public) + j
        BY <2>2, <3>1 DEF Join
      <4>2. u[Len(public) + j] = s[j] /\ Len(public) \in Nat
        BY <2>2 DEF Join
      <4> QED BY <4>1, <4>2
    <3> QED BY <2>2, <3>1 DEF Join
  <2> QED BY <2>2, <2>3, <2>4, <2>5 DEF B
<1>9. Typed'
  BY <1>2, <1>3, <1>8 DEF SourcesInv, Typed
<1>10. Phased'
  BY <1>3 DEF SourcesInv, Phased
<1>11. Spaced'
  <2>1. (provider = "openai" => ~fallen') /\ (provider = "no key" => fallen')
    <3>1. provider = "openai" \/ provider = "no key" => provider # "compatible"
      OBVIOUS
    <3> QED BY <1>2, <1>5, <3>1
  <2>2. ASSUME provider # "compatible" PROVE space = Own /\ \A i \in 1..Len(public') : public'[i].space = Own
    <3>1. space = Own /\ \A i \in 1..Len(public) : public[i].space = Own
      <4>1. DOMAIN public = 1..Len(public) /\ pc \notin {"embed", "failed"}
        BY <1>3, <1>4
      <4> QED BY <2>2, <4>1 DEF SourcesInv, Spaced
    <3>2. \A j \in 1..Len(s) : s[j].space = Own
      BY <1>5, <1>7, <2>2
    <3> QED BY <1>8, <3>1, <3>2
  <2>3. Own' = Own
    BY <1>3 DEF Own
  <2>4. FallsOnce'
    <3>1. /\ Len(public) \in Nat
          /\ \A i \in 1..Len(public) : public[i].space = "mock" => fallen
          /\ \A i, j \in 1..Len(public) : i < j /\ public[i].space = "mock" => public[j].space = "mock"
      <4>1. FallsOnce
        BY DEF SourcesInv, Spaced
      <4>2. Len(public) \in Nat
        BY ONLY <1>4
      <4> QED BY <1>8, <4>1, <4>2 DEF FallsOnce
    <3>2. fallen => k = "mock"
      BY DEF Spaces
    <3>3. \A i \in 1..Len(public') : public'[i].space = "mock" => fallen'
      <4>1. \A i \in 1..Len(public) : public[i].space = "mock" => k = "mock"
        BY <3>1, <3>2
      <4> QED BY <1>2, <1>7, <1>8, <4>1
    <3>4. ASSUME NEW i \in 1..Len(public'), NEW j \in 1..Len(public'), i < j, public'[i].space = "mock"
          PROVE  public'[j].space = "mock"
      <4>1. k = "mock"
        BY <1>2, <3>3, <3>4
      <4>2. CASE j \in 1..Len(public)
        <5>1. i \in 1..Len(public) /\ public'[j] = public[j] /\ public'[i] = public[i]
          BY <1>8, <3>1, <3>4, <4>2
        <5>2. public[i].space = "mock"
          BY <3>4, <5>1
        <5>3. public[j].space = "mock"
          BY ONLY <3>1, <3>4, <4>2, <5>1, <5>2
        <5> QED BY <5>1, <5>3
      <4>3. CASE j \notin 1..Len(public)
        BY <1>7, <1>8, <4>1, <4>3
      <4> QED BY <4>2, <4>3
    <3> QED BY <1>8, <3>3, <3>4 DEF FallsOnce
  <2> QED BY <1>3, <1>8, <2>1, <2>2, <2>3, <2>4 DEF Spaced
<1>12. Tried'
  BY <1>3, <1>8 DEF Tried
<1> QED BY <1>9, <1>10, <1>11, <1>12 DEF SourcesInv

LEMMA SearchBooksKeeps == ASSUME SourcesInv, SearchBooks PROVE SourcesInv'
<1>1. /\ UNCHANGED <<task, asked, provider, stored, similar, space, works, at, pieces>>
      /\ pc = "books" /\ pc' = "merge"
  BY DEF SearchBooks, Go, request
<1>2. /\ public = <<>> /\ vain = 1..works /\ works \in Nat /\ fallen \in BOOLEAN /\ provider \in Provider
      /\ similar \in [Text -> 0..Top] /\ public \in Seq(Borrowed)
  BY <1>1 DEF SourcesInv, Typed, Tried
<1>3. Phased'
  BY <1>1 DEF SourcesInv, Phased
<1>4. Own' = Own
  BY <1>1 DEF Own
<1>5. CASE vain' = vain \cup {0} /\ UNCHANGED <<public, fallen>>
  <2>1. Typed'
    BY <1>1, <1>5 DEF SourcesInv, Typed
  <2>2. Spaced'
    BY <1>1, <1>4, <1>5 DEF SourcesInv, Spaced, FallsOnce
  <2>3. vain' = 0..works
    BY <1>2, <1>5
  <2>4. Tried'
    BY <1>1, <2>3 DEF Tried
  <2> QED BY <1>3, <2>1, <2>2, <2>4 DEF SourcesInv
<1>6. CASE \E k \in Spaces(fallen), d \in Pieces \ {<<>>} : \E s \in Score(d, k) :
             public' = s /\ fallen' = (k = "mock") /\ UNCHANGED vain
  <2>1. PICK k \in Spaces(fallen), d \in Pieces \ {<<>>} : \E s \in Score(d, k) :
          public' = s /\ fallen' = (k = "mock") /\ UNCHANGED vain
    BY <1>6
  <2>2. /\ k \in {"real", "mock"}
        /\ provider # "compatible" => k = Own /\ (provider = "openai" => k # "mock") /\ (provider = "no key" => k = "mock")
    BY <1>2, SpacesIs DEF SourcesInv, Spaced
  <2>3. PICK s \in Score(d, k) : public' = s /\ fallen' = (k = "mock")
    BY <2>1
  <2>4. d \in Seq(Text) /\ Len(d) >= 1
    BY PiecesIs
  <2>5. s \in Seq(Borrowed) /\ Len(s) = Len(d) /\ \A i \in 1..Len(s) : s[i].space = k
    BY <1>2, <2>2, <2>4, ScoreIs
  <2>6. public' \in Seq(Borrowed) /\ public' # <<>> /\ DOMAIN public' = 1..Len(public') /\ \A i \in 1..Len(public') : public'[i].space = k
    BY <2>3, <2>4, <2>5
  <2>7. Typed'
    BY <1>1, <2>3, <2>6 DEF SourcesInv, Typed
  <2>8. (provider = "openai" => ~fallen') /\ (provider = "no key" => fallen')
    <3>1. provider = "openai" \/ provider = "no key" => provider # "compatible"
      OBVIOUS
    <3> QED BY <2>2, <2>3, <3>1
  <2>9. provider # "compatible" => space = Own /\ \A i \in 1..Len(public') : public'[i].space = Own
    BY <1>1, <2>2, <2>6 DEF SourcesInv, Spaced
  <2>10. FallsOnce'
    BY <2>3, <2>6 DEF FallsOnce
  <2>11. Spaced'
    BY <1>1, <1>4, <2>6, <2>8, <2>9, <2>10 DEF Spaced
  <2>12. Tried'
    BY <1>1, <2>6 DEF Tried
  <2> QED BY <1>3, <2>7, <2>11, <2>12 DEF SourcesInv
<1> QED BY <1>5, <1>6 DEF SearchBooks

-----------------------------------------------------------------------------
\* The scores of stored passages.
LEMMA ScoredIs ==
  ASSUME Typed
  PROVE  /\ IsFiniteSet(Scored)
         /\ \A x \in Scored : x.score \in Int /\ x.text \in Text
         /\ Relevant \subseteq Scored
         /\ \A x \in Relevant, y \in Scored : y.score >= x.score => y \in Relevant
<1> DEFINE g == [p \in stored |-> Passage(p.doc, p.text, ProjectScore(p), p.space, p.copy)]
<1>1. /\ IsFiniteSet(stored) /\ similar \in [Text -> 0..Top]
      /\ \A p \in stored : p.text \in Text /\ p.stray \in 0..Top
  BY DEF Typed, Row
<1>2. ASSUME NEW p \in stored PROVE ProjectScore(p) \in Int
  <2>1. similar[p.text] \in 0..Top /\ p.stray \in 0..Top
    BY <1>1
  <2> QED BY <2>1, Constants DEF ProjectScore
<1>3. \A x \in Scored : \E p \in stored : x = Passage(p.doc, p.text, ProjectScore(p), p.space, p.copy)
  BY DEF Scored
<1>4. g \in Surjection(stored, Scored)
  BY DEF Surjection, Scored
<1> HIDE DEF g
<1>5. IsFiniteSet(Scored)
  BY <1>1, <1>4, FS_Surjection
<1>6. \A x \in Scored : \E p \in stored : x.text = p.text /\ x.score = ProjectScore(p)
  BY <1>3 DEF Passage
<1>7. \A x \in Scored : x.score \in Int /\ x.text \in Text
  BY <1>1, <1>2, <1>6
<1>8. Relevant \subseteq Scored
  BY DEF Relevant
<1>9. ASSUME NEW x \in Relevant, NEW y \in Scored, y.score >= x.score PROVE y \in Relevant
  <2>1. x.score \in Int /\ y.score \in Int /\ MinScore \in Int /\ x.score >= MinScore
    BY <1>7, Constants DEF Relevant
  <2> QED BY <1>9, <2>1 DEF Relevant
<1> QED BY <1>5, <1>7, <1>8, <1>9

\* What a search ranks does not change during a request.
LEMMA Frame ==
  ASSUME UNCHANGED <<request, space>>
  PROVE  Scored' = Scored /\ Relevant' = Relevant /\ Certain' = Certain /\ TopK' = TopK
<1>1. UNCHANGED <<task, asked, stored, similar, space>>
  BY DEF request
<1>2. Scored' = Scored
  BY <1>1 DEF Scored, ProjectScore
<1>3. Relevant' = Relevant /\ TopK' = TopK
  BY <1>1, <1>2 DEF Relevant, TopK
<1> QED BY <1>2, <1>3 DEF Certain

\* What the search left, once it is done.
Searched == pc \notin {"embed", "search", "failed"} => FoundIn(found, Scored, Relevant, TopK)

LEMMA SearchedBySearch ==
  ASSUME Typed, SearchProject
  PROVE  Searched'
<1>1. UNCHANGED <<request, space>>
  BY DEF SearchProject
<1>2. PICK s \in Rankings(Scored) : found' = Select(FirstOf(TopK, s), Relevant)
  BY DEF SearchProject
<1> DEFINE f == found'
           S == Scored
           R == Relevant
           n == TopK
<1>3. /\ IsFiniteSet(S) /\ (\A x \in S : x.score \in Int) /\ R \subseteq S /\ n \in Nat \ {0}
      /\ \A x \in R, y \in S : y.score >= x.score => y \in R
      /\ s \in Rankings(S) /\ f = Select(FirstOf(n, s), R)
  BY <1>2, ScoredIs, TopKIs
<1> HIDE DEF f, S, R, n
<1>4. FoundIn(f, S, R, n)
  BY <1>3, SearchFinds
<1>5. Scored' = Scored /\ Relevant' = Relevant /\ TopK' = TopK
  BY <1>1, Frame
<1> QED BY <1>4, <1>5 DEF Searched, f, S, R, n

LEMMA SearchedAfter ==
  ASSUME Searched, UNCHANGED <<request, space, found>>, pc \notin {"embed", "search", "failed"} \/ pc' = pc
  PROVE  Searched'
<1>1. UNCHANGED <<request, space>> /\ found' = found
  OBVIOUS
<1>2. Scored' = Scored /\ Relevant' = Relevant /\ TopK' = TopK
  BY <1>1, Frame
<1> QED BY <1>1, <1>2 DEF Searched

-----------------------------------------------------------------------------
\* A context c for the found passages f and the public ones p.
BestContext(c, f, p, C, n) ==
  LET Beaten(x) == Len(c) = n /\ \A i \in DOMAIN c : c[i].score >= x.score
      RivalsOf(i) == {j \in DOMAIN p \ {i} : p[j].score >= p[i].score}
  IN
  /\ Cardinality(Texts(c)) = Len(c) /\ Len(c) <= n /\ Ranked(c)
  /\ \A x \in C : x.text \in Texts(c) \/ Beaten(x)
  /\ \A i \in DOMAIN p : p[i].text \in Texts(c) \cup Texts(f) \/ Beaten(p[i]) \/ Cardinality(RivalsOf(i)) >= n

\* A merge of f, found in S, with the public passages p; those in C are certain.
MergeOf(all, f, p, S, R, P, C, n) ==
  /\ R \subseteq S /\ \A x \in S \cup P : x.score \in Int
  /\ n \in Nat \ {0} /\ \A x \in C : x \in R /\ Cardinality(Rivals(x, S)) < n
  /\ FoundIn(f, S, R, n) /\ p \in Seq(P)
  /\ all = FirstOf(n, ByScore(FirstCopies(f \o FirstOf(n, ByScore(p)))))

\* The merge of what was found is the best context there is.
LEMMA MergeIsBest ==
  ASSUME NEW all, NEW f, NEW p, NEW S, NEW R, NEW P, NEW C, NEW n, MergeOf(all, f, p, S, R, P, C, n)
  PROVE  /\ BestContext(all, f, p, C, n)
         /\ all = <<>> => R = {} /\ p = <<>>
<1> DEFINE A == S \cup P
<1> USE DEF MergeOf
<1>1. /\ f \in Seq(R)
      /\ \A x \in R : Cardinality(Rivals(x, S)) < n => \E i \in 1..Len(f) : f[i] = x
      /\ \A i, j \in 1..Len(f) : i < j => f[i].score >= f[j].score
      /\ f = <<>> => R = {}
  BY DEF FoundIn
<1>2. f \in Seq(A) /\ p \in Seq(A) /\ \A x \in A : x.score \in Int
  BY <1>1
<1> HIDE DEF A
<1>3. all \in Seq(A) /\ Merged(all, f, p, n)
  BY <1>2, Merging
<1>4. /\ Len(all) <= n
      /\ \A k, l \in 1..Len(all) : k < l => all[k].score >= all[l].score
      /\ \A k, l \in 1..Len(all) : all[k].text = all[l].text => k = l
      /\ all = <<>> => f = <<>> /\ p = <<>>
      /\ \A i \in 1..Len(f) : \E m \in 1..Len(f) :
           m <= i /\ f[m].text = f[i].text /\ InOrBeaten(f[m], all, n)
      /\ \A i \in 1..Len(p) :
           Cardinality({j \in 1..Len(p) \ {i} : p[j].score >= p[i].score}) < n =>
             \/ \E m \in 1..Len(f) : f[m].text = p[i].text
             \/ \E m \in 1..Len(p) :
                  p[m].text = p[i].text /\ p[m].score >= p[i].score /\ InOrBeaten(p[m], all, n)
  BY <1>3 DEF Merged
<1>5. DOMAIN all = 1..Len(all) /\ Len(all) \in Nat /\ DOMAIN p = 1..Len(p) /\ DOMAIN f = 1..Len(f)
  BY <1>1, <1>3
<1>6. Cardinality(Texts(all)) = Len(all)
  <2> DEFINE L == Len(all)
             g == [i \in 1..L |-> all[i].text]
  <2>1. g \in Surjection(1..L, Texts(all))
    BY <1>5 DEF Surjection, Texts
  <2>2. g \in Injection(1..L, Texts(all))
    BY <1>4, <1>5 DEF Injection, IsInjective, Texts
  <2>3. IsFiniteSet(1..L) /\ Cardinality(1..L) = L
    BY <1>5, CountTo
  <2> HIDE DEF g, L
  <2>4. Cardinality(Texts(all)) = Cardinality(1..L)
    BY <2>1, <2>2, <2>3, FS_Surjection
  <2> QED BY <2>3, <2>4 DEF L
<1>7. Ranked(all)
  BY <1>4, <1>5 DEF Ranked
<1>8. ASSUME NEW x \in C
      PROVE  x.text \in Texts(all) \/ (Len(all) = n /\ \A i \in DOMAIN all : all[i].score >= x.score)
  <2>1. PICK i \in 1..Len(f) : f[i] = x
    BY <1>1
  <2>2. PICK m \in 1..Len(f) : m <= i /\ f[m].text = f[i].text /\ InOrBeaten(f[m], all, n)
    BY <1>4
  <2>3. f[m].score \in Int /\ f[i].score \in Int
    BY <1>1
  <2>4. f[m].score >= x.score
    <3>1. m = i \/ m < i
      BY <2>2
    <3> QED BY <1>1, <2>1, <2>3, <3>1
  <2>5. CASE \E k \in 1..Len(all) : all[k] = f[m]
    <3>1. PICK k \in DOMAIN all : all[k] = f[m]
      BY <1>5, <2>5
    <3>2. all[k].text \in Texts(all)
      BY DEF Texts
    <3>3. x.text = all[k].text
      BY <2>1, <2>2, <3>1
    <3> QED BY <3>2, <3>3
  <2>6. CASE Len(all) = n /\ \A k \in 1..Len(all) : all[k].score >= f[m].score
    <3>1. ASSUME NEW k \in 1..Len(all) PROVE all[k].score >= x.score
      <4>1. all[k].score \in Int
        BY <1>2, <1>3
      <4> QED BY <2>1, <2>3, <2>4, <2>6, <4>1
    <3> QED BY <1>5, <2>6, <3>1
  <2> QED BY <2>2, <2>5, <2>6 DEF InOrBeaten
<1>9. ASSUME NEW i \in DOMAIN p, ~(Cardinality({j \in DOMAIN p \ {i} : p[j].score >= p[i].score}) >= n)
      PROVE  \/ p[i].text \in Texts(all) \cup Texts(f)
             \/ Len(all) = n /\ \A k \in DOMAIN all : all[k].score >= p[i].score
  <2>1. Cardinality({j \in 1..Len(p) \ {i} : p[j].score >= p[i].score}) < n
    <3> DEFINE Q == {j \in DOMAIN p \ {i} : p[j].score >= p[i].score}
    <3>1. Q \in SUBSET (1..Len(p)) /\ Len(p) \in Nat
      BY <1>5
    <3>2. Cardinality(Q) \in Nat
      <4>1. IsFiniteSet(1..Len(p))
        BY <3>1, CountTo
      <4> HIDE DEF Q
      <4>2. IsFiniteSet(Q)
        BY <3>1, <4>1, FS_Subset
      <4> QED BY <4>2, FS_CardinalityType
    <3>3. ~(Cardinality(Q) >= n)
      BY <1>9
    <3>4. Q = {j \in 1..Len(p) \ {i} : p[j].score >= p[i].score}
      BY <1>5
    <3> HIDE DEF Q
    <3>5. Cardinality(Q) < n
      BY <3>2, <3>3
    <3> QED BY <3>4, <3>5
  <2>2. i \in 1..Len(p)
    BY <1>5
  <2>3. \/ \E m \in 1..Len(f) : f[m].text = p[i].text
        \/ \E m \in 1..Len(p) :
             p[m].text = p[i].text /\ p[m].score >= p[i].score /\ InOrBeaten(p[m], all, n)
    BY <1>4, <2>1, <2>2
  <2>4. CASE \E m \in 1..Len(f) : f[m].text = p[i].text
    BY <1>5, <2>4 DEF Texts
  <2>5. CASE \E m \in 1..Len(p) :
               p[m].text = p[i].text /\ p[m].score >= p[i].score /\ InOrBeaten(p[m], all, n)
    <3>1. PICK m \in 1..Len(p) : p[m].text = p[i].text /\ p[m].score >= p[i].score /\ InOrBeaten(p[m], all, n)
      BY <2>5
    <3>2. CASE \E k \in 1..Len(all) : all[k] = p[m]
      <4>1. PICK k \in DOMAIN all : all[k] = p[m]
        BY <1>5, <3>2
      <4>2. all[k].text \in Texts(all)
        BY DEF Texts
      <4> QED BY <3>1, <4>1, <4>2
    <3>3. CASE Len(all) = n /\ \A k \in 1..Len(all) : all[k].score >= p[m].score
      <4>1. ASSUME NEW k \in 1..Len(all) PROVE all[k].score >= p[i].score
        <5>1. all[k].score \in Int /\ p[m].score \in Int /\ p[i].score \in Int
          BY <1>2, <1>3, <2>2
        <5> QED BY <3>1, <3>3, <5>1
      <4> QED BY <1>5, <3>3, <4>1
    <3> QED BY <3>1, <3>2, <3>3 DEF InOrBeaten
  <2> QED BY <2>3, <2>4, <2>5
<1>10. BestContext(all, f, p, C, n)
  BY <1>4, <1>6, <1>7, <1>8, <1>9 DEF BestContext
<1> QED BY <1>1, <1>4, <1>10

\* The context of a chat, once it is put together.
Contexts ==
  task \in {"chat", "library chat"} /\ pc \in {"model", "answered", "limited"} =>
    /\ BestContext(context, found, public, Certain, TopK)
    /\ pc = "limited" => Relevant = {} /\ public = <<>>

LEMMA ContextsGive == Contexts => ContextIsBest
BY DEF Contexts, ContextIsBest, BestContext

LEMMA ContextsAfter ==
  ASSUME Contexts, UNCHANGED <<request, space, found, public, context>>,
         pc' = pc \/ (pc = "model" /\ pc' = "answered")
  PROVE  Contexts'
<1>1. UNCHANGED <<request, space>> /\ UNCHANGED <<task, found, public, context>>
  BY DEF request
<1>2. Certain' = Certain /\ Relevant' = Relevant /\ TopK' = TopK
  BY <1>1, Frame
<1> QED BY <1>1, <1>2 DEF Contexts

LEMMA MergeKeeps ==
  ASSUME SourcesInv, Searched, Merge
  PROVE  SourcesInv' /\ Searched' /\ Contexts'
<1> DEFINE all == FirstOf(TopK, ByScore(FirstCopies(found \o FirstOf(TopK, ByScore(public)))))
<1>1. /\ UNCHANGED <<request, space>> /\ UNCHANGED <<found, works, at, offer, fallen, pieces, public, vain>>
      /\ UNCHANGED <<task, asked, provider, stored, similar>>
      /\ pc = "merge" /\ pc' = (IF all = <<>> THEN "limited" ELSE "model") /\ context' = all
  BY DEF Merge, Go, library, request
<1>2. FoundIn(found, Scored, Relevant, TopK)
  BY <1>1 DEF Searched
<1>3. /\ IsFiniteSet(Scored) /\ Relevant \subseteq Scored /\ public \in Seq(Borrowed)
      /\ \A x \in Scored \cup Borrowed : x.score \in Int
  <2>1. Typed
    BY DEF SourcesInv
  <2>2. \A x \in Borrowed : x.score \in Int
    BY DEF Borrowed
  <2> QED BY <2>1, <2>2, ScoredIs DEF Typed
<1>4. BestContext(all, found, public, Certain, TopK) /\ (all = <<>> => Relevant = {} /\ public = <<>>)
  <2> DEFINE S == Scored
             R == Relevant
             P == Borrowed
             n == TopK
             f == found
             p == public
             a == all
             C == Certain
  <2>1. /\ R \subseteq S /\ (\A x \in S \cup P : x.score \in Int)
        /\ n \in Nat \ {0} /\ (\A x \in C : x \in R /\ Cardinality(Rivals(x, S)) < n)
        /\ FoundIn(f, S, R, n) /\ p \in Seq(P)
        /\ a = FirstOf(n, ByScore(FirstCopies(f \o FirstOf(n, ByScore(p)))))
    <3>1. \A x \in Certain : x \in Relevant /\ Cardinality(Rivals(x, Scored)) < TopK
      BY DEF Certain
    <3> QED BY <1>2, <1>3, <3>1, TopKIs
  <2> HIDE DEF S, R, P, n, f, p, a, all, C
  <2>2. BestContext(a, f, p, C, n) /\ (a = <<>> => R = {} /\ p = <<>>)
    <3>1. MergeOf(a, f, p, S, R, P, C, n)
      BY <2>1 DEF MergeOf
    <3> QED BY <3>1, MergeIsBest
  <2> QED BY <2>2 DEF R, n, f, p, a, C
<1> HIDE DEF all
<1>5. Certain' = Certain /\ Relevant' = Relevant /\ TopK' = TopK
  BY <1>1, Frame
<1>6. Contexts'
  BY <1>1, <1>4, <1>5 DEF Contexts
<1>7. Searched'
  BY <1>1, SearchedAfter
<1>8. SourcesInv'
  <2>1. Typed'
    BY <1>1 DEF SourcesInv, Typed
  <2>2. Phased'
    BY <1>1 DEF SourcesInv, Phased
  <2>3. Spaced'
    BY <1>1 DEF SourcesInv, Spaced, FallsOnce, Own
  <2>4. Tried'
    BY <1>1, <1>4 DEF SourcesInv, Tried
  <2> QED BY <2>1, <2>2, <2>3, <2>4 DEF SourcesInv
<1> QED BY <1>6, <1>7, <1>8

-----------------------------------------------------------------------------
\* What an analysis needs, and of how many documents.
Wanted == IF task = "gaps" THEN Certain ELSE {p \in Certain : p.doc \in asked}

Needed == IF task = "comparison" THEN 2 ELSE 1

\* A context c that an analysis may be given.
Suited(c) ==
  /\ c # <<>>
  /\ task # "gaps" => Docs(c) \subseteq asked
  /\ \A p \in Wanted : c[1].score >= p.score

\* What an analysis was given, or could not be given.
Analyses ==
  task \in Analysis =>
    /\ pc = "insufficient" => Cardinality({p.doc : p \in Wanted}) < Needed
    /\ pc \in {"model", "items", "answered"} => Suited(context)

LEMMA AnalysesGive == Analyses => InsufficientIsTrue
BY DEF Analyses, InsufficientIsTrue, Suited, Wanted, Needed

LEMMA AnalysesAfter ==
  ASSUME Analyses, UNCHANGED <<request, space, context>>,
         \/ pc' = pc
         \/ pc \in {"model", "items"} /\ pc' \in {"items", "answered"}
         \/ pc' \in {"failed", "choose"}
  PROVE  Analyses'
<1>1. UNCHANGED <<request, space>> /\ UNCHANGED <<task, asked, context>>
  BY DEF request
<1>2. Certain' = Certain
  BY <1>1, Frame
<1>3. Wanted' = Wanted /\ Needed' = Needed
  BY <1>1, <1>2 DEF Wanted, Needed
<1>4. Suited(context)' <=> Suited(context)
  BY <1>1, <1>3 DEF Suited
<1> QED BY <1>1, <1>3, <1>4 DEF Analyses

\* Selected of what was found: the documents asked for, in the order of scores.
LEMMA ChosenIs ==
  ASSUME Typed, FoundIn(found, Scored, Relevant, TopK)
  PROVE  /\ Chosen \in Seq({p \in Relevant : p.doc \in asked})
         /\ \A p \in Certain : p.doc \in asked => \E i \in 1..Len(Chosen) : Chosen[i] = p
         /\ \A i \in 1..Len(Chosen) : Chosen[1].score >= Chosen[i].score
<1> DEFINE R == Relevant
           D == {p \in Scored : p.doc \in asked}
           f == found
           t == Select(f, D)
<1>1. /\ f \in Seq(R)
      /\ \A i, j \in 1..Len(f) : i < j => f[i].score >= f[j].score
      /\ \A x \in R : Cardinality(Rivals(x, Scored)) < TopK => \E i \in 1..Len(f) : f[i] = x
  BY DEF FoundIn
<1>2. R \subseteq Scored /\ \A x \in R : x.score \in Int
  BY ScoredIs
<1>3. \A x \in Certain : x \in R /\ Cardinality(Rivals(x, Scored)) < TopK
  BY DEF Certain
<1>4. Chosen = t
  BY DEF Chosen
<1> HIDE DEF R, D, f
<1>5. t \in Seq(R)
  BY <1>1, SelectType
<1>6. PICK pos : Places(pos, t, f, Len(f), D)
  BY <1>1, SelectPlaces
<1> HIDE DEF t
<1>7. /\ \A i \in 1..Len(t) : pos[i] \in 1..Len(f) /\ t[i] = f[pos[i]] /\ t[i] \in D
      /\ \A i, j \in 1..Len(t) : i < j => pos[i] < pos[j]
      /\ \A k \in 1..Len(f) : f[k] \in D => \E i \in 1..Len(t) : pos[i] = k
  BY <1>6 DEF Places
<1>8. t \in Seq({p \in R : p.doc \in asked})
  <2>1. \A i \in 1..Len(t) : t[i] \in {p \in R : p.doc \in asked}
    BY <1>5, <1>7 DEF D
  <2> QED BY <1>5, <2>1
<1>9. ASSUME NEW x \in Certain, x.doc \in asked PROVE \E i \in 1..Len(t) : t[i] = x
  <2>1. PICK k \in 1..Len(f) : f[k] = x
    BY <1>1, <1>3
  <2>2. f[k] \in D
    BY <1>2, <1>3, <1>9, <2>1 DEF D
  <2> QED BY <1>7, <2>1, <2>2
<1>10. ASSUME NEW i \in 1..Len(t) PROVE t[1].score >= t[i].score
  <2>1. 1 \in 1..Len(t) /\ t[i] \in R
    BY <1>5
  <2>2. CASE i = 1
    <3>1. t[i].score \in Int
      BY <1>2, <2>1
    <3> QED BY <2>2, <3>1
  <2>3. CASE i # 1
    <3>1. 1 < i
      BY <2>3
    <3>2. pos[1] < pos[i] /\ pos[1] \in 1..Len(f) /\ pos[i] \in 1..Len(f)
      BY <1>7, <2>1, <3>1
    <3> QED BY <1>1, <1>7, <2>1, <3>2
  <2> QED BY <2>2, <2>3
<1> QED BY <1>4, <1>8, <1>9, <1>10 DEF R

\* Passages given one by one, or block by block, begin with the first chosen.
LEMMA GivenIs ==
  ASSUME NEW A, NEW s \in Seq(A), s # <<>>, NEW c, c = Fitting(Each(s), Room) \/ c = Fitting(ByDocument(s), Room)
  PROVE  c \in Seq(A) /\ c # <<>> /\ c[1] = s[1]
<1>1. CASE c = Fitting(Each(s), Room)
  <2> DEFINE b == Each(s)
  <2>1. b \in Seq(Seq(A)) /\ Len(b) >= 1 /\ b[1] = <<s[1]>>
    <3>1. DOMAIN s = 1..Len(s) /\ Len(s) \in Nat /\ Len(s) >= 1 /\ \A k \in 1..Len(s) : s[k] \in A
      OBVIOUS
    <3>2. b = [k \in 1..Len(s) |-> <<s[k]>>]
      BY <3>1 DEF Each
    <3>3. \A k \in 1..Len(s) : <<s[k]>> \in Seq(A)
      BY <3>1
    <3> DEFINE B == Seq(A)
    <3>4. \A k \in 1..Len(s) : <<s[k]>> \in B
      BY <3>3
    <3> HIDE DEF b, B
    <3>5. b \in Seq(B) /\ Len(b) = Len(s)
      BY <3>1, <3>2, <3>4
    <3>6. b[1] = <<s[1]>>
      BY <3>1, <3>2
    <3> QED BY <3>1, <3>5, <3>6 DEF B
  <2>2. Len(b[1]) >= 1 /\ b[1][1] = s[1]
    BY <2>1
  <2> HIDE DEF b
  <2>3. Fitting(b, Room) \in Seq(A) /\ Len(Fitting(b, Room)) >= 1 /\ Fitting(b, Room)[1] = b[1][1]
    BY <2>1, <2>2, FittingFirst
  <2> QED BY <1>1, <2>2, <2>3 DEF b
<1>2. CASE c = Fitting(ByDocument(s), Room)
  <2> DEFINE b == ByDocument(s)
  <2>1. b \in Seq(Seq(A)) /\ Len(b) >= 1 /\ Len(b[1]) >= 1 /\ b[1][1] = s[1]
    BY ByDocumentIs
  <2> HIDE DEF b
  <2>2. Fitting(b, Room) \in Seq(A) /\ Len(Fitting(b, Room)) >= 1 /\ Fitting(b, Room)[1] = b[1][1]
    BY <2>1, FittingFirst
  <2> QED BY <1>2, <2>1, <2>2 DEF b
<1> QED BY <1>1, <1>2

\* A summary or comparison of what was chosen.
LEMMA ChosenSuits ==
  ASSUME Typed, FoundIn(found, Scored, Relevant, TopK), task \in {"summary", "comparison"}, Chosen # <<>>,
         NEW c, c = Fitting(Each(Chosen), Room) \/ c = Fitting(ByDocument(Chosen), Room)
  PROVE  Suited(c)
<1> DEFINE A == {p \in Relevant : p.doc \in asked}
           s == Chosen
<1>1. /\ s \in Seq(A)
      /\ \A p \in Certain : p.doc \in asked => \E i \in 1..Len(s) : s[i] = p
      /\ \A i \in 1..Len(s) : s[1].score >= s[i].score
  BY ChosenIs
<1>2. \A p \in A : p.doc \in asked
  OBVIOUS
<1> HIDE DEF A, s
<1>3. c \in Seq(A) /\ c # <<>> /\ c[1] = s[1]
  <2>1. s \in Seq(A) /\ s # <<>> /\ (c = Fitting(Each(s), Room) \/ c = Fitting(ByDocument(s), Room))
    BY <1>1 DEF s
  <2> QED BY <2>1, GivenIs
<1>4. Docs(c) \subseteq asked
  BY <1>2, <1>3 DEF Docs
<1>5. \A p \in Wanted : c[1].score >= p.score
  <2>1. \A p \in Wanted : p \in Certain /\ p.doc \in asked
    BY DEF Wanted
  <2> QED BY <1>1, <1>3, <2>1
<1> QED BY <1>3, <1>4, <1>5 DEF Suited

LEMMA FoundSuits ==
  ASSUME Typed, FoundIn(found, Scored, Relevant, TopK), task = "gaps", found # <<>>,
         NEW c, c = Fitting(Each(found), Room)
  PROVE  Suited(c)
<1> DEFINE f == found
           R == Relevant
<1>1. /\ f \in Seq(R)
      /\ \A i, j \in 1..Len(f) : i < j => f[i].score >= f[j].score
      /\ \A x \in R : Cardinality(Rivals(x, Scored)) < TopK => \E i \in 1..Len(f) : f[i] = x
  BY DEF FoundIn
<1>2. R \subseteq Scored /\ \A x \in R : x.score \in Int
  BY ScoredIs
<1>3. f # <<>> /\ c = Fitting(Each(f), Room)
  OBVIOUS
<1> HIDE DEF f, R
<1>4. c \in Seq(R) /\ c # <<>> /\ c[1] = f[1]
  BY <1>1, <1>3, GivenIs
<1>5. ASSUME NEW p \in Wanted PROVE c[1].score >= p.score
  <2>1. p \in R /\ Cardinality(Rivals(p, Scored)) < TopK
    BY DEF Wanted, Certain, R
  <2>2. PICK i \in 1..Len(f) : f[i] = p
    BY <1>1, <2>1
  <2>3. 1 \in 1..Len(f) /\ p.score \in Int
    BY <1>1, <1>2, <2>1, <2>2
  <2>4. f[1].score >= f[i].score
    <3>1. i = 1 \/ 1 < i
      OBVIOUS
    <3>2. CASE i = 1
      BY <2>2, <2>3, <3>2
    <3>3. CASE 1 < i
      BY <1>1, <2>3, <3>3
    <3> QED BY <3>1, <3>2, <3>3
  <2> QED BY <1>4, <2>2, <2>4
<1> QED BY <1>4, <1>5 DEF Suited

\* Too little was chosen only if too little was certain to be found.
LEMMA TooFew ==
  ASSUME Typed, FoundIn(found, Scored, Relevant, TopK),
         \/ task = "summary" /\ Chosen = <<>>
         \/ task = "comparison" /\ Cardinality(Docs(Chosen)) < 2
         \/ task = "gaps" /\ found = <<>>
  PROVE  Cardinality({p.doc : p \in Wanted}) < Needed
<1> DEFINE W == {p.doc : p \in Wanted}
<1>1. CASE task = "gaps" /\ found = <<>>
  <2>1. Relevant = {}
    BY <1>1 DEF FoundIn
  <2>2. W = {}
    BY <1>1, <2>1 DEF Wanted, Certain
  <2>3. Cardinality(W) = 0
    BY <2>2, FS_EmptySet
  <2> HIDE DEF W
  <2>4. Cardinality(W) < Needed
    BY <1>1, <2>3 DEF Needed
  <2> QED BY <2>4 DEF W
<1>2. CASE task \in {"summary", "comparison"}
  <2> DEFINE s == Chosen
  <2>1. /\ s \in Seq({p \in Relevant : p.doc \in asked})
        /\ \A p \in Certain : p.doc \in asked => \E i \in 1..Len(s) : s[i] = p
    BY ChosenIs
  <2>2. \A p \in Wanted : p \in Certain /\ p.doc \in asked
    BY <1>2 DEF Wanted
  <2> DEFINE g == [i \in 1..Len(s) |-> s[i].doc]
  <2>3. Len(s) \in Nat /\ DOMAIN s = 1..Len(s) /\ (s = <<>> => Len(s) = 0)
    BY <2>1
  <2>4. IsFiniteSet(Docs(s))
    <3>1. g \in Surjection(1..Len(s), Docs(s))
      BY <2>3 DEF Surjection, Docs
    <3>2. IsFiniteSet(1..Len(s))
      BY <2>3, CountTo
    <3> HIDE DEF g, s
    <3> QED BY <3>1, <3>2, FS_Surjection
  <2>5. W \in SUBSET Docs(s)
    <3>1. ASSUME NEW p \in Wanted PROVE p.doc \in Docs(s)
      <4>1. PICK i \in 1..Len(s) : s[i] = p
        BY <2>1, <2>2
      <4>2. s[i].doc \in Docs(s)
        BY <2>3 DEF Docs
      <4> QED BY <4>1, <4>2
    <3> QED BY <3>1
  <2>6. Cardinality(Docs(s)) < Needed
    <3>1. CASE task = "summary"
      <4>1. s = <<>>
        BY <3>1
      <4>2. Docs(s) = {}
        BY <2>3, <4>1 DEF Docs
      <4>3. Cardinality(Docs(s)) = 0
        BY <4>2, FS_EmptySet
      <4> QED BY <3>1, <4>3 DEF Needed
    <3>2. CASE task = "comparison"
      <4>1. Cardinality(Docs(s)) < 2
        BY <3>2
      <4> QED BY <3>2, <4>1 DEF Needed
    <3> QED BY <1>2, <3>1, <3>2
  <2> HIDE DEF W, s
  <2>7. IsFiniteSet(W) /\ Cardinality(W) <= Cardinality(Docs(s))
    BY <2>4, <2>5, FS_Subset
  <2>8. Cardinality(W) \in Nat /\ Cardinality(Docs(s)) \in Nat /\ Needed \in Nat
    BY <2>4, <2>7, FS_CardinalityType DEF Needed
  <2>9. Cardinality(W) < Needed
    BY <2>6, <2>7, <2>8
  <2> QED BY <2>9 DEF W
<1> QED BY <1>1, <1>2

LEMMA ChooseKeeps ==
  ASSUME Typed, Searched, Analyses, ChooseForSummary \/ ChooseForComparison \/ ChooseForGaps
  PROVE  Searched' /\ Analyses'
<1>1. /\ UNCHANGED <<request, space>> /\ found' = found /\ pc = "choose" /\ task' = task /\ asked' = asked
      /\ \/ task = "summary" /\ IF Chosen = <<>> THEN GiveUp ELSE Ask(Fitting(Each(Chosen), Room))
         \/ task = "comparison" /\ IF Cardinality(Docs(Chosen)) < 2 THEN GiveUp ELSE Ask(Fitting(ByDocument(Chosen), Room))
         \/ task = "gaps" /\ IF found = <<>> THEN GiveUp ELSE Ask(Fitting(Each(found), Room))
  BY DEF ChooseForSummary, ChooseForComparison, ChooseForGaps, request
<1>2. Searched'
  BY <1>1, SearchedAfter
<1>3. FoundIn(found, Scored, Relevant, TopK)
  BY <1>1 DEF Searched
<1>4. Certain' = Certain
  BY <1>1, Frame
<1>5. Wanted' = Wanted /\ Needed' = Needed
  BY <1>1, <1>4 DEF Wanted, Needed
<1>6. \/ pc' = "insufficient" /\ Cardinality({p.doc : p \in Wanted}) < Needed
      \/ pc' = "model" /\ Suited(context')
  <2>1. CASE task = "summary"
    <3>1. CASE Chosen = <<>>
      <4>1. pc' = "insufficient"
        BY <1>1, <2>1, <3>1 DEF GiveUp
      <4>2. Cardinality({p.doc : p \in Wanted}) < Needed
        BY <1>3, <2>1, <3>1, TooFew
      <4> QED BY <4>1, <4>2
    <3>2. CASE Chosen # <<>>
      <4>1. pc' = "model" /\ context' = Fitting(Each(Chosen), Room)
        BY <1>1, <2>1, <3>2 DEF Ask
      <4>2. \A c : c = Fitting(Each(Chosen), Room) => Suited(c)
        BY <1>3, <2>1, <3>2, ChosenSuits
      <4> QED BY <4>1, <4>2
    <3> QED BY <3>1, <3>2
  <2>2. CASE task = "comparison"
    <3>1. CASE Cardinality(Docs(Chosen)) < 2
      <4>1. pc' = "insufficient"
        BY <1>1, <2>2, <3>1 DEF GiveUp
      <4>2. Cardinality({p.doc : p \in Wanted}) < Needed
        BY <1>3, <2>2, <3>1, TooFew
      <4> QED BY <4>1, <4>2
    <3>2. CASE ~(Cardinality(Docs(Chosen)) < 2)
      <4>1. pc' = "model" /\ context' = Fitting(ByDocument(Chosen), Room)
        BY <1>1, <2>2, <3>2 DEF Ask
      <4>2. Chosen # <<>>
        <5>1. ASSUME Chosen = <<>> PROVE FALSE
          <6>1. DOMAIN Chosen = {}
            BY <5>1
          <6>2. Docs(Chosen) = {}
            BY <6>1 DEF Docs
          <6>3. Cardinality(Docs(Chosen)) = 0
            BY <6>2, FS_EmptySet
          <6> QED BY <3>2, <6>3
        <5> QED BY <5>1
      <4>3. \A c : c = Fitting(ByDocument(Chosen), Room) => Suited(c)
        BY <1>3, <2>2, <4>2, ChosenSuits
      <4> QED BY <4>1, <4>3
    <3> QED BY <3>1, <3>2
  <2>3. CASE task = "gaps"
    <3>1. CASE found = <<>>
      <4>1. pc' = "insufficient"
        BY <1>1, <2>3, <3>1 DEF GiveUp
      <4>2. Cardinality({p.doc : p \in Wanted}) < Needed
        BY <1>3, <2>3, <3>1, TooFew
      <4> QED BY <4>1, <4>2
    <3>2. CASE found # <<>>
      <4>1. pc' = "model" /\ context' = Fitting(Each(found), Room)
        BY <1>1, <2>3, <3>2 DEF Ask
      <4>2. \A c : c = Fitting(Each(found), Room) => Suited(c)
        BY <1>3, <2>3, <3>2, FoundSuits
      <4> QED BY <4>1, <4>2
    <3> QED BY <3>1, <3>2
  <2> QED BY <1>1, <2>1, <2>2, <2>3
<1>7. Analyses'
  <2>1. CASE pc' = "insufficient" /\ Cardinality({p.doc : p \in Wanted}) < Needed
    BY <1>5, <2>1 DEF Analyses
  <2>2. CASE pc' = "model" /\ Suited(context')
    <3>1. Suited(context)'
      BY <1>1, <1>5, <2>2 DEF Suited
    <3> QED BY <2>2, <3>1 DEF Analyses
  <2> QED BY <1>6, <2>1, <2>2
<1> QED BY <1>2, <1>7

-----------------------------------------------------------------------------
\* A research gap as it is returned.
GapRecord == [item : Nat, sources : SUBSET (Text \cup {"named"}), confidence : {"low", "medium", "high"}]

\* The gaps g read from the items s.
ReadFrom(g, s) ==
  /\ Len(g) <= MaxGaps
  /\ \A k, l \in 1..Len(g) : k < l => g[k].item < g[l].item
  /\ \A k \in 1..Len(g) : g[k].item \in 1..Len(s) /\ s[g[k].item].kind = "usable" /\ g[k].sources # {}
  /\ \A i \in 1..Len(s) : s[i].kind = "usable" => \E k \in 1..Len(g) : g[k].item = i

\* The gaps follow the items read so far; a broken item is the last.
Reading ==
  task = "gaps" =>
    /\ pc \in {"model", "items", "answered"} => found # <<>>
    /\ pc \notin {"items", "answered"} => items = <<>> /\ gaps = <<>>
    /\ items \in Seq(Item) /\ gaps \in Seq(GapRecord) /\ ReadFrom(gaps, items)
    /\ pc = "items" => Len(gaps) < MaxGaps /\ \A i \in 1..Len(items) : items[i].kind # "broken"
    /\ \A i, j \in 1..Len(items) : items[i].kind = "broken" => j <= i

LEMMA ReadingGives == Reading => GapsFollowReply
<1> SUFFICES ASSUME Reading, task = "gaps", pc = "answered" PROVE GapsFollowReply
  BY DEF GapsFollowReply
<1>1. items \in Seq(Item) /\ gaps \in Seq(GapRecord) /\ ReadFrom(gaps, items)
      /\ \A i, j \in 1..Len(items) : items[i].kind = "broken" => j <= i
  BY DEF Reading
<1>2. DOMAIN items = 1..Len(items) /\ DOMAIN gaps = 1..Len(gaps)
  BY <1>1
<1>3. {gaps[k].item : k \in DOMAIN gaps} = {i \in DOMAIN items : items[i].kind = "usable"}
  BY <1>1, <1>2 DEF ReadFrom
<1>4. /\ Len(gaps) <= MaxGaps
      /\ \A k, l \in 1..Len(gaps) : k < l => gaps[k].item < gaps[l].item
      /\ \A k \in 1..Len(gaps) : gaps[k].sources # {}
  BY <1>1 DEF ReadFrom
<1> QED BY <1>1, <1>2, <1>3, <1>4 DEF GapsFollowReply

LEMMA ReadingInit == Init => Reading
<1> SUFFICES ASSUME Init PROVE Reading
  OBVIOUS
<1>1. items = <<>> /\ gaps = <<>> /\ pc = "embed"
  BY DEF Init
<1>2. Len(<<>>) = 0 /\ <<>> \in Seq(Item) /\ <<>> \in Seq(GapRecord) /\ 1..0 = {} /\ 0 <= MaxGaps
  BY Constants
<1>3. ReadFrom(<<>>, <<>>)
  BY <1>2 DEF ReadFrom
<1>4. /\ items \in Seq(Item) /\ gaps \in Seq(GapRecord) /\ ReadFrom(gaps, items)
      /\ \A i, j \in 1..Len(items) : items[i].kind = "broken" => j <= i
  BY <1>1, <1>2, <1>3
<1> QED BY <1>1, <1>4 DEF Reading

\* Other steps than those that read the reply, or choose what to ask.
LEMMA ReadingAside ==
  ASSUME Reading, UNCHANGED <<task, found, reply>>,
         \/ pc' = pc
         \/ pc' \notin {"model", "items", "answered"} /\ pc \notin {"items", "answered"}
         \/ task # "gaps"
  PROVE  Reading'
<1>1. UNCHANGED <<task, found, items, gaps>>
  BY DEF reply
<1> QED BY <1>1 DEF Reading

LEMMA ReadingBySearch ==
  ASSUME Reading, SearchProject
  PROVE  Reading'
<1>1. UNCHANGED <<task, items, gaps>> /\ pc = "search" /\ pc' \notin {"model", "items", "answered"}
  BY DEF SearchProject, Go, reply, request
<1> QED BY <1>1 DEF Reading

LEMMA ReadingByChoice ==
  ASSUME Reading, ChooseForSummary \/ ChooseForComparison \/ ChooseForGaps
  PROVE  Reading'
<1>1. /\ UNCHANGED <<task, found, items, gaps>> /\ pc = "choose"
      /\ task = "gaps" => IF found = <<>> THEN GiveUp ELSE Ask(Fitting(Each(found), Room))
  BY DEF ChooseForSummary, ChooseForComparison, ChooseForGaps, request, reply
<1>2. task = "gaps" => pc' = "insufficient" \/ (pc' = "model" /\ found # <<>>)
  BY <1>1 DEF GiveUp, Ask
<1> QED BY <1>1, <1>2 DEF Reading

LEMMA ReadingByCall ==
  ASSUME Reading, CallModelForGaps
  PROVE  Reading'
<1>1. UNCHANGED <<task, found, items, gaps>> /\ task = "gaps" /\ pc = "model" /\ pc' = "items"
  BY DEF CallModelForGaps, Go, request, reply
<1>2. items = <<>> /\ gaps = <<>> /\ found # <<>>
  BY <1>1 DEF Reading
<1>3. Len(gaps) = 0 /\ 0 < MaxGaps /\ Len(items) = 0 /\ 1..0 = {}
  <2>1. Len(<<>>) = 0
    OBVIOUS
  <2> QED BY <1>2, <2>1, Constants
<1>4. Len(gaps) < MaxGaps /\ \A i \in 1..Len(items) : items[i].kind # "broken"
  BY <1>3
<1> QED BY <1>1, <1>2, <1>4 DEF Reading

LEMMA SourcesOf ==
  ASSUME NEW item \in Item, Typed, FoundIn(found, Scored, Relevant, TopK), found # <<>>
  PROVE  Sources(item) \subseteq Text \cup {"named"} /\ Sources(item) # {}
<1> DEFINE f == found
           t == FirstOf(2, f)
<1>1. f \in Seq(Scored) /\ f # <<>> /\ \A x \in Scored : x.text \in Text
  BY ScoredIs DEF FoundIn
<1> HIDE DEF f
<1>2. /\ t \in Seq(Scored)
      /\ Len(t) = IF Len(f) < 2 THEN Len(f) ELSE 2
  <2> DEFINE n == 2
  <2>1. n \in Nat
    OBVIOUS
  <2> HIDE DEF n
  <2>2. FirstOf(n, f) \in Seq(Scored) /\ Len(FirstOf(n, f)) = IF Len(f) < n THEN Len(f) ELSE n
    BY <1>1, <2>1, FirstOfIs
  <2> QED BY <2>2 DEF n
<1>3. 1 \in DOMAIN t
  BY <1>1, <1>2
<1>4. t[1].text \in Texts(t)
  BY <1>3 DEF Texts
<1>5. Texts(t) \subseteq Text
  BY <1>1, <1>2 DEF Texts
<1> HIDE DEF t
<1> QED BY <1>4, <1>5 DEF Sources, t, f

\* One more item.
LEMMA ReadOne ==
  ASSUME NEW s \in Seq(Item), NEW g \in Seq(GapRecord), ReadFrom(g, s), Len(g) < MaxGaps, NEW item \in Item,
         NEW r \in GapRecord, r.item = Len(s) + 1, r.sources # {},
         NEW h, h = IF item.kind = "usable" THEN Append(g, r) ELSE g
  PROVE  h \in Seq(GapRecord) /\ ReadFrom(h, Append(s, item))
<1> DEFINE u == Append(s, item)
           n == Len(s)
<1>1. /\ u \in Seq(Item) /\ n \in Nat /\ Len(u) = n + 1 /\ u[n + 1] = item
      /\ \A i \in 1..n : u[i] = s[i] /\ i \in 1..(n + 1)
      /\ \A i \in 1..(n + 1) : i \in 1..n \/ i = n + 1
  OBVIOUS
<1> HIDE DEF u, n
<1>2. /\ \A k, l \in 1..Len(g) : k < l => g[k].item < g[l].item
      /\ \A k \in 1..Len(g) : g[k].item \in 1..n /\ s[g[k].item].kind = "usable" /\ g[k].sources # {}
      /\ \A i \in 1..n : s[i].kind = "usable" => \E k \in 1..Len(g) : g[k].item = i
      /\ Len(g) < MaxGaps /\ Len(g) \in Nat /\ MaxGaps \in Nat
  BY Constants DEF ReadFrom, n
<1>3. CASE item.kind # "usable"
  <2>1. h = g
    BY <1>3
  <2>2. \A k \in 1..Len(g) : g[k].item \in 1..Len(u) /\ u[g[k].item].kind = "usable" /\ g[k].sources # {}
    BY <1>1, <1>2
  <2>3. \A i \in 1..Len(u) : u[i].kind = "usable" => \E k \in 1..Len(g) : g[k].item = i
    BY <1>1, <1>2, <1>3
  <2>4. Len(g) <= MaxGaps
    BY <1>2
  <2>5. ReadFrom(g, u)
    BY <1>2, <2>2, <2>3, <2>4 DEF ReadFrom
  <2> QED BY <2>1, <2>5 DEF u
<1>4. CASE item.kind = "usable"
  <2> DEFINE m == Len(g)
  <2>1. h = Append(g, r)
    BY <1>4
  <2>2. /\ h \in Seq(GapRecord) /\ m \in Nat /\ Len(h) = m + 1 /\ h[m + 1] = r
        /\ \A k \in 1..m : h[k] = g[k] /\ k \in 1..(m + 1)
        /\ \A k \in 1..(m + 1) : k \in 1..m \/ k = m + 1
    BY <2>1
  <2>3. r.item = n + 1 /\ r.item \in 1..(n + 1)
    BY <1>1 DEF n
  <2> HIDE DEF m
  <2>4. ASSUME NEW k \in 1..(m + 1), NEW l \in 1..(m + 1), k < l PROVE h[k].item < h[l].item
    <3>1. k \in 1..m
      BY <2>2, <2>4
    <3>2. g[k].item \in 1..n /\ h[k] = g[k]
      BY <1>2, <2>2, <3>1 DEF m
    <3>3. CASE l \in 1..m
      BY <1>2, <2>2, <2>4, <3>1, <3>2, <3>3 DEF m
    <3>4. CASE l = m + 1
      <4>1. h[l].item = n + 1
        BY <2>2, <2>3, <3>4
      <4> DEFINE v == h[k].item
      <4>2. v \in 1..n /\ n \in Nat
        BY <1>1, <3>2
      <4> HIDE DEF v
      <4>3. v < n + 1
        BY <4>2
      <4> QED BY <4>1, <4>3 DEF v
    <3>5. l \in 1..m \/ l = m + 1
      BY <2>2
    <3> QED BY <3>3, <3>4, <3>5
  <2>5. ASSUME NEW k \in 1..(m + 1)
        PROVE  h[k].item \in 1..Len(u) /\ u[h[k].item].kind = "usable" /\ h[k].sources # {}
    <3>1. CASE k \in 1..m
      <4>1. h[k] = g[k] /\ k \in 1..Len(g)
        BY <2>2, <3>1 DEF m
      <4>2. g[k].item \in 1..n /\ s[g[k].item].kind = "usable" /\ g[k].sources # {}
        BY <1>2, <4>1
      <4>3. u[g[k].item] = s[g[k].item] /\ g[k].item \in 1..(n + 1)
        BY <1>1, <4>2
      <4> QED BY <1>1, <4>1, <4>2, <4>3
    <3>2. CASE k = m + 1
      BY <1>1, <1>4, <2>2, <2>3, <3>2
    <3> QED BY <2>2, <3>1, <3>2
  <2>6. ASSUME NEW i \in 1..Len(u), u[i].kind = "usable" PROVE \E k \in 1..(m + 1) : h[k].item = i
    <3>1. CASE i \in 1..n
      <4>1. PICK k \in 1..m : g[k].item = i
        BY <1>1, <1>2, <2>6, <3>1 DEF m
      <4> QED BY <2>2, <4>1
    <3>2. CASE i = n + 1
      <4>1. m + 1 \in 1..(m + 1)
        BY <2>2
      <4> QED BY <2>2, <2>3, <3>2, <4>1
    <3> QED BY <1>1, <3>1, <3>2
  <2>7. Len(h) <= MaxGaps
    BY <1>2, <2>2 DEF m
  <2>8. ReadFrom(h, u)
    BY <2>2, <2>4, <2>5, <2>6, <2>7 DEF ReadFrom
  <2> QED BY <2>2, <2>8 DEF u
<1> QED BY <1>3, <1>4

LEMMA ReadingByItem ==
  ASSUME Typed, Phased, Searched, Reading, ReadItem
  PROVE  Reading'
<1>1. PICK item \in Item :
        /\ pc = "items"
        /\ items' = Append(items, item)
        /\ gaps' = IF item.kind = "usable" THEN Append(gaps, Gap(Len(items'), item)) ELSE gaps
        /\ pc' = IF item.kind = "broken" \/ Len(gaps') >= MaxGaps THEN "answered" ELSE "items"
  BY DEF ReadItem
<1>2. UNCHANGED <<task, found>>
  BY DEF ReadItem, request
<1>3. task = "gaps" /\ FoundIn(found, Scored, Relevant, TopK) /\ found # <<>>
  BY <1>1 DEF Phased, Searched, Reading
<1>4. /\ items \in Seq(Item) /\ gaps \in Seq(GapRecord) /\ ReadFrom(gaps, items)
      /\ Len(gaps) < MaxGaps /\ \A i \in 1..Len(items) : items[i].kind # "broken"
  BY <1>1, <1>3 DEF Reading
<1> DEFINE n == Len(items)
           r == Gap(n + 1, item)
<1>5. /\ items' \in Seq(Item) /\ Len(items') = n + 1 /\ n \in Nat /\ items'[n + 1] = item
      /\ \A i \in 1..n : items'[i] = items[i]
  BY <1>1, <1>4
<1>6. r \in GapRecord /\ r.item = n + 1 /\ r.sources # {}
  <2>1. Sources(item) \subseteq Text \cup {"named"} /\ Sources(item) # {}
    BY <1>3, SourcesOf
  <2>2. Confidence \in {"low", "medium", "high"}
    BY DEF Confidence
  <2> QED BY <1>5, <2>1, <2>2 DEF Gap, GapRecord
<1>7. gaps' = IF item.kind = "usable" THEN Append(gaps, r) ELSE gaps
  BY <1>1, <1>5
<1> HIDE DEF r
<1>8. gaps' \in Seq(GapRecord) /\ ReadFrom(gaps', items')
  <2> DEFINE s == items
             g == gaps
             h == gaps'
  <2>1. /\ s \in Seq(Item) /\ g \in Seq(GapRecord) /\ ReadFrom(g, s) /\ Len(g) < MaxGaps
        /\ r \in GapRecord /\ r.item = Len(s) + 1 /\ r.sources # {}
        /\ h = IF item.kind = "usable" THEN Append(g, r) ELSE g
    BY <1>4, <1>6, <1>7
  <2>2. items' = Append(s, item)
    BY <1>1
  <2> HIDE DEF s, g, h
  <2>3. h \in Seq(GapRecord) /\ ReadFrom(h, Append(s, item))
    BY <2>1, ReadOne
  <2> QED BY <2>2, <2>3 DEF h
<1>9. \A i, j \in 1..Len(items') : items'[i].kind = "broken" => j <= i
  <2>1. ASSUME NEW i \in 1..(n + 1), NEW j \in 1..(n + 1), items'[i].kind = "broken" PROVE j <= i
    <3>1. i \notin 1..n
      BY <1>4, <1>5, <2>1
    <3> QED BY <1>5, <3>1
  <2> QED BY <1>5, <2>1
<1>10. pc' \in {"items", "answered"} /\ (pc' = "items" => item.kind # "broken" /\ ~(Len(gaps') >= MaxGaps))
  BY <1>1
<1>11. pc' = "items" => Len(gaps') < MaxGaps /\ \A i \in 1..Len(items') : items'[i].kind # "broken"
  <2>1. pc' = "items" => \A i \in 1..(n + 1) : items'[i].kind # "broken"
    <3>1. \A i \in 1..(n + 1) : i \in 1..n \/ i = n + 1
      BY <1>5
    <3> QED BY <1>4, <1>5, <1>10, <3>1
  <2>2. Len(gaps') \in Nat /\ MaxGaps \in Nat
    BY <1>8, Constants
  <2> QED BY <1>5, <1>10, <2>1, <2>2
<1> QED BY <1>2, <1>3, <1>5, <1>8, <1>9, <1>10, <1>11 DEF Reading

-----------------------------------------------------------------------------
\* The inductive invariant of a request.
AnswersInv == SourcesInv /\ Searched /\ Contexts /\ Analyses /\ Reading

LEMMA AnswersInit == Init => AnswersInv
<1> SUFFICES ASSUME Init PROVE AnswersInv
  OBVIOUS
<1>1. pc = "embed"
  BY DEF Init
<1>2. Searched /\ Contexts /\ Analyses
  BY <1>1 DEF Searched, Contexts, Analyses
<1> QED BY <1>2, SourcesInit, ReadingInit DEF AnswersInv

\* Steps of the library leave alone what the others are about.
LEMMA LibraryAside ==
  ASSUME AnswersInv, UNCHANGED <<request, space, found, context, reply>>,
         pc \in {"works", "next", "url", "doi", "book", "pieces", "books"},
         pc' \in {"next", "url", "doi", "book", "pieces", "books", "merge"}
  PROVE  Searched' /\ Contexts' /\ Analyses' /\ Reading'
<1>1. task = "library chat" /\ UNCHANGED task
  BY DEF AnswersInv, SourcesInv, Phased, request
<1>2. Searched'
  BY SearchedAfter DEF AnswersInv
<1>3. Contexts' /\ Analyses'
  BY <1>1 DEF Contexts, Analyses, Analysis
<1>4. Reading'
  BY <1>1, ReadingAside DEF AnswersInv
<1> QED BY <1>2, <1>3, <1>4

LEMMA AnswersStep == AnswersInv /\ [Next]_vars => AnswersInv'
<1> SUFFICES ASSUME AnswersInv, [Next]_vars PROVE AnswersInv'
  OBVIOUS
<1> USE DEF AnswersInv
<1>1. CASE UNCHANGED vars
  <2>1. UNCHANGED <<request, space, found, library, context, reply>> /\ pc' = pc
    BY <1>1 DEF vars
  <2>2. UNCHANGED <<task, public>>
    BY <2>1 DEF request, library
  <2>3. SourcesInv'
    BY <2>1, SourcesAside
  <2>4. Searched' /\ Contexts' /\ Analyses'
    BY <2>1, <2>2, SearchedAfter, ContextsAfter, AnalysesAfter
  <2>5. Reading'
    BY <2>1, <2>2, ReadingAside
  <2> QED BY <2>3, <2>4, <2>5
<1>2. CASE EmbedQuery
  <2>1. /\ UNCHANGED <<request, found, library, context, reply>> /\ pc = "embed"
        /\ \/ pc' = "search" /\ space' \in Spaces(provider = "no key")
           \/ pc' = "failed" /\ UNCHANGED space
    BY <1>2 DEF EmbedQuery, Go
  <2>2. UNCHANGED <<task, asked, provider, stored, similar, works, at, offer, fallen, pieces, public, vain>>
    BY <2>1 DEF request, library
  <2>3. /\ pc' = "search" => space' \in {"real", "mock"}
        /\ pc' = "search" /\ provider # "compatible" => space' = Own
    <3>1. (provider = "no key") \in BOOLEAN /\ provider \in Provider
      BY DEF SourcesInv, Typed
    <3> DEFINE mock == (provider = "no key")
    <3>2. /\ provider = "openai" => ~mock
          /\ provider = "no key" => mock
      OBVIOUS
    <3> HIDE DEF mock
    <3>3. \A k \in Spaces(mock) : k \in {"real", "mock"} /\ (provider # "compatible" => k = Own)
      BY <3>1, <3>2, SpacesIs DEF mock
    <3> QED BY <2>1, <3>3 DEF mock
  <2>4. Typed'
    BY <2>1, <2>2, <2>3 DEF SourcesInv, Typed
  <2>5. Phased'
    BY <2>1, <2>2 DEF SourcesInv, Phased
  <2>6. public = <<>> /\ DOMAIN public = {}
    <3>1. public = <<>>
      BY <2>1 DEF SourcesInv, Spaced
    <3>2. Len(<<>>) = 0 /\ 1..0 = {} /\ <<>> \in Seq(Borrowed)
      OBVIOUS
    <3>3. DOMAIN <<>> = {}
      BY <3>2
    <3> QED BY <3>1, <3>3
  <2>7. Spaced'
    <3>1. Own' = Own
      BY <2>2 DEF Own
    <3>2. DOMAIN public' = {} /\ public' = <<>>
      BY <2>2, <2>6
    <3>3. FallsOnce'
      BY <3>2 DEF FallsOnce
    <3> QED BY <2>1, <2>2, <2>3, <3>1, <3>2, <3>3 DEF SourcesInv, Spaced
  <2>8. Tried'
    BY <2>1, <2>2 DEF SourcesInv, Tried
  <2>9. Searched' /\ Contexts' /\ Analyses'
    BY <2>1 DEF Searched, Contexts, Analyses
  <2>10. Reading'
    BY <2>1, <2>2, ReadingAside
  <2> QED BY <2>4, <2>5, <2>7, <2>8, <2>9, <2>10 DEF SourcesInv
<1>3. CASE SearchProject
  <2>1. /\ UNCHANGED <<task, asked, provider, stored, similar, space, works, at, offer, fallen, pieces, public, vain>>
        /\ pc = "search"
        /\ pc' = CASE task = "chat" -> "merge" [] task = "library chat" -> "works" [] OTHER -> "choose"
    BY <1>3 DEF SearchProject, Go, request, library
  <2>2. /\ pc' = "works" <=> task = "library chat"
        /\ pc' = "merge" <=> task = "chat"
        /\ pc' = "choose" <=> task \notin {"chat", "library chat"}
        /\ pc' \in {"merge", "works", "choose"}
    BY <2>1
  <2>3. Typed'
    BY <2>1 DEF SourcesInv, Typed
  <2>4. Phased'
    BY <2>1, <2>2 DEF SourcesInv, Typed, Phased, Task, Analysis
  <2>5. Spaced'
    BY <2>1, <2>2 DEF SourcesInv, Spaced, FallsOnce, Own
  <2>6. Tried'
    BY <2>1, <2>2 DEF SourcesInv, Tried
  <2>7. Searched'
    BY <1>3, SearchedBySearch DEF SourcesInv
  <2>8. Contexts' /\ Analyses'
    BY <2>2 DEF Contexts, Analyses
  <2>9. Reading'
    BY <1>3, ReadingBySearch
  <2> QED BY <2>3, <2>4, <2>5, <2>6, <2>7, <2>8, <2>9 DEF SourcesInv
<1>4. CASE DatabaseFails
  <2>1. UNCHANGED <<request, space, found, library, context, reply>> /\ pc = "search" /\ pc' = "failed"
    BY <1>4 DEF DatabaseFails, Go
  <2>2. UNCHANGED task
    BY <2>1 DEF request
  <2>3. SourcesInv'
    BY <2>1, SourcesAside
  <2>4. Searched' /\ Contexts' /\ Analyses'
    BY <2>1 DEF Searched, Contexts, Analyses
  <2>5. Reading'
    BY <2>1, <2>2, ReadingAside
  <2> QED BY <2>3, <2>4, <2>5
<1>5. CASE SearchWorks
  <2>1. /\ UNCHANGED <<request, space, found, context, reply>> /\ pc = "works" /\ pc' = "next" /\ works' \in 0..MaxWorks
        /\ UNCHANGED <<at, fallen, pieces, public, vain>>
    BY <1>5 DEF SearchWorks, Go
  <2>2. UNCHANGED <<task, asked, provider, stored, similar>>
    BY <2>1 DEF request
  <2>3. public = <<>> /\ vain = {} /\ at = 0
    BY <2>1 DEF SourcesInv, Tried
  <2>4. Typed'
    <3>1. works' \in Nat /\ at' \in 0..works'
      BY <2>1, <2>3, Constants
    <3> QED BY <2>1, <2>2, <3>1 DEF SourcesInv, Typed
  <2>5. Phased'
    BY <2>1, <2>2 DEF SourcesInv, Phased
  <2>6. Spaced'
    BY <2>1, <2>2 DEF SourcesInv, Spaced, FallsOnce, Own
  <2>7. Tried'
    <3>1. vain' = 1..at'
      BY <2>1, <2>3
    <3> QED BY <2>1, <3>1 DEF Tried
  <2> QED BY <2>1, <2>4, <2>5, <2>6, <2>7, LibraryAside DEF SourcesInv
<1>6. CASE NextWork
  <2>1. /\ UNCHANGED <<request, space, found, context, reply>> /\ pc = "next" /\ pc' = "url" /\ at' = at + 1 /\ at < works
        /\ UNCHANGED <<works, fallen, pieces, public, vain>>
    BY <1>6 DEF NextWork
  <2>2. UNCHANGED <<task, asked, provider, stored, similar>>
    BY <2>1 DEF request
  <2>3. at \in Nat /\ works \in Nat /\ at' \in 0..works' /\ at' - 1 = at /\ at' >= 1
    BY <2>1 DEF SourcesInv, Typed
  <2>4. Typed'
    BY <2>1, <2>2, <2>3 DEF SourcesInv, Typed
  <2>5. Phased'
    BY <2>1, <2>2 DEF SourcesInv, Phased
  <2>6. Spaced'
    BY <2>1, <2>2 DEF SourcesInv, Spaced, FallsOnce, Own
  <2>7. Tried'
    <3>1. public' = <<>> => vain' = 1..(at' - 1)
      BY <2>1, <2>3 DEF SourcesInv, Tried
    <3> QED BY <2>1, <2>3, <3>1 DEF Tried
  <2> QED BY <2>1, <2>4, <2>5, <2>6, <2>7, LibraryAside DEF SourcesInv
<1>7. CASE EndWorks
  <2>1. /\ UNCHANGED <<request, space, found, library, context, reply>> /\ pc = "next"
        /\ pc' = (IF public = <<>> THEN "books" ELSE "merge") /\ (at = works \/ Len(public) >= MaxTotal)
    BY <1>7 DEF EndWorks, Go
  <2>2. UNCHANGED <<task, asked, provider, stored, similar, works, at, offer, fallen, pieces, public, vain>>
    BY <2>1 DEF request, library
  <2>3. public = <<>> => vain = 1..works
    <3>1. Len(<<>>) = 0 /\ ~(0 >= MaxTotal)
      BY Constants
    <3>2. public = <<>> => at = works
      BY <2>1, <3>1
    <3> QED BY <2>1, <3>2 DEF SourcesInv, Tried
  <2>4. Typed'
    BY <2>2, <2>1 DEF SourcesInv, Typed
  <2>5. Phased'
    BY <2>1, <2>2 DEF SourcesInv, Phased
  <2>6. Spaced'
    BY <2>1, <2>2 DEF SourcesInv, Spaced, FallsOnce, Own
  <2>7. Tried'
    BY <2>1, <2>2, <2>3 DEF Tried
  <2> QED BY <2>1, <2>4, <2>5, <2>6, <2>7, LibraryAside DEF SourcesInv
<1>8. ASSUME NEW route, NEW otherwise, Fetch(route, otherwise),
             <<route, otherwise>> \in {<<"url", "doi">>, <<"doi", "book">>, <<"book", "next">>}
      PROVE  AnswersInv'
  <2>1. /\ UNCHANGED <<request, space, found, context, reply>>
        /\ pc \in {"url", "doi", "book"} /\ pc' \in {"pieces", "doi", "book", "next"}
    BY <1>8 DEF Fetch, Go
  <2>2. SourcesInv'
    BY <1>8, FetchKeeps
  <2> QED BY <2>1, <2>2, LibraryAside
<1>9. CASE FetchByUrl \/ FetchByDoi \/ FetchByTitle
  BY <1>8, <1>9 DEF FetchByUrl, FetchByDoi, FetchByTitle
<1>10. CASE EmbedPieces
  <2>1. UNCHANGED <<request, space, found, context, reply>> /\ pc = "pieces" /\ pc' = "next"
    BY <1>10 DEF EmbedPieces, Go
  <2> QED BY <1>10, <2>1, EmbedPiecesKeeps, LibraryAside
<1>11. CASE EmbeddingFails \/ SkipBlank
  <2>1. /\ UNCHANGED <<request, space, found, context, reply>> /\ pc = "pieces" /\ pc' = "next"
        /\ pieces' = <<>> /\ vain' = vain \cup {at} /\ UNCHANGED <<works, at, fallen, public>>
    BY <1>11 DEF EmbeddingFails, SkipBlank, Go
  <2>2. UNCHANGED <<task, asked, provider, stored, similar>>
    BY <2>1 DEF request
  <2>3. Typed'
    <3>1. pieces' \in Seq(Text)
      BY <2>1
    <3> QED BY <2>1, <2>2, <3>1 DEF SourcesInv, Typed
  <2>4. Phased'
    BY <2>1, <2>2 DEF SourcesInv, Phased
  <2>5. Spaced'
    BY <2>1, <2>2 DEF SourcesInv, Spaced, FallsOnce, Own
  <2>6. Tried'
    <3>1. works \in Nat /\ at \in 0..works
      BY DEF SourcesInv, Typed
    <3>2. at >= 1 /\ (public = <<>> => vain = 1..(at - 1))
      BY <2>1 DEF SourcesInv, Tried
    <3>3. public = <<>> => vain' = 1..at
      BY <2>1, <3>1, <3>2
    <3> QED BY <2>1, <3>3 DEF Tried
  <2> QED BY <2>1, <2>3, <2>4, <2>5, <2>6, LibraryAside DEF SourcesInv
<1>12. CASE SearchBooks
  <2>1. UNCHANGED <<request, space, found, context, reply>> /\ pc = "books" /\ pc' = "merge"
    BY <1>12 DEF SearchBooks, Go
  <2> QED BY <1>12, <2>1, SearchBooksKeeps, LibraryAside
<1>13. CASE Merge
  <2>1. UNCHANGED <<request, reply, found>> /\ pc = "merge"
    BY <1>13 DEF Merge, Go
  <2>2. UNCHANGED task /\ task # "gaps" /\ task \notin Analysis
    BY <2>1 DEF request, SourcesInv, Phased, Analysis
  <2>3. Analyses'
    BY <2>2 DEF Analyses, Analysis
  <2>4. Reading'
    BY <2>1, <2>2, ReadingAside
  <2> QED BY <1>13, <2>3, <2>4, MergeKeeps
<1>14. CASE ChooseForSummary \/ ChooseForComparison \/ ChooseForGaps
  <2>1. /\ UNCHANGED <<request, space, library>> /\ pc = "choose" /\ pc' \in {"model", "insufficient"} /\ task \in Analysis
    BY <1>14 DEF ChooseForSummary, ChooseForComparison, ChooseForGaps, Ask, GiveUp, Analysis
  <2>2. UNCHANGED task
    BY <2>1 DEF request
  <2>3. SourcesInv'
    BY <2>1, SourcesAside
  <2>4. Contexts'
    BY <2>1, <2>2 DEF Contexts, Analysis
  <2> QED BY <1>14, <2>3, <2>4, ChooseKeeps, ReadingByChoice DEF SourcesInv
<1>15. CASE CallModel
  <2>1. UNCHANGED <<request, space, found, library, context, reply>> /\ pc = "model" /\ pc' = "answered" /\ task # "gaps"
    BY <1>15 DEF CallModel, Go
  <2>2. UNCHANGED <<task, public>>
    BY <2>1 DEF request, library
  <2>3. SourcesInv'
    BY <2>1, SourcesAside
  <2>4. Searched' /\ Contexts' /\ Analyses'
    BY <2>1, <2>2, SearchedAfter, ContextsAfter, AnalysesAfter
  <2>5. Reading'
    BY <2>1, <2>2, ReadingAside
  <2> QED BY <2>3, <2>4, <2>5
<1>16. CASE CallModelForGaps
  <2>1. UNCHANGED <<request, space, found, library, context, reply>> /\ pc = "model" /\ pc' = "items" /\ task = "gaps"
    BY <1>16 DEF CallModelForGaps, Go
  <2>2. UNCHANGED task
    BY <2>1 DEF request
  <2>3. SourcesInv'
    BY <2>1, SourcesAside
  <2>4. Searched' /\ Analyses'
    BY <2>1, SearchedAfter, AnalysesAfter
  <2>5. Contexts'
    BY <2>1, <2>2 DEF Contexts
  <2> QED BY <1>16, <2>3, <2>4, <2>5, ReadingByCall
<1>17. CASE ModelFails
  <2>1. UNCHANGED <<request, space, found, library, context, reply>> /\ pc = "model" /\ pc' = "failed"
    BY <1>17 DEF ModelFails, Go
  <2>2. UNCHANGED task
    BY <2>1 DEF request
  <2>3. SourcesInv'
    BY <2>1, SourcesAside
  <2>4. Searched' /\ Contexts' /\ Analyses'
    BY <2>1 DEF Searched, Contexts, Analyses
  <2>5. Reading'
    BY <2>1, <2>2, ReadingAside
  <2> QED BY <2>3, <2>4, <2>5
<1>18. CASE ReadItem
  <2>1. UNCHANGED <<request, space, found, library, context>> /\ pc = "items" /\ pc' \in {"items", "answered"}
    BY <1>18 DEF ReadItem
  <2>2. task = "gaps" /\ UNCHANGED task
    BY <2>1 DEF SourcesInv, Phased, request
  <2>3. SourcesInv'
    BY <2>1, <2>2, SourcesAside
  <2>4. Searched' /\ Analyses'
    BY <2>1, SearchedAfter, AnalysesAfter
  <2>5. Contexts'
    BY <2>2 DEF Contexts
  <2> QED BY <1>18, <2>3, <2>4, <2>5, ReadingByItem DEF SourcesInv
<1>19. CASE EndItems
  <2>1. UNCHANGED <<request, space, found, library, context, reply>> /\ pc = "items" /\ pc' = "answered"
    BY <1>19 DEF EndItems, Go
  <2>2. task = "gaps" /\ UNCHANGED <<task, items, gaps>>
    BY <2>1 DEF SourcesInv, Phased, request, reply
  <2>3. SourcesInv'
    BY <2>1, SourcesAside
  <2>4. Searched' /\ Analyses'
    BY <2>1, SearchedAfter, AnalysesAfter
  <2>5. Contexts'
    BY <2>2 DEF Contexts
  <2>6. Reading'
    BY <2>1, <2>2 DEF Reading
  <2> QED BY <2>3, <2>4, <2>5, <2>6
<1> QED BY <1>1, <1>2, <1>3, <1>4, <1>5, <1>6, <1>7, <1>9, <1>10, <1>11, <1>12, <1>13, <1>14, <1>15, <1>16, <1>17,
           <1>18, <1>19 DEF Next

\* In every state of a request: where the embeddings come from, which works were
\* tried, what the search left, and what the context and the gaps follow from.
THEOREM AnswersInvariant == Spec => []AnswersInv
BY AnswersInit, AnswersStep, PTL DEF Spec

\* Passages are only compared by scores taken in one embedding space: with a
\* provider that gives real embeddings only, or mocks only, the public passages
\* have embeddings of the question's kind.
THEOREM SpacesAgree == Spec => []ScoresComparable
<1>1. AnswersInv => ScoresComparable
  <2> SUFFICES ASSUME AnswersInv PROVE ScoresComparable
    OBVIOUS
  <2>1. ASSUME provider # "compatible", NEW i \in DOMAIN public PROVE public[i].space = space
    <3>1. public # <<>>
      <4>1. Len(<<>>) = 0 /\ 1..0 = {} /\ <<>> \in Seq(Borrowed)
        OBVIOUS
      <4>2. DOMAIN <<>> = {}
        BY <4>1
      <4> QED BY <2>1, <4>2
    <3> QED BY <2>1, <3>1 DEF AnswersInv, SourcesInv, Spaced
  <2>2. FallsOnce
    BY DEF AnswersInv, SourcesInv, Spaced
  <2> QED BY <2>1, <2>2 DEF ScoresComparable, FallsOnce
<1> QED BY <1>1, AnswersInvariant, PTL

\* A chat with public sources says that it has no context only after every work,
\* and then the books, were tried in vain: no failed download or embedding keeps
\* the works after it from being asked.
THEOREM AllTried == Spec => []NothingLeftUntried
<1>1. AnswersInv => NothingLeftUntried
  BY DEF AnswersInv, SourcesInv, Tried, NothingLeftUntried
<1> QED BY <1>1, AnswersInvariant, PTL

\* A chat's context holds no text twice, is ordered by score, and leaves out
\* nothing better, for any number of passages, ties and duplicates.
THEOREM BestContexts == Spec => []ContextIsBest
<1>1. AnswersInv => ContextIsBest
  BY ContextsGive DEF AnswersInv
<1> QED BY <1>1, AnswersInvariant, PTL

\* An analysis is refused only when there are too few passages that the search
\* must find, and otherwise is given only documents asked for, the best first.
THEOREM TrulyInsufficient == Spec => []InsufficientIsTrue
<1>1. AnswersInv => InsufficientIsTrue
  BY AnalysesGive DEF AnswersInv
<1> QED BY <1>1, AnswersInvariant, PTL

\* The research gaps returned are the usable items of the model's reply, up to
\* the limit, in order, each with a source.
THEOREM GapsFollow == Spec => []GapsFollowReply
<1>1. AnswersInv => GapsFollowReply
  BY ReadingGives DEF AnswersInv
<1> QED BY <1>1, AnswersInvariant, PTL

-----------------------------------------------------------------------------
\* The chunker.

\* What the overlap amounts to under settings that make progress.
LEMMA OverlapBound ==
  ASSUME SafeSettings, config \in Settings
  PROVE  /\ config.size \in Nat \ {0}
         /\ Overlap \in Nat
         /\ 2 * Overlap <= config.size
<1>1. config \in [size : Nat \ {0}, overlap : Nat]
  BY ChunkerAssumption
<1>2. CASE config.overlap >= config.size
  BY <1>1, <1>2 DEF Overlap
<1>3. CASE ~(config.overlap >= config.size)
  BY <1>1, <1>3 DEF Overlap, SafeSettings
<1> QED BY <1>1, <1>2, <1>3

\* One turn of the loop from a position inside the text: the chunk is a run of
\* characters from "start", and "end" is where it stops or lies beyond the text.
LEMMA Cut ==
  ASSUME ChunkerTypeOK, SafeSettings, start >= 0, start < len,
         NEW last, NEW end, CutsAt(last, end)
  PROVE  \E to \in 1..len :
           /\ last = start..(to - 1)
           /\ end \in Int
           /\ start + Overlap <= to \/ to = len
           /\ start < to
           /\ end - Overlap > start
           /\ to < len => end = to
           /\ to = len => end >= len
<1> USE ChunkerAssumption DEF ChunkerTypeOK
<1>1. /\ config.size \in Nat \ {0} /\ Overlap \in Nat /\ 2 * Overlap <= config.size
  BY OverlapBound
<1>2. start \in Nat /\ len \in Nat /\ len >= 1
  OBVIOUS
<1>3. Index(start) = start
  BY <1>2 DEF Index
<1>4. Window = IF start + config.size <= len THEN start..(start + config.size - 1) ELSE start..(len - 1)
  BY <1>1, <1>2, <1>3 DEF Window, Slice, Index
<1>5. CASE start + config.size < len /\ \E p \in spaces : LateSpace(p)
  <2>1. PICK p \in spaces : LateSpace(p) /\ last = start..(p - 1) /\ end = start + (p - start)
    BY <1>3, <1>5 DEF CutsAt
  <2>2. p \in Nat /\ p \in start..(start + config.size - 1) /\ p < len /\ 2 * (p - start) > config.size
    BY <1>1, <1>2, <1>3, <1>4, <1>5, <2>1 DEF LateSpace
  <2>3. end = p /\ p \in 1..len /\ p - start > Overlap
    BY <1>1, <1>2, <2>1, <2>2
  <2> QED BY <1>1, <1>2, <2>1, <2>2, <2>3
<1>6. CASE ~(start + config.size < len /\ \E p \in spaces : LateSpace(p))
  <2>1. last = Window /\ end = start + config.size
    BY <1>6 DEF CutsAt
  <2>2. CASE start + config.size <= len
    <3> DEFINE to == start + config.size
    <3>1. to \in 1..len /\ last = start..(to - 1) /\ end = to
      BY <1>1, <1>2, <1>4, <2>1, <2>2
    <3>2. start + Overlap <= to /\ start < to /\ end - Overlap > start
      BY <1>1, <1>2, <3>1
    <3> QED BY <1>1, <1>2, <3>1, <3>2
  <2>3. CASE start + config.size > len
    <3>1. last = start..(len - 1)
      BY <1>1, <1>2, <1>4, <2>1, <2>3
    <3>2. end - Overlap > start /\ end >= len
      BY <1>1, <1>2, <2>1, <2>3
    <3> QED BY <1>1, <1>2, <2>1, <3>1, <3>2
  <2> QED BY <1>1, <1>2, <2>2, <2>3
<1> QED BY <1>5, <1>6

LEMMA ChunkerStarts == ChunkerInit => ChunkerIInv
BY ChunkerAssumption DEF ChunkerInit, ChunkerIInv, ChunkerTypeOK, Frontier

\* A turn of the loop keeps what is before "start" in the chunks: it begins no
\* later than where the previous chunk ends.
LEMMA ChunkerSteps == SafeSettings /\ ChunkerIInv /\ [ChunkerNext]_chunkerVars => ChunkerIInv'
<1> SUFFICES ASSUME SafeSettings, ChunkerIInv, [ChunkerNext]_chunkerVars PROVE ChunkerIInv'
  OBVIOUS
<1>1. CASE UNCHANGED chunkerVars
  BY <1>1 DEF chunkerVars, ChunkerIInv, ChunkerTypeOK, Frontier, Overlap
<1>2. CASE ChunkerNext
  <2>1. PICK last \in Candidates, end \in start..(start + config.size) :
          /\ CutsAt(last, end)
          /\ chunk' = last
          /\ covered' = covered \cup last
          /\ start' = end - Overlap
    BY <1>2 DEF ChunkerNext, Step, BackUp
  <2>2. start < len /\ UNCHANGED <<config, len, spaces>> /\ start \in Nat /\ len \in Nat /\ ChunkerTypeOK
    BY <1>2, ChunkerAssumption DEF ChunkerNext, Step, ChunkerIInv, ChunkerTypeOK, Frontier
  <2>3. config.size \in Nat \ {0} /\ Overlap \in Nat /\ 2 * Overlap <= config.size
    BY <2>2, OverlapBound DEF ChunkerTypeOK
  <2>4. PICK to \in 1..len :
          /\ last = start..(to - 1)
          /\ end \in Int
          /\ start + Overlap <= to \/ to = len
          /\ start < to
          /\ end - Overlap > start
          /\ to < len => end = to
          /\ to = len => end >= len
    BY <2>1, <2>2, Cut
  <2>5. covered' = 0..(to - 1)
    <3>1. CASE chunk = {}
      BY <2>1, <2>2, <2>4, <3>1 DEF ChunkerIInv, Frontier
    <3>2. CASE chunk # {}
      <4>1. PICK from \in 0..len-1, upto \in 1..len :
              /\ covered = 0..(upto - 1)
              /\ upto < len => start = upto - Overlap
              /\ upto = len => start + Overlap >= len
              /\ chunk = from..(upto - 1)
              /\ from + Overlap <= upto \/ upto = len
        BY <3>2 DEF ChunkerIInv, Frontier
      <4>2. CASE upto < len
        <5>1. upto <= to
          BY <2>2, <2>3, <2>4, <4>1, <4>2
        <5> QED BY <2>1, <2>2, <2>3, <2>4, <4>1, <4>2, <5>1
      <4>3. CASE upto = len
        <5>1. to = len
          BY <2>2, <2>3, <2>4, <4>1, <4>3
        <5> QED BY <2>1, <2>2, <2>4, <4>1, <4>3, <5>1
      <4> QED BY <2>2, <4>2, <4>3
    <3> QED BY <3>1, <3>2
  <2>6. ChunkerTypeOK'
    BY <2>1, <2>2, <2>3, <2>4, <2>5 DEF ChunkerTypeOK
  <2>7. Overlap' = Overlap
    BY <2>2 DEF Overlap
  <2>8. Frontier'
    <3>1. start' >= 0 /\ start' > 0 /\ chunk' # {} /\ start \in 0..len-1
      BY <2>1, <2>2, <2>3, <2>4
    <3>2. /\ chunk' = start..(to - 1)
          /\ start + Overlap <= to \/ to = len
          /\ to < len => start' = to - Overlap
          /\ to = len => start' + Overlap >= len
      BY <2>1, <2>2, <2>3, <2>4
    <3> QED BY <2>2, <2>5, <2>7, <3>1, <3>2 DEF Frontier
  <2> QED BY <2>6, <2>8 DEF ChunkerIInv
<1> QED BY <1>1, <1>2

\* The frontier is an invariant of the loop, for every text and every safe
\* setting.
THEOREM ChunkerInvariant == ASSUME SafeSettings PROVE ChunkerSpec => []ChunkerIInv
<1>1. ChunkerIInv /\ [ChunkerNext]_chunkerVars => ChunkerIInv'
  BY ChunkerSteps
<1> QED BY <1>1, ChunkerStarts, PTL DEF ChunkerSpec

\* chunk_text loses no character of a page when it returns.
THEOREM Coverage == ASSUME SafeSettings PROVE ChunkerSpec => []DoneCovers
<1>1. ChunkerIInv => DoneCovers
  <2> SUFFICES ASSUME ChunkerIInv, Done PROVE covered = 0..len-1
    BY DEF DoneCovers
  <2>1. len \in Nat /\ start \in Int /\ start >= len /\ config \in Settings
    BY ChunkerAssumption DEF ChunkerIInv, ChunkerTypeOK, Done
  <2>2. Overlap \in Nat
    BY <2>1, OverlapBound
  <2>3. CASE chunk = {}
    BY <2>1, <2>3 DEF ChunkerIInv, Frontier
  <2>4. CASE chunk # {}
    <3>1. PICK upto \in 1..len :
            covered = 0..(upto - 1) /\ (upto < len => start = upto - Overlap)
      BY <2>4 DEF ChunkerIInv, Frontier
    <3> QED BY <2>1, <2>2, <3>1
  <2> QED BY <2>3, <2>4
<1> QED BY <1>1, ChunkerInvariant, PTL

\* Each turn of chunk_text's loop moves forward, so it cannot go on for ever.
THEOREM Progress == ASSUME SafeSettings PROVE ChunkerSpec => Advances
<1>1. ChunkerIInv /\ [ChunkerNext]_chunkerVars => [start' > start]_chunkerVars
  <2> SUFFICES ASSUME ChunkerIInv, ChunkerNext PROVE start' > start
    BY DEF chunkerVars
  <2>1. PICK last \in Candidates, end \in start..(start + config.size) :
          CutsAt(last, end) /\ start' = end - Overlap
    BY DEF ChunkerNext, Step, BackUp
  <2>2. start < len /\ start >= 0 /\ ChunkerTypeOK
    BY DEF ChunkerNext, Step, ChunkerIInv, Frontier
  <2> QED BY <2>1, <2>2, Cut
<1> QED BY <1>1, ChunkerInvariant, PTL DEF ChunkerSpec, Advances

\* Neighbouring chunks share their overlap.
THEOREM Context == ASSUME SafeSettings PROVE ChunkerSpec => KeepsContext
<1> DEFINE Kept == chunk # {} /\ len - 1 \notin chunk =>
       {p \in chunk : \A q \in chunk : q < p + Overlap} \subseteq chunk'
<1>1. ChunkerIInv /\ [ChunkerNext]_chunkerVars => [Kept]_chunkerVars
  <2> SUFFICES ASSUME ChunkerIInv, ChunkerNext, chunk # {}, len - 1 \notin chunk,
                      NEW p \in chunk, \A q \in chunk : q < p + Overlap
               PROVE  p \in chunk'
    BY DEF chunkerVars
  <2>1. PICK last \in Candidates, end \in start..(start + config.size) :
          CutsAt(last, end) /\ chunk' = last
    BY DEF ChunkerNext, Step
  <2>2. start < len /\ start >= 0 /\ ChunkerTypeOK /\ start \in Nat /\ len \in Nat
    BY ChunkerAssumption DEF ChunkerNext, Step, ChunkerIInv, ChunkerTypeOK, Frontier
  <2>3. Overlap \in Nat
    BY <2>2, OverlapBound DEF ChunkerTypeOK
  <2>4. PICK from \in 0..len-1, upto \in 1..len :
          chunk = from..(upto - 1) /\ (upto < len => start = upto - Overlap)
    BY DEF ChunkerIInv, Frontier
  <2>5. upto < len /\ p \in start..(upto - 1)
    BY <2>2, <2>3, <2>4
  <2>6. PICK to \in 1..len : /\ last = start..(to - 1)
                             /\ start + Overlap <= to \/ to = len
    BY <2>1, <2>2, Cut
  <2> QED BY <2>1, <2>2, <2>3, <2>4, <2>5, <2>6
<1> QED BY <1>1, ChunkerInvariant, PTL DEF ChunkerSpec, KeepsContext

-----------------------------------------------------------------------------
\* The sums of a sequence follow from each other.
LEMMA SumsOf ==
  ASSUME NEW f \in Seq(Nat)
  PROVE  /\ Sums(f)[0] = 0
         /\ \A n \in 0..Len(f) : Sums(f)[n] \in Nat
         /\ \A n \in 1..Len(f) : Sums(f)[n] = Sums(f)[n - 1] + f[n]
<1> DEFINE W == Len(f)
           D == Nat
           b == 0
           next == [p \in (1..W) \X D |-> p[2] + f[p[1]]]
           IsSum(sum) == sum = [n \in 0..Len(f) |-> IF n = 0 THEN 0 ELSE sum[n - 1] + f[n]]
           sum == CHOOSE g : IsSum(g)
<1>1. W \in Nat /\ b \in D /\ \A n \in 1..W : f[n] \in D
  OBVIOUS
<1>2. next \in [(1..W) \X D -> D]
  <2>1. ASSUME NEW p \in (1..W) \X D PROVE p[2] + f[p[1]] \in D
    <3>1. p[1] \in 1..W /\ p[2] \in Nat /\ f[p[1]] \in Nat
      BY <1>1
    <3> QED BY <3>1
  <2> HIDE DEF D, W
  <2> QED BY <2>1
<1>3. \A i \in 1..W, d \in D : next[<<i, d>>] = d + f[i]
  <2> HIDE DEF D, W
  <2> QED OBVIOUS
<1>4. PICK g \in [0..W -> D] : Follows(g, W, b, next)
  <2> HIDE DEF W, D, next, b
  <2> QED BY <1>1, <1>2, Recursion
<1>5. \A n \in 0..W : g[n] = IF n = 0 THEN 0 ELSE g[n - 1] + f[n]
  <2> HIDE DEF W, D, next
  <2>1. ASSUME NEW n \in 0..W PROVE g[n] = IF n = 0 THEN 0 ELSE g[n - 1] + f[n]
    <3>1. n # 0 => n \in 1..W /\ n - 1 \in 0..W
      BY <1>1
    <3>2. g[n] = IF n = 0 THEN b ELSE next[<<n, g[n - 1]>>]
      BY <1>4 DEF Follows
    <3> QED BY <1>3, <3>1, <3>2
  <2> QED BY <2>1
<1>6. IsSum(g)
  BY <1>5
<1>7. IsSum(sum)
  <2> HIDE DEF IsSum
  <2> QED BY <1>6
<1>8. Sums(f) = sum
  BY DEF Sums
<1> HIDE DEF sum, next
<1>9. \A n \in 0..W : sum[n] = IF n = 0 THEN 0 ELSE sum[n - 1] + f[n]
  BY <1>7
<1> HIDE DEF W, IsSum
<1> DEFINE P == {n \in 0..W : sum[n] \in Nat}
<1>10. 0 \in P
  BY <1>1, <1>9
<1>11. ASSUME NEW n \in 0..(W - 1), n \in P PROVE n + 1 \in P
  <2>1. n + 1 \in 0..W /\ n + 1 # 0 /\ (n + 1) - 1 = n /\ n + 1 \in 1..W /\ sum[n] \in Nat
    BY <1>1, <1>11
  <2>2. sum[n + 1] = sum[n] + f[n + 1] /\ f[n + 1] \in Nat
    BY <1>1, <1>9, <2>1
  <2> QED BY <2>1, <2>2
<1>12. 0..W \subseteq P
  <2> HIDE DEF P
  <2> QED BY <1>1, <1>10, <1>11, UpTo
<1>13. \A n \in 1..W : n \in 0..W /\ n # 0
  BY <1>1
<1>14. 0 \in 0..W
  BY <1>1
<1> QED BY <1>8, <1>9, <1>12, <1>13, <1>14 DEF W

\* A text in paragraphs of at least one sentence, none of them empty.
Books == {text \in Seq(Seq(Nat \ {0})) : \A i \in DOMAIN text : text[i] # <<>>}

LEMMA LengthIs ==
  ASSUME NEW p \in Seq(Nat \ {0}), p # <<>>
  PROVE  Length(p) \in Nat \ {0}
<1>1. p \in Seq(Nat) /\ Len(p) \in Nat /\ Len(p) >= 1 /\ Len(p) \in 1..Len(p) /\ Len(p) - 1 \in 0..Len(p)
  OBVIOUS
<1>2. p[Len(p)] \in Nat \ {0}
  BY <1>1
<1>3. /\ Sums(p)[Len(p)] = Sums(p)[Len(p) - 1] + p[Len(p)]
      /\ Sums(p)[Len(p) - 1] \in Nat
  BY <1>1, SumsOf
<1> QED BY <1>1, <1>2, <1>3 DEF Length

\* The span grows with the paragraphs, each of which two line breaks precede.
LEMMA SpanIs ==
  ASSUME NEW text \in Books, NEW i \in 0..Len(text), NEW k \in 0..Len(text), i <= k
  PROVE  /\ Span(text, i, k) \in Int
         /\ k # Len(text) => Span(text, i, k + 1) = Span(text, i, k) + 2 + Length(text[k + 1])
         /\ i # Len(text) => Span(text, i, i + 1) = Length(text[i + 1])
<1> DEFINE W == Len(text)
           f == [n \in 1..W |-> Length(text[n])]
           sum == Sums(f)
<1>1. W \in Nat /\ text \in Seq(Seq(Nat \ {0})) /\ \A n \in 1..W : text[n] \in Seq(Nat \ {0}) /\ text[n] # <<>>
  BY DEF Books
<1>2. \A n \in 1..W : Length(text[n]) \in Nat
  BY <1>1, LengthIs
<1>3. f \in Seq(Nat) /\ Len(f) = W /\ \A n \in 1..W : f[n] = Length(text[n])
  <2> HIDE DEF W
  <2> QED BY <1>1, <1>2
<1> HIDE DEF f
<1>4. /\ \A n \in 0..W : sum[n] \in Nat
      /\ \A n \in 1..W : sum[n] = sum[n - 1] + f[n]
  BY <1>3, SumsOf
<1>5. \A j, n : Span(text, j, n) = sum[n] - sum[j] + 2 * (n - j - 1)
  BY DEF Span, f
<1> HIDE DEF sum, W
<1>6. i \in Nat /\ k \in Nat /\ i <= W /\ k <= W /\ sum[i] \in Nat /\ sum[k] \in Nat
  BY <1>1, <1>4 DEF W
<1>7. ASSUME NEW n \in 0..W, n # W PROVE sum[n + 1] = sum[n] + Length(text[n + 1]) /\ Length(text[n + 1]) \in Nat
  <2>1. n + 1 \in 1..W /\ (n + 1) - 1 = n
    BY <1>1, <1>7
  <2> QED BY <1>2, <1>3, <1>4, <2>1
<1>8. Span(text, i, k) = sum[k] - sum[i] + 2 * (k - i - 1)
  BY <1>5
<1>9. ASSUME k # W PROVE Span(text, i, k + 1) = Span(text, i, k) + 2 + Length(text[k + 1])
  <2>1. Span(text, i, k + 1) = sum[k + 1] - sum[i] + 2 * ((k + 1) - i - 1)
    BY <1>5
  <2>2. sum[k + 1] = sum[k] + Length(text[k + 1]) /\ Length(text[k + 1]) \in Nat
    BY <1>7, <1>9 DEF W
  <2> DEFINE l == Length(text[k + 1])
  <2> HIDE DEF l
  <2>3. Span(text, i, k + 1) = (sum[k] + l) - sum[i] + 2 * ((k + 1) - i - 1) /\ l \in Nat
    BY <2>1, <2>2 DEF l
  <2>4. (sum[k] + l) - sum[i] + 2 * ((k + 1) - i - 1) = sum[k] - sum[i] + 2 * (k - i - 1) + 2 + l
    BY <1>6, <2>3
  <2>5. Span(text, i, k + 1) = Span(text, i, k) + 2 + l
    BY <1>8, <2>3, <2>4
  <2> QED BY <2>5 DEF l
<1>10. ASSUME i # W PROVE Span(text, i, i + 1) = Length(text[i + 1])
  <2>1. Span(text, i, i + 1) = sum[i + 1] - sum[i] + 2 * ((i + 1) - i - 1)
    BY <1>5
  <2>2. sum[i + 1] = sum[i] + Length(text[i + 1]) /\ Length(text[i + 1]) \in Nat
    BY <1>7, <1>10 DEF W
  <2> DEFINE l == Length(text[i + 1])
  <2> HIDE DEF l
  <2>3. Span(text, i, i + 1) = (sum[i] + l) - sum[i] + 2 * ((i + 1) - i - 1) /\ l \in Nat
    BY <2>1, <2>2 DEF l
  <2>4. (sum[i] + l) - sum[i] + 2 * ((i + 1) - i - 1) = l
    BY <1>6, <2>3
  <2> QED BY <2>3, <2>4 DEF l
<1>11. Span(text, i, k) \in Int
  BY <1>6, <1>8
<1> QED BY <1>9, <1>10, <1>11 DEF W

-----------------------------------------------------------------------------
\* What is gathered: chunks of sentences, each with its place.
SentencePlaces == Nat \X Nat

Chunks == [holds : Seq(SentencePlaces), size : Int]

Gatherings == [chunks : Seq(Chunks), now : Seq(SentencePlaces), size : Int]

\* A list of chunks holds the same as its parts do together.
LEMMA HeldIs ==
  ASSUME NEW c \in Seq(Chunks)
  PROVE  /\ Held(c) \in Seq(SentencePlaces)
         /\ \A x \in Chunks : Held(Append(c, x)) = Held(c) \o x.holds
         /\ \A d \in Seq(Chunks) : Held(c \o d) = Held(c) \o Held(d)
<1> DEFINE B == Seq(SentencePlaces)
           H(s) == [k \in DOMAIN s |-> s[k].holds]
<1>1. \A x \in Chunks : x.holds \in B
  BY DEF Chunks
<1>2. \A s \in Seq(Chunks) : H(s) \in Seq(B) /\ Held(s) = FlattenSeq(H(s))
  <2>1. ASSUME NEW s \in Seq(Chunks) PROVE H(s) \in Seq(B)
    <3>1. DOMAIN s = 1..Len(s) /\ Len(s) \in Nat /\ \A k \in DOMAIN s : s[k] \in Chunks
      OBVIOUS
    <3>2. \A k \in DOMAIN s : s[k].holds \in B
      BY <1>1, <3>1
    <3> HIDE DEF B
    <3> QED BY <3>1, <3>2
  <2> QED BY <2>1 DEF Held
<1>3. <<>> \in B
  OBVIOUS
<1>4. Held(c) \in B
  BY <1>2, <1>3, FlattenAppend
<1>5. ASSUME NEW x \in Chunks PROVE Held(Append(c, x)) = Held(c) \o x.holds
  <2> HIDE DEF H
  <2>1. Append(c, x) \in Seq(Chunks)
    OBVIOUS
  <2>2. H(Append(c, x)) = Append(H(c), x.holds)
    BY DEF H
  <2>3. FlattenSeq(Append(H(c), x.holds)) = FlattenSeq(H(c)) \o x.holds
    BY <1>1, <1>2, FlattenAppend
  <2> QED BY <1>2, <2>1, <2>2, <2>3
<1>6. ASSUME NEW d \in Seq(Chunks) PROVE Held(c \o d) = Held(c) \o Held(d)
  <2> HIDE DEF H
  <2>1. c \o d \in Seq(Chunks)
    OBVIOUS
  <2>2. H(c \o d) = H(c) \o H(d)
    <3> DEFINE l == Len(c)
               m == Len(d)
               cd == c \o d
    <3>1. /\ l \in Nat /\ m \in Nat /\ DOMAIN c = 1..l /\ DOMAIN d = 1..m
          /\ Len(cd) = l + m /\ DOMAIN cd = 1..(l + m)
          /\ \A k \in 1..(l + m) : cd[k] = IF k <= l THEN c[k] ELSE d[k - l]
      BY <2>1
    <3> HIDE DEF l, m, cd
    <3>2. /\ H(c) = [k \in 1..l |-> c[k].holds]
          /\ H(d) = [k \in 1..m |-> d[k].holds]
          /\ H(cd) = [k \in 1..(l + m) |-> cd[k].holds]
      BY <3>1 DEF H
    <3>3. H(c) \in Seq(B) /\ H(d) \in Seq(B) /\ Len(H(c)) = l /\ Len(H(d)) = m
      BY <1>2, <3>1, <3>2
    <3> DEFINE hc == H(c)
               hd == H(d)
    <3>4. /\ hc \in Seq(B) /\ hd \in Seq(B) /\ Len(hc) = l /\ Len(hd) = m
      BY <3>3
    <3> HIDE DEF hc, hd, B
    <3>5. hc \o hd = [k \in 1..(l + m) |-> IF k <= l THEN hc[k] ELSE hd[k - l]]
      <4> DEFINE e == hc \o hd
      <4>1. /\ e \in Seq(B) /\ Len(e) = l + m
            /\ \A k \in 1..(l + m) : e[k] = IF k <= l THEN hc[k] ELSE hd[k - l]
        BY <3>4, ConcatProperties
      <4> HIDE DEF e
      <4>2. e = [k \in 1..(l + m) |-> e[k]]
        BY <4>1
      <4>3. e = [k \in 1..(l + m) |-> IF k <= l THEN hc[k] ELSE hd[k - l]]
        BY <4>1, <4>2
      <4> QED BY <4>3 DEF e
    <3>6. ASSUME NEW k \in 1..(l + m)
          PROVE  cd[k].holds = IF k <= l THEN hc[k] ELSE hd[k - l]
      <4>1. k <= l => k \in 1..l
        BY <3>1
      <4>2. ~(k <= l) => k - l \in 1..m
        BY <3>1
      <4> QED BY <3>1, <3>2, <4>1, <4>2 DEF hc, hd
    <3>7. H(cd) = hc \o hd
      BY <3>2, <3>5, <3>6
    <3> QED BY <3>7 DEF hc, hd, cd
  <2>3. FlattenSeq(H(c) \o H(d)) = FlattenSeq(H(c)) \o FlattenSeq(H(d))
    BY <1>2, FlattenConcat
  <2> QED BY <1>2, <2>1, <2>2, <2>3
<1> QED BY <1>4, <1>5, <1>6

LEMMA EmitIs ==
  ASSUME NEW b \in Gatherings
  PROVE  /\ Emit(b) \in Seq(Chunks)
         /\ Held(Emit(b)) = Held(b.chunks) \o b.now
         /\ Len(Emit(b)) = Len(b.chunks) + 1
         /\ \A k \in 1..Len(b.chunks) : Emit(b)[k] = b.chunks[k]
         /\ Emit(b)[Len(b.chunks) + 1].size = b.size
<1> DEFINE x == [holds |-> b.now, size |-> b.size]
<1>1. b.chunks \in Seq(Chunks) /\ x \in Chunks /\ Emit(b) = Append(b.chunks, x)
  BY DEF Gatherings, Chunks, Emit
<1>2. x.holds = b.now /\ x.size = b.size
  OBVIOUS
<1> HIDE DEF x
<1>3. Held(Append(b.chunks, x)) = Held(b.chunks) \o b.now
  BY <1>1, <1>2, HeldIs
<1> DEFINE c == b.chunks
<1>4. c \in Seq(Chunks)
  BY <1>1
<1> HIDE DEF c
<1>5. /\ Append(c, x) \in Seq(Chunks)
      /\ Len(Append(c, x)) = Len(c) + 1
      /\ \A k \in 1..Len(c) : Append(c, x)[k] = c[k]
      /\ Append(c, x)[Len(c) + 1] = x
  BY <1>1, <1>4
<1> QED BY <1>1, <1>2, <1>3, <1>5 DEF c

\* No longer than an overlap, a separator and something of the sizes N.
Bounded(size, s, N) == \E n \in N : size <= s.overlap + 2 + n

\* The chunks and what is being gathered hold the given sentences, and none is
\* longer than it must be.
Gathered(b, sentences, s, N) ==
  /\ b \in Gatherings
  /\ Held(b.chunks) \o b.now = sentences
  /\ b.size >= 0
  /\ b.size = 0 => b.now = <<>>
  /\ \A k \in DOMAIN b.chunks : Bounded(b.chunks[k].size, s, N)
  /\ Bounded(b.size, s, N)

\* A unit that is added is what there is, or joins it, or starts anew at a size
\* that is no short chunk.
Added(r, b, u, sep, s) ==
  /\ r.size >= 1
  /\ \/ r.size >= s.min
     \/ r.chunks = b.chunks /\ b.size = 0 /\ r.size = u.size
     \/ r.chunks = b.chunks /\ b.size # 0 /\ b.size < s.min /\ r.size = b.size + sep + u.size

\* A chunk that is appended holds what was gathered, within the bound.
LEMMA EmitKeeps ==
  ASSUME NEW s, NEW N, NEW sentences, NEW b, Gathered(b, sentences, s, N)
  PROVE  /\ Emit(b) \in Seq(Chunks)
         /\ Held(Emit(b)) = sentences
         /\ \A k \in DOMAIN Emit(b) : Bounded(Emit(b)[k].size, s, N)
<1> DEFINE e == Emit(b)
           c == b.chunks
<1>1. b \in Gatherings /\ Held(c) \o b.now = sentences /\ Bounded(b.size, s, N) /\ c \in Seq(Chunks)
  BY DEF Gathered, Gatherings
<1>2. \A k \in DOMAIN c : Bounded(c[k].size, s, N)
  BY DEF Gathered
<1>3. /\ e \in Seq(Chunks) /\ Held(e) = Held(c) \o b.now /\ Len(e) = Len(c) + 1
      /\ \A k \in 1..Len(c) : e[k] = c[k]
      /\ e[Len(c) + 1].size = b.size
  BY <1>1, EmitIs
<1> HIDE DEF e, c
<1>4. ASSUME NEW k \in DOMAIN e PROVE Bounded(e[k].size, s, N)
  <2>1. k \in 1..Len(c) \/ k = Len(c) + 1
    BY <1>1, <1>3
  <2>2. CASE k \in 1..Len(c)
    <3>1. k \in DOMAIN c
      BY <1>1, <2>2
    <3> QED BY <1>2, <1>3, <2>2, <3>1
  <2>3. CASE k = Len(c) + 1
    BY <1>1, <1>3, <2>3
  <2> QED BY <2>1, <2>2, <2>3
<1> QED BY <1>1, <1>3, <1>4 DEF e

LEMMA NothingGathered ==
  ASSUME NEW s, Proportioned(s), NEW N, s.size \in N
  PROVE  Gathered(Nothing, <<>>, s, N)
<1>1. /\ Nothing \in Gatherings /\ Nothing.chunks = <<>> /\ Nothing.now = <<>> /\ Nothing.size = 0
  BY DEF Nothing, Gatherings
<1>2. Held(<<>>) = <<>>
  <2>1. [k \in DOMAIN <<>> |-> <<>>[k].holds] = <<>>
    OBVIOUS
  <2> QED BY <2>1, FlattenEmpty DEF Held
<1>3. <<>> \o <<>> = <<>> /\ DOMAIN <<>> = {}
  OBVIOUS
<1>4. Bounded(0, s, N)
  BY DEF Bounded, Proportioned
<1> HIDE DEF Nothing
<1> QED BY <1>1, <1>2, <1>3, <1>4 DEF Gathered

LEMMA AddKeeps ==
  ASSUME NEW s, Proportioned(s), NEW N, s.size \in N, N \subseteq Int,
         NEW sentences, NEW b, Gathered(b, sentences, s, N),
         NEW u, u \in [now : Seq(SentencePlaces), size : Nat \ {0}], \E n \in N : u.size <= n,
         NEW sep \in 1..2, NEW blank \in 0..sep, blank < s.overlap
  PROVE  /\ Gathered(Add(b, u, sep, s, blank), sentences \o u.now, s, N)
         /\ Added(Add(b, u, sep, s, blank), b, u, sep, s)
<1> DEFINE r == Add(b, u, sep, s, blank)
           o == s.overlap
           mn == s.min
           cap == s.size
           z == b.size
           y == u.size
<1>1. o \in Nat /\ mn \in Nat /\ cap \in Nat /\ mn >= 1 /\ mn <= o /\ o + 2 + mn <= cap
  BY DEF Proportioned
<1>2. /\ b.chunks \in Seq(Chunks) /\ b.now \in Seq(SentencePlaces) /\ z \in Int /\ z >= 0
      /\ b \in Gatherings /\ Held(b.chunks) \o b.now = sentences
      /\ z = 0 => b.now = <<>>
      /\ \A k \in DOMAIN b.chunks : Bounded(b.chunks[k].size, s, N)
      /\ Bounded(z, s, N)
  BY DEF Gathered, Gatherings
<1>3. u.now \in Seq(SentencePlaces) /\ y \in Nat /\ y >= 1 /\ sep \in Nat /\ sep <= 2 /\ sep >= 1
      /\ blank \in Nat /\ blank <= sep /\ blank < o
  <2> HIDE DEF o
  <2>1. u.now \in Seq(SentencePlaces) /\ y \in Nat \ {0}
    OBVIOUS
  <2>2. blank < o
    BY DEF o
  <2> HIDE DEF y
  <2> QED BY <2>1, <2>2
<1>4. Held(b.chunks) \in Seq(SentencePlaces)
  BY <1>2, HeldIs
<1>5. \A w : w \in Int /\ w <= o + 2 + y => Bounded(w, s, N)
  <2>1. PICK n \in N : y <= n
    OBVIOUS
  <2>2. n \in Int
    OBVIOUS
  <2>3. ASSUME NEW w, w \in Int, w <= o + 2 + y PROVE w <= o + 2 + n
    <3> HIDE DEF o, y
    <3> QED BY <1>1, <1>3, <2>1, <2>2, <2>3
  <2> QED BY <2>3 DEF Bounded
<1>6. \A w : w \in Int /\ w <= cap => Bounded(w, s, N)
  <2>1. ASSUME NEW w \in Int, w <= cap PROVE w <= o + 2 + cap
    <3> HIDE DEF o, cap
    <3> QED BY <1>1, <2>1
  <2> QED BY <2>1 DEF Bounded
<1>7. CASE z = 0
  <2>1. /\ r.chunks = b.chunks /\ r.now = u.now /\ r.size = y
        /\ r \in Gatherings
    <3>1. r = [b EXCEPT !.now = u.now, !.size = y]
      BY <1>7 DEF Add
    <3>2. y \in Int
      <4> HIDE DEF y
      <4> QED BY <1>3
    <3> QED BY <1>2, <1>3, <3>1, <3>2 DEF Gatherings
  <2>2. Held(b.chunks) = sentences
    <3>1. b.now = <<>>
      BY <1>2, <1>7
    <3> DEFINE h == Held(b.chunks)
    <3>2. h \o <<>> = h
      <4>1. h \in Seq(SentencePlaces)
        BY <1>4
      <4> HIDE DEF h
      <4> QED BY <4>1
    <3> QED BY <1>2, <3>1, <3>2
  <2>3. y <= o + 2 + y /\ y \in Int /\ y >= 0 /\ y # 0
    <3> HIDE DEF o, y
    <3> QED BY <1>1, <1>3
  <2>4. Bounded(y, s, N)
    BY <1>5, <2>3
  <2> HIDE DEF r
  <2>5. Gathered(r, sentences \o u.now, s, N)
    BY <1>2, <2>1, <2>2, <2>3, <2>4 DEF Gathered
  <2>6. Added(r, b, u, sep, s)
    BY <1>3, <1>7, <2>1 DEF Added
  <2> QED BY <2>5, <2>6 DEF r
<1>8. CASE z # 0 /\ z + sep + y <= cap
  <2>1. /\ r.chunks = b.chunks /\ r.now = b.now \o u.now /\ r.size = z + sep + y
        /\ r \in Gatherings
    <3>1. r = [b EXCEPT !.now = @ \o u.now, !.size = @ + sep + y]
      BY <1>8 DEF Add
    <3>2. b.now \o u.now \in Seq(SentencePlaces) /\ z + sep + y \in Int
      <4> HIDE DEF y, z
      <4> QED BY <1>2, <1>3
    <3> QED BY <1>2, <3>1, <3>2 DEF Gatherings
  <2>2. Held(b.chunks) \o (b.now \o u.now) = sentences \o u.now
    <3> DEFINE h == Held(b.chunks)
               v == b.now
               w == u.now
    <3>1. h \in Seq(SentencePlaces) /\ v \in Seq(SentencePlaces) /\ w \in Seq(SentencePlaces) /\ h \o v = sentences
      BY <1>2, <1>3, <1>4
    <3>2. h \in Seq(SentencePlaces)
      BY <3>1
    <3>3. v \in Seq(SentencePlaces)
      BY <3>1
    <3>4. w \in Seq(SentencePlaces)
      BY <3>1
    <3> HIDE DEF h, v, w
    <3>5. (h \o v) \o w = h \o (v \o w)
      BY ONLY <3>2, <3>3, <3>4, ConcatAssociative
    <3> QED BY <3>1, <3>5 DEF h, v, w
  <2>3. z + sep + y \in Int /\ z + sep + y >= 1 /\ (z >= mn => z + sep + y >= mn)
    <3> HIDE DEF z, y, mn
    <3> QED BY <1>1, <1>2, <1>3
  <2>4. Bounded(z + sep + y, s, N)
    BY <1>6, <1>8, <2>3
  <2> DEFINE t == z + sep + y
  <2>5. t \in Int /\ t >= 1 /\ (z >= mn => t >= mn) /\ Bounded(t, s, N) /\ r.size = t
    BY <2>1, <2>3, <2>4
  <2>6. t = b.size + sep + u.size /\ b.size = z /\ mn = s.min
    OBVIOUS
  <2> HIDE DEF r, t
  <2>7. Gathered(r, sentences \o u.now, s, N)
    <3>1. t >= 0 /\ t # 0
      BY <2>5
    <3> QED BY <1>2, <2>1, <2>2, <2>5, <3>1 DEF Gathered
  <2>8. Added(r, b, u, sep, s)
    <3>1. z < mn \/ z >= mn
      <4> HIDE DEF z, mn
      <4> QED BY <1>1, <1>2
    <3> HIDE DEF z, mn
    <3> QED BY <1>8, <2>1, <2>5, <2>6, <3>1 DEF Added
  <2> QED BY <2>7, <2>8 DEF r
<1>9. CASE z # 0 /\ ~(z + sep + y <= cap)
  <2> DEFINE t == y + IF o > 0 /\ z > o THEN o - blank + sep ELSE 0
  <2>1. r = [chunks |-> Emit(b), now |-> u.now, size |-> t]
    BY <1>9 DEF Add
  <2>2. t \in Int /\ t >= mn /\ t >= 1 /\ t <= o + 2 + y
    <3> HIDE DEF o, y, z, mn, cap
    <3>1. CASE z > o
      <4>1. t = y + (o - blank + sep)
        BY <1>1, <3>1
      <4> QED BY <1>1, <1>3, <4>1
    <3>2. CASE ~(z > o)
      <4>1. t = y
        BY <1>3, <3>2
      <4> QED BY <1>1, <1>2, <1>3, <1>9, <3>2, <4>1
    <3> QED BY <3>1, <3>2
  <2>3. Bounded(t, s, N)
    <3> HIDE DEF t
    <3> QED BY <1>5, <2>2
  <2>4. Emit(b) \in Seq(Chunks) /\ Held(Emit(b)) = sentences
    BY EmitKeeps
  <2>5. \A k \in DOMAIN Emit(b) : Bounded(Emit(b)[k].size, s, N)
    BY EmitKeeps
  <2> HIDE DEF t
  <2>6. r.chunks = Emit(b) /\ r.now = u.now /\ r.size = t /\ r \in Gatherings
    BY <1>3, <2>1, <2>2, <2>4 DEF Gatherings
  <2> HIDE DEF r
  <2>7. Gathered(r, sentences \o u.now, s, N)
    <3>1. t >= 0 /\ t # 0
      BY <2>2
    <3> QED BY <2>3, <2>4, <2>5, <2>6, <3>1 DEF Gathered
  <2>8. Added(r, b, u, sep, s)
    BY <2>2, <2>6 DEF Added
  <2> QED BY <2>7, <2>8 DEF r
<1> QED BY <1>7, <1>8, <1>9

LEMMA AddType ==
  ASSUME NEW s, Proportioned(s), NEW b \in Gatherings,
         NEW u \in [now : Seq(SentencePlaces), size : Nat \ {0}], NEW sep \in Int, NEW blank \in Int
  PROVE  Add(b, u, sep, s, blank) \in Gatherings
<1> DEFINE z == b.size
           y == u.size
           o == s.overlap
           t == y + IF o > 0 /\ z > o THEN o - blank + sep ELSE 0
<1>1. /\ b.chunks \in Seq(Chunks) /\ b.now \in Seq(SentencePlaces) /\ z \in Int
      /\ u.now \in Seq(SentencePlaces) /\ y \in Int /\ o \in Int
  <2>1. u.now \in Seq(SentencePlaces) /\ y \in Nat \ {0} /\ o \in Nat
    BY DEF Proportioned
  <2> HIDE DEF y, o
  <2>2. y \in Int /\ o \in Int
    BY <2>1
  <2> QED BY <2>1, <2>2 DEF Gatherings
<1>2. z + sep + y \in Int /\ t \in Int /\ b.now \o u.now \in Seq(SentencePlaces)
  <2> HIDE DEF z, y, o
  <2> QED BY <1>1
<1>3. Emit(b) \in Seq(Chunks)
  BY EmitIs
<1>4. CASE z = 0
  <2>1. Add(b, u, sep, s, blank) = [b EXCEPT !.now = u.now, !.size = y]
    BY <1>4 DEF Add
  <2> QED BY <1>1, <2>1 DEF Gatherings
<1>5. CASE z # 0 /\ z + sep + y <= s.size
  <2>1. Add(b, u, sep, s, blank) = [b EXCEPT !.now = @ \o u.now, !.size = @ + sep + y]
    BY <1>5 DEF Add
  <2> QED BY <1>1, <1>2, <2>1 DEF Gatherings
<1>6. CASE z # 0 /\ ~(z + sep + y <= s.size)
  <2>1. Add(b, u, sep, s, blank) = [chunks |-> Emit(b), now |-> u.now, size |-> t]
    BY <1>6 DEF Add
  <2> HIDE DEF t
  <2> QED BY <1>1, <1>2, <1>3, <2>1 DEF Gatherings
<1> QED BY <1>4, <1>5, <1>6

\* b[j] is what is gathered of the first j sentences of a large paragraph.
IsSplit(b, i, p, s, blanks) ==
  b = [j \in 0..Len(p) |->
         IF j = 0 THEN Nothing ELSE Add(b[j - 1], Sentence(i, j, p), 1, s, blanks[<<i, j>>])]

LEMMA SentenceIs ==
  ASSUME NEW i \in Nat, NEW p \in Seq(Nat \ {0}), NEW j \in 1..Len(p)
  PROVE  /\ Sentence(i, j, p) \in [now : Seq(SentencePlaces), size : Nat \ {0}]
         /\ Sentence(i, j, p).now = <<<<i, j>>>>
         /\ Sentence(i, j, p).size = p[j]
<1>1. <<i, j>> \in SentencePlaces
  BY DEF SentencePlaces
<1>2. p[j] \in Nat \ {0}
  OBVIOUS
<1> QED BY <1>1, <1>2 DEF Sentence, Unit

LEMMA SplitExists ==
  ASSUME NEW s, Proportioned(s), NEW i \in Nat, NEW p \in Seq(Nat \ {0}),
         NEW blanks, \A j \in 1..Len(p) : blanks[<<i, j>>] \in Int
  PROVE  \E b : IsSplit(b, i, p, s, blanks)
<1> DEFINE W == Len(p)
           D == Gatherings
           a == Nothing
           next == [q \in (1..W) \X D |-> Add(q[2], Sentence(i, q[1], p), 1, s, blanks[<<i, q[1]>>])]
<1>1. W \in Nat /\ a \in D
  BY DEF Nothing, Gatherings
<1>2. next \in [(1..W) \X D -> D]
  <2>1. ASSUME NEW q \in (1..W) \X D
        PROVE  Add(q[2], Sentence(i, q[1], p), 1, s, blanks[<<i, q[1]>>]) \in D
    <3>1. q[1] \in 1..W /\ q[2] \in Gatherings
      OBVIOUS
    <3>2. /\ Sentence(i, q[1], p) \in [now : Seq(SentencePlaces), size : Nat \ {0}]
          /\ blanks[<<i, q[1]>>] \in Int /\ 1 \in Int
      BY <3>1, SentenceIs
    <3> QED BY <3>1, <3>2, AddType
  <2> HIDE DEF D, W
  <2> QED BY <2>1
<1>3. \A j \in 1..W, d \in D : next[<<j, d>>] = Add(d, Sentence(i, j, p), 1, s, blanks[<<i, j>>])
  <2> HIDE DEF D, W
  <2> QED OBVIOUS
<1> HIDE DEF next, D, a
<1>4. PICK b \in [0..W -> D] : Follows(b, W, a, next)
  <2> HIDE DEF W
  <2> QED BY <1>1, <1>2, Recursion
<1>5. ASSUME NEW j \in 0..W
      PROVE  b[j] = IF j = 0 THEN Nothing ELSE Add(b[j - 1], Sentence(i, j, p), 1, s, blanks[<<i, j>>])
  <2> HIDE DEF W
  <2>1. j # 0 => j \in 1..W /\ j - 1 \in 0..W
    BY <1>1
  <2>2. b[j] = IF j = 0 THEN a ELSE next[<<j, b[j - 1]>>]
    BY <1>4 DEF Follows
  <2> QED BY <1>3, <2>1, <2>2 DEF a
<1>6. b = [j \in 0..W |->
             IF j = 0 THEN Nothing ELSE Add(b[j - 1], Sentence(i, j, p), 1, s, blanks[<<i, j>>])]
  BY <1>5
<1> QED BY <1>6 DEF IsSplit

LEMMA FirstIs ==
  ASSUME NEW i \in Nat, NEW n \in Nat
  PROVE  /\ First(i, n) \in Seq(SentencePlaces)
         /\ First(i, n + 1) = First(i, n) \o <<<<i, n + 1>>>>
         /\ First(i, 0) = <<>>
<1>1. \A j \in Nat : <<i, j>> \in SentencePlaces
  BY DEF SentencePlaces
<1> DEFINE x == <<i, n + 1>>
           f == [j \in 1..n |-> <<i, j>>]
<1>2. f \in Seq(SentencePlaces) /\ Len(f) = n /\ x \in SentencePlaces
  <2>1. \A j \in 1..n : <<i, j>> \in SentencePlaces
    BY <1>1
  <2>2. x \in SentencePlaces
    BY <1>1
  <2> QED BY <2>1, <2>2
<1>3. [j \in 1..(n + 1) |-> <<i, j>>] = Append(f, x)
  OBVIOUS
<1> HIDE DEF f, x
<1>4. Append(f, x) = f \o <<x>>
  BY <1>2
<1>5. First(i, 0) = <<>>
  BY DEF First
<1> QED BY <1>2, <1>3, <1>4, <1>5 DEF First, f, x

\* After j sentences of a large paragraph: they are all held, and what is being
\* gathered is no short chunk, unless it is all there is.
Splitting(b, i, p, j, s, N) ==
  /\ Gathered(b, First(i, j), s, N)
  /\ j # 0 => b.size # 0
  /\ j = 0 => b.size = 0
  /\ b.size >= s.min \/ b.size = IF j = 0 THEN 0 ELSE Sums(p)[j] + j - 1

LEMMA SplitStep ==
  ASSUME NEW s, Proportioned(s), NEW N, s.size \in N, N \subseteq Int,
         NEW i \in Nat, NEW p \in Seq(Nat \ {0}), \A j \in 1..Len(p) : p[j] \in N,
         NEW j \in 0..(Len(p) - 1), NEW b, Splitting(b, i, p, j, s, N),
         NEW blank \in 0..1, blank < s.overlap
  PROVE  Splitting(Add(b, Sentence(i, j + 1, p), 1, s, blank), i, p, j + 1, s, N)
<1> DEFINE u == Sentence(i, j + 1, p)
           r == Add(b, u, 1, s, blank)
<1>1. j \in Nat /\ j + 1 \in 1..Len(p) /\ (j + 1) - 1 = j /\ j \in 0..Len(p) /\ j + 1 # 0 /\ 1 \in 1..2
  OBVIOUS
<1>2. /\ u \in [now : Seq(SentencePlaces), size : Nat \ {0}]
      /\ u.now = <<<<i, j + 1>>>>
      /\ u.size = p[j + 1] /\ p[j + 1] \in N /\ p[j + 1] \in Nat
  <2>1. p[j + 1] \in N /\ p[j + 1] \in Nat
    BY <1>1
  <2> DEFINE n == j + 1
  <2>2. n \in 1..Len(p)
    BY <1>1
  <2> HIDE DEF n
  <2>3. /\ Sentence(i, n, p) \in [now : Seq(SentencePlaces), size : Nat \ {0}]
        /\ Sentence(i, n, p).now = <<<<i, n>>>>
        /\ Sentence(i, n, p).size = p[n]
    BY <2>2, SentenceIs
  <2> QED BY <2>1, <2>3 DEF n
<1>3. \E n \in N : u.size <= n
  BY <1>2
<1>4. Gathered(b, First(i, j), s, N)
  BY DEF Splitting
<1> HIDE DEF u
<1>5. Gathered(r, First(i, j) \o u.now, s, N) /\ Added(r, b, u, 1, s)
  BY <1>1, <1>2, <1>3, <1>4, AddKeeps
<1>6. First(i, j) \o u.now = First(i, j + 1)
  BY <1>1, <1>2, FirstIs
<1>7. /\ Sums(p)[j + 1] = Sums(p)[j] + p[j + 1] /\ Sums(p)[j] \in Nat
      /\ Sums(p)[0] = 0
  <2>1. p \in Seq(Nat)
    OBVIOUS
  <2> QED BY <1>1, <2>1, SumsOf
<1> HIDE DEF r
<1>8. r.size >= 1
  BY <1>5 DEF Added
<1>9. ASSUME ~(r.size >= s.min) PROVE r.size = Sums(p)[j + 1] + (j + 1) - 1
  <2>1. \/ b.size = 0 /\ r.size = u.size
        \/ b.size # 0 /\ ~(b.size >= s.min) /\ r.size = b.size + 1 + u.size
    <3>1. s.min \in Int /\ b.size \in Int
      BY <1>4 DEF Proportioned, Gathered, Gatherings
    <3>2. b.size < s.min => ~(b.size >= s.min)
      BY <3>1
    <3> QED BY <1>5, <1>9, <3>2 DEF Added
  <2>2. b.size = 0 => j = 0
    BY DEF Splitting
  <2>3. b.size # 0 /\ ~(b.size >= s.min) => j # 0 /\ b.size = Sums(p)[j] + j - 1
    BY DEF Splitting
  <2> DEFINE sum == Sums(p)[j]
  <2>4. sum \in Nat /\ Sums(p)[j + 1] = sum + p[j + 1] /\ (j = 0 => sum = 0)
    BY <1>7
  <2> HIDE DEF sum
  <2>5. CASE b.size = 0 /\ r.size = u.size
    BY <1>1, <1>2, <2>2, <2>4, <2>5
  <2>6. CASE b.size # 0 /\ ~(b.size >= s.min) /\ r.size = b.size + 1 + u.size
    <3>1. b.size = sum + j - 1
      BY <2>3, <2>6 DEF sum
    <3> QED BY <1>1, <1>2, <2>4, <2>6, <3>1
  <2> QED BY <2>1, <2>5, <2>6
<1>10. Splitting(r, i, p, j + 1, s, N)
  BY <1>1, <1>5, <1>6, <1>8, <1>9 DEF Splitting
<1> QED BY <1>10 DEF r, u

\* A large paragraph is held whole.
LEMMA SplitIs ==
  ASSUME NEW s, Proportioned(s), NEW N, s.size \in N, N \subseteq Int,
         NEW i \in Nat, NEW p \in Seq(Nat \ {0}), \A j \in 1..Len(p) : p[j] \in N,
         p # <<>>, Length(p) > s.size,
         NEW blanks, \A j \in 1..Len(p) : blanks[<<i, j>>] \in 0..1 /\ blanks[<<i, j>>] < s.overlap,
         NEW c, c = SplitLargeSegment(i, p, s, blanks)
  PROVE  /\ c \in Seq(Chunks)
         /\ Held(c) = First(i, Len(p))
         /\ \A k \in DOMAIN c : Bounded(c[k].size, s, N)
<1> DEFINE W == Len(p)
           b == CHOOSE f : IsSplit(f, i, p, s, blanks)
<1>1. W \in Nat /\ W # 0 /\ W \in 0..W
  OBVIOUS
<1>2. IsSplit(b, i, p, s, blanks)
  <2>1. \A j \in 1..Len(p) : blanks[<<i, j>>] \in Int
    OBVIOUS
  <2> QED BY <2>1, SplitExists
<1>3. c = Close(b[W], s)
  BY DEF SplitLargeSegment, IsSplit
<1> HIDE DEF b
<1>4. b[0] = Nothing /\ \A j \in 0..(W - 1) :
        b[j + 1] = Add(b[j], Sentence(i, j + 1, p), 1, s, blanks[<<i, j + 1>>])
  <2>1. 0 \in 0..Len(p)
    OBVIOUS
  <2>2. \A j \in 0..(W - 1) : j + 1 \in 0..W /\ j + 1 # 0 /\ (j + 1) - 1 = j
    BY <1>1
  <2> QED BY <1>2, <2>1, <2>2 DEF IsSplit
<1> DEFINE P == {j \in 0..W : Splitting(b[j], i, p, j, s, N)}
<1>5. 0 \in P
  <2>1. Gathered(Nothing, <<>>, s, N)
    BY NothingGathered
  <2>2. Nothing.size = 0
    BY DEF Nothing
  <2>3. First(i, 0) = <<>> /\ 0 \in 0..W
    <3>1. First(i, 0) = <<>>
      BY FirstIs, 0 \in Nat
    <3> QED BY <1>1, <3>1
  <2> HIDE DEF Nothing
  <2> QED BY <1>4, <2>1, <2>2, <2>3 DEF Splitting
<1>6. ASSUME NEW j \in 0..(W - 1), j \in P PROVE j + 1 \in P
  <2>1. j + 1 \in 1..Len(p) /\ j + 1 \in 0..W
    BY <1>1
  <2>2. blanks[<<i, j + 1>>] \in 0..1 /\ blanks[<<i, j + 1>>] < s.overlap
    BY <2>1
  <2>3. Splitting(b[j], i, p, j, s, N)
    BY <1>6
  <2>4. Splitting(Add(b[j], Sentence(i, j + 1, p), 1, s, blanks[<<i, j + 1>>]), i, p, j + 1, s, N)
    <3>1. j \in 0..(Len(p) - 1)
      OBVIOUS
    <3> HIDE DEF P, W
    <3> QED BY <2>2, <2>3, <3>1, SplitStep
  <2> QED BY <1>4, <2>1, <2>4
<1>7. Splitting(b[W], i, p, W, s, N)
  <2>1. 0..W \subseteq P
    <3> HIDE DEF P, W
    <3> QED BY <1>1, <1>5, <1>6, UpTo
  <2> QED BY <1>1, <2>1
<1> DEFINE z == b[W].size
<1>8. z >= s.min /\ z > 0
  <2>1. s.min \in Nat /\ s.min >= 1 /\ s.size \in Nat /\ s.size > s.min
    <3>1. s.min \in Nat \ {0} /\ s.size \in Nat /\ s.overlap \in Nat /\ s.min <= s.overlap
          /\ s.overlap + 2 + s.min <= s.size
      BY DEF Proportioned
    <3> QED BY <3>1
  <2>2. z >= s.min \/ z = Length(p)
    BY <1>1, <1>7 DEF Splitting, Length
  <2>3. Length(p) \in Nat /\ z \in Int
    BY <1>7, LengthIs DEF Splitting, Gathered, Gatherings
  <2> HIDE DEF z
  <2> QED BY <2>1, <2>2, <2>3
<1>9. c = Emit(b[W])
  BY <1>3, <1>8 DEF Close
<1>10. Gathered(b[W], First(i, W), s, N)
  BY <1>7 DEF Splitting
<1> QED BY <1>9, <1>10, EmitKeeps

-----------------------------------------------------------------------------
\* What the chunker is given.
Legal(text, s, blanks) == text \in Books /\ Proportioned(s) /\ FewBlanks(text, s, blanks)

LEMMA LegalGives ==
  ASSUME NEW text, NEW s, NEW blanks, Legal(text, s, blanks), NEW i \in 1..Len(text)
  PROVE  /\ text[i] \in Seq(Nat \ {0}) /\ text[i] # <<>>
         /\ \A j \in 1..Len(text[i]) : text[i][j] \in Longest(text, s)
         /\ \A j \in 1..Len(text[i]) : blanks[<<i, j>>] \in 0..1 /\ blanks[<<i, j>>] < s.overlap
         /\ blanks[<<i, 0>>] \in 0..2 /\ blanks[<<i, 0>>] < s.overlap
         /\ Length(text[i]) \in Nat \ {0}
         /\ i \in Nat
<1>1. text \in Seq(Seq(Nat \ {0})) /\ DOMAIN text = 1..Len(text) /\ \A k \in DOMAIN text : text[k] # <<>>
  BY DEF Legal, Books
<1> DEFINE p == text[i]
<1>2. p \in Seq(Nat \ {0}) /\ p # <<>> /\ i \in DOMAIN text /\ i \in Nat
  <2> DEFINE B == Seq(Nat \ {0})
  <2>1. text \in Seq(B) /\ DOMAIN text = 1..Len(text) /\ i \in DOMAIN text
    BY <1>1
  <2>2. text[i] # <<>>
    BY <1>1
  <2> HIDE DEF B
  <2>3. text[i] \in B /\ i \in Nat
    BY <2>1
  <2> QED BY <2>1, <2>2, <2>3 DEF B
<1>3. \A j \in 1..Len(p) : p[j] \in Longest(text, s)
  <2>1. \A j \in 1..Len(p) : p[j] \in ToSet(p)
    BY <1>2 DEF ToSet
  <2> QED BY <1>2, <2>1 DEF Longest
<1>4. \A j \in 0..Len(p) : blanks[<<i, j>>] \in {n \in 0..IF j = 0 THEN 2 ELSE 1 : n < s.overlap}
  BY DEF Legal, FewBlanks
<1>5. \A j \in 1..Len(p) : blanks[<<i, j>>] \in 0..1 /\ blanks[<<i, j>>] < s.overlap
  <2>1. \A j \in 1..Len(p) : j \in 0..Len(p) /\ j # 0
    BY <1>2
  <2> HIDE DEF p
  <2> QED BY <1>4, <2>1
<1>6. blanks[<<i, 0>>] \in 0..2 /\ blanks[<<i, 0>>] < s.overlap
  <2>1. 0 \in 0..Len(p)
    BY <1>2
  <2> HIDE DEF p
  <2> QED BY <1>4, <2>1
<1>7. Length(p) \in Nat \ {0}
  BY <1>2, LengthIs
<1> QED BY <1>2, <1>3, <1>5, <1>6, <1>7

LEMMA LongestIs ==
  ASSUME NEW text \in Books, NEW s, Proportioned(s)
  PROVE  Longest(text, s) \subseteq Int /\ s.size \in Longest(text, s)
<1>1. \A i \in DOMAIN text : ToSet(text[i]) \subseteq Int
  <2>1. ASSUME NEW i \in DOMAIN text PROVE ToSet(text[i]) \subseteq Int
    <3>1. text[i] \in Seq(Nat \ {0})
      BY DEF Books
    <3> QED BY <3>1 DEF ToSet
  <2> QED BY <2>1
<1>2. s.size \in Int
  BY DEF Proportioned
<1> DEFINE T == {ToSet(text[i]) : i \in DOMAIN text}
<1>3. \A S \in T : S \subseteq Int
  BY <1>1
<1>4. Longest(text, s) = (UNION T) \cup {s.size}
  BY DEF Longest
<1> HIDE DEF T
<1>5. ASSUME NEW n \in UNION T PROVE n \in Int
  <2>1. PICK S \in T : n \in S
    OBVIOUS
  <2> QED BY <1>3, <2>1
<1>6. UNION T \subseteq Int
  BY <1>5
<1> QED BY <1>2, <1>4, <1>6

LEMMA UntilIs ==
  ASSUME NEW text \in Books, NEW i \in 0..Len(text)
  PROVE  /\ Until(text, i) \in Seq(SentencePlaces)
         /\ i # Len(text) => Until(text, i + 1) = Until(text, i) \o First(i + 1, Len(text[i + 1]))
         /\ Until(text, 0) = <<>>
<1> DEFINE B == Seq(SentencePlaces)
           now(k) == Paragraph(k, text[k]).now
           f == [k \in 1..i |-> now(k)]
<1>1. \A k \in 1..Len(text) : now(k) = First(k, Len(text[k])) /\ now(k) \in B
  <2>1. ASSUME NEW k \in 1..Len(text) PROVE now(k) = First(k, Len(text[k])) /\ now(k) \in B
    <3>1. text[k] \in Seq(Nat \ {0}) /\ k \in Nat
      BY DEF Books
    <3>2. Len(text[k]) \in Nat
      BY <3>1
    <3>3. now(k) = First(k, Len(text[k]))
      BY DEF Paragraph, Unit
    <3> QED BY <3>1, <3>2, <3>3, FirstIs
  <2> QED BY <2>1
<1>2. Len(text) \in Nat /\ i \in Nat /\ (i # Len(text) => i + 1 \in 1..Len(text)) /\ \A k \in 1..i : k \in 1..Len(text)
  <2>1. Len(text) \in Nat
    BY DEF Books
  <2> QED BY <2>1
<1> HIDE DEF now, B
<1>3. f \in Seq(B) /\ Len(f) = i
  BY <1>1, <1>2
<1>4. Until(text, i) = FlattenSeq(f)
  BY DEF Until, now
<1>5. FlattenSeq(f) \in B
  <2> HIDE DEF f
  <2>1. <<>> \in B
    BY DEF B
  <2> QED BY <1>3, <2>1, FlattenAppend DEF B
<1>6. ASSUME i # Len(text) PROVE Until(text, i + 1) = Until(text, i) \o First(i + 1, Len(text[i + 1]))
  <2> DEFINE x == now(i + 1)
  <2>1. x \in B /\ x = First(i + 1, Len(text[i + 1]))
    BY <1>1, <1>2, <1>6
  <2>2. Until(text, i + 1) = FlattenSeq([k \in 1..(i + 1) |-> now(k)])
    BY DEF Until, now
  <2>3. [k \in 1..(i + 1) |-> now(k)] = Append(f, x)
    BY <1>2
  <2> HIDE DEF f, x
  <2>4. FlattenSeq(Append(f, x)) = FlattenSeq(f) \o x
    BY <1>3, <2>1, FlattenAppend DEF B
  <2> QED BY <1>4, <2>1, <2>2, <2>3, <2>4
<1>7. Until(text, 0) = <<>>
  <2>1. [k \in 1..0 |-> now(k)] = <<>>
    OBVIOUS
  <2> QED BY <2>1, FlattenEmpty DEF Until, now
<1> QED BY <1>4, <1>5, <1>6, <1>7 DEF B

\* b[i] is what is gathered of the first i paragraphs.
IsBuilt(b, text, s, blanks) ==
  b = [i \in 0..Len(text) |-> IF i = 0 THEN Nothing ELSE AddParagraph(b[i - 1], i, text[i], s, blanks)]

LEMMA ParagraphIs ==
  ASSUME NEW text, NEW s, NEW blanks, Legal(text, s, blanks), NEW i \in 1..Len(text)
  PROVE  /\ Paragraph(i, text[i]) \in [now : Seq(SentencePlaces), size : Nat \ {0}]
         /\ Paragraph(i, text[i]).now = First(i, Len(text[i]))
         /\ Paragraph(i, text[i]).size = Length(text[i])
<1>1. text[i] \in Seq(Nat \ {0}) /\ Length(text[i]) \in Nat \ {0} /\ i \in Nat
  BY LegalGives
<1>2. Len(text[i]) \in Nat
  BY <1>1
<1>3. First(i, Len(text[i])) \in Seq(SentencePlaces)
  BY <1>1, <1>2, FirstIs
<1> QED BY <1>1, <1>3 DEF Paragraph, Unit

\* What a large paragraph leaves: its chunks after those before it.
Left(r, b, c, i, text, s) ==
  /\ r \in Gatherings /\ r.now = <<>> /\ r.size = 0
  /\ r.chunks = (IF b.size > 0 THEN Emit(b) ELSE b.chunks) \o c
  /\ c \in Seq(Chunks)
  /\ Held(c) = First(i, Len(text[i]))
  /\ \A k \in DOMAIN c : Bounded(c[k].size, s, Longest(text, s))

LEMMA LargeIs ==
  ASSUME NEW text, NEW s, NEW blanks, Legal(text, s, blanks), NEW i \in 1..Len(text),
         Length(text[i]) > s.size, NEW b \in Gatherings,
         NEW r, r = AddParagraph(b, i, text[i], s, blanks),
         NEW c, c = SplitLargeSegment(i, text[i], s, blanks)
  PROVE  Left(r, b, c, i, text, s)
<1> DEFINE p == text[i]
           N == Longest(text, s)
           e == IF b.size > 0 THEN Emit(b) ELSE b.chunks
<1>1. /\ p \in Seq(Nat \ {0}) /\ p # <<>> /\ (\A j \in 1..Len(p) : p[j] \in N) /\ i \in Nat
      /\ \A j \in 1..Len(p) : blanks[<<i, j>>] \in 0..1 /\ blanks[<<i, j>>] < s.overlap
  BY LegalGives
<1>2. N \subseteq Int /\ s.size \in N /\ Proportioned(s)
  BY LongestIs DEF Legal
<1>3. /\ c \in Seq(Chunks)
      /\ Held(c) = First(i, Len(p))
      /\ \A k \in DOMAIN c : Bounded(c[k].size, s, N)
  <2>1. Length(p) > s.size /\ c = SplitLargeSegment(i, p, s, blanks)
    OBVIOUS
  <2> HIDE DEF p, N
  <2> QED BY <1>1, <1>2, <2>1, SplitIs
<1>4. r = [Nothing EXCEPT !.chunks = e \o c]
  BY DEF AddParagraph
<1>5. e \in Seq(Chunks)
  BY EmitIs DEF Gatherings
<1> HIDE DEF e
<1>6. e \o c \in Seq(Chunks)
  BY <1>3, <1>5
<1>7. r = [chunks |-> e \o c, now |-> <<>>, size |-> 0]
  BY <1>4 DEF Nothing
<1>8. <<>> \in Seq(SentencePlaces) /\ 0 \in Int
  OBVIOUS
<1>9. r \in Gatherings /\ r.now = <<>> /\ r.size = 0 /\ r.chunks = e \o c
  BY <1>6, <1>7, <1>8 DEF Gatherings
<1> QED BY <1>3, <1>9 DEF e, Left

LEMMA BuiltExists ==
  ASSUME NEW text, NEW s, NEW blanks, Legal(text, s, blanks)
  PROVE  \E b : IsBuilt(b, text, s, blanks)
<1> DEFINE W == Len(text)
           D == Gatherings
           a == Nothing
           next == [q \in (1..W) \X D |-> AddParagraph(q[2], q[1], text[q[1]], s, blanks)]
<1>1. W \in Nat /\ a \in D
  BY DEF Nothing, Gatherings, Legal, Books
<1>2. \A i \in 1..W, d \in D : AddParagraph(d, i, text[i], s, blanks) \in D
  <2>1. ASSUME NEW i \in 1..W, NEW d \in D PROVE AddParagraph(d, i, text[i], s, blanks) \in D
    <3>1. CASE Length(text[i]) > s.size
      BY <3>1, LargeIs DEF Left
    <3>2. CASE ~(Length(text[i]) > s.size)
      <4>1. AddParagraph(d, i, text[i], s, blanks) = Add(d, Paragraph(i, text[i]), 2, s, blanks[<<i, 0>>])
        BY <3>2 DEF AddParagraph
      <4>2. Paragraph(i, text[i]) \in [now : Seq(SentencePlaces), size : Nat \ {0}]
        BY ParagraphIs
      <4>3. blanks[<<i, 0>>] \in Int /\ 2 \in Int /\ Proportioned(s)
        <5>1. blanks[<<i, 0>>] \in 0..2
          BY LegalGives
        <5> QED BY <5>1 DEF Legal
      <4> DEFINE u == Paragraph(i, text[i])
                 n == blanks[<<i, 0>>]
      <4>4. u \in [now : Seq(SentencePlaces), size : Nat \ {0}] /\ n \in Int /\ 2 \in Int /\ d \in Gatherings
        BY <4>2, <4>3
      <4> HIDE DEF u, n
      <4>5. Add(d, u, 2, s, n) \in Gatherings
        BY <4>3, <4>4, AddType
      <4> QED BY <4>1, <4>5 DEF u, n
    <3> QED BY <3>1, <3>2
  <2> QED BY <2>1
<1>3. next \in [(1..W) \X D -> D]
  <2> HIDE DEF D, W
  <2> QED BY <1>2
<1>4. \A i \in 1..W, d \in D : next[<<i, d>>] = AddParagraph(d, i, text[i], s, blanks)
  <2> HIDE DEF D, W
  <2> QED OBVIOUS
<1> HIDE DEF next, D, a
<1>5. PICK b \in [0..W -> D] : Follows(b, W, a, next)
  <2> HIDE DEF W
  <2> QED BY <1>1, <1>3, Recursion
<1>6. ASSUME NEW i \in 0..W
      PROVE  b[i] = IF i = 0 THEN Nothing ELSE AddParagraph(b[i - 1], i, text[i], s, blanks)
  <2> HIDE DEF W
  <2>1. i # 0 => i \in 1..W /\ i - 1 \in 0..W
    BY <1>1
  <2>2. b[i] = IF i = 0 THEN a ELSE next[<<i, b[i - 1]>>]
    BY <1>5 DEF Follows
  <2> QED BY <1>4, <2>1, <2>2 DEF a
<1>7. b = [i \in 0..W |-> IF i = 0 THEN Nothing ELSE AddParagraph(b[i - 1], i, text[i], s, blanks)]
  BY <1>6
<1> QED BY <1>7 DEF IsBuilt

\* Where the text may stop if the paragraphs after k are never a chunk.
MayStop(text, s, k) == k = 0 \/ Length(text[k]) > s.size

\* The chunk at hand is short, and all there is since paragraph k.
ShortSince(b, text, i, s, k) ==
  /\ MayStop(text, s, k)
  /\ b.size = Span(text, k, i)
  /\ Held(b.chunks) = Until(text, k)

\* After i paragraphs: they are all held, and what is being gathered is no short
\* chunk, unless it is all there is since a large paragraph or the beginning.
Building(b, text, i, s) ==
  /\ Gathered(b, Until(text, i), s, Longest(text, s))
  /\ b.size = 0 => MayStop(text, s, i) /\ Held(b.chunks) = Until(text, i)
  /\ b.size # 0 => b.size >= s.min \/ \E k \in 0..(i - 1) : ShortSince(b, text, i, s, k)

LEMMA BuildLarge ==
  ASSUME NEW text, NEW s, NEW blanks, Legal(text, s, blanks), NEW i \in 0..(Len(text) - 1),
         NEW b, Building(b, text, i, s), Length(text[i + 1]) > s.size
  PROVE  Building(AddParagraph(b, i + 1, text[i + 1], s, blanks), text, i + 1, s)
<1> DEFINE m == i + 1
           r == AddParagraph(b, m, text[m], s, blanks)
           c == SplitLargeSegment(m, text[m], s, blanks)
           e == IF b.size > 0 THEN Emit(b) ELSE b.chunks
           N == Longest(text, s)
<1>1. text \in Books /\ Proportioned(s) /\ m \in 1..Len(text) /\ i \in 0..Len(text) /\ i # Len(text)
  <2>1. text \in Books /\ Proportioned(s) /\ Len(text) \in Nat
    BY DEF Legal, Books
  <2> QED BY <2>1
<1>2. Gathered(b, Until(text, i), s, N)
  BY DEF Building
<1>3. b \in Gatherings /\ b.chunks \in Seq(Chunks) /\ b.size \in Int /\ b.size >= 0
  BY <1>2 DEF Gathered, Gatherings
<1>4. /\ r \in Gatherings /\ r.now = <<>> /\ r.size = 0
      /\ r.chunks = e \o c
      /\ c \in Seq(Chunks)
      /\ Held(c) = First(m, Len(text[m]))
      /\ \A k \in DOMAIN c : Bounded(c[k].size, s, N)
  <2>1. Length(text[m]) > s.size /\ m \in 1..Len(text)
    BY <1>1
  <2>2. r = AddParagraph(b, m, text[m], s, blanks) /\ c = SplitLargeSegment(m, text[m], s, blanks)
    OBVIOUS
  <2> HIDE DEF m, r, c, N
  <2>3. Left(r, b, c, m, text, s)
    BY <1>3, <2>1, <2>2, LargeIs
  <2> QED BY <2>3 DEF N, e, Left
<1>5. /\ e \in Seq(Chunks) /\ Held(e) = Until(text, i)
      /\ \A k \in DOMAIN e : Bounded(e[k].size, s, N)
  <2>1. CASE b.size > 0
    BY <1>2, <2>1, EmitKeeps
  <2>2. CASE ~(b.size > 0)
    <3>1. b.size = 0
      BY <1>3, <2>2
    <3>2. Held(b.chunks) = Until(text, i)
      BY <3>1 DEF Building
    <3>3. \A k \in DOMAIN b.chunks : Bounded(b.chunks[k].size, s, N)
      BY <1>2 DEF Gathered
    <3> QED BY <1>3, <2>2, <3>2, <3>3
  <2> QED BY <2>1, <2>2
<1>6. Until(text, m) = Until(text, i) \o First(m, Len(text[m])) /\ Until(text, m) \in Seq(SentencePlaces)
  <2>1. m \in 0..Len(text)
    BY <1>1
  <2> QED BY <1>1, <2>1, UntilIs
<1>7. Length(text[m]) > s.size
  OBVIOUS
<1>8. Bounded(0, s, N)
  <2>1. s.size \in N
    BY <1>1, LongestIs
  <2> QED BY <1>1, <2>1 DEF Bounded, Proportioned
<1> HIDE DEF r, c, e, N
<1>9. Held(e \o c) = Until(text, m)
  BY <1>4, <1>5, <1>6, HeldIs
<1>10. ASSUME NEW k \in DOMAIN (e \o c) PROVE Bounded((e \o c)[k].size, s, N)
  <2>1. /\ Len(e) \in Nat /\ DOMAIN e = 1..Len(e) /\ DOMAIN c = 1..Len(c) /\ Len(c) \in Nat
        /\ k \in 1..(Len(e) + Len(c))
    BY <1>4, <1>5
  <2>2. (e \o c)[k] = IF k <= Len(e) THEN e[k] ELSE c[k - Len(e)]
    BY <1>4, <1>5, <2>1
  <2>3. CASE k <= Len(e)
    <3>1. k \in DOMAIN e
      BY <2>1, <2>3
    <3> QED BY <1>5, <2>2, <2>3, <3>1
  <2>4. CASE ~(k <= Len(e))
    <3>1. k - Len(e) \in DOMAIN c
      BY <2>1, <2>4
    <3> QED BY <1>4, <2>2, <2>4, <3>1
  <2> QED BY <2>3, <2>4
<1>11. Until(text, m) \o <<>> = Until(text, m)
  <2> DEFINE h == Until(text, m)
  <2>1. h \in Seq(SentencePlaces)
    BY <1>6
  <2> HIDE DEF h
  <2>2. h \o <<>> = h
    BY <2>1
  <2> QED BY <2>2 DEF h
<1> HIDE DEF m
<1>12. Gathered(r, Until(text, m), s, N)
  BY <1>4, <1>8, <1>9, <1>10, <1>11 DEF Gathered
<1>13. Building(r, text, m, s)
  BY <1>4, <1>7, <1>9, <1>12 DEF Building, MayStop, N
<1> QED BY <1>13 DEF r, m

LEMMA BuildSmall ==
  ASSUME NEW text, NEW s, NEW blanks, Legal(text, s, blanks), NEW i \in 0..(Len(text) - 1),
         NEW b, Building(b, text, i, s), ~(Length(text[i + 1]) > s.size)
  PROVE  Building(AddParagraph(b, i + 1, text[i + 1], s, blanks), text, i + 1, s)
<1> DEFINE m == i + 1
           u == Paragraph(m, text[m])
           r == Add(b, u, 2, s, blanks[<<m, 0>>])
           N == Longest(text, s)
           l == Length(text[m])
<1>1. /\ text \in Books /\ Proportioned(s) /\ m \in 1..Len(text) /\ i \in 0..Len(text) /\ i # Len(text)
      /\ i \in Nat /\ m - 1 = i
  <2>1. text \in Books /\ Proportioned(s) /\ Len(text) \in Nat
    BY DEF Legal, Books
  <2> QED BY <2>1
<1>2. Gathered(b, Until(text, i), s, N)
  BY DEF Building
<1>3. AddParagraph(b, m, text[m], s, blanks) = r
  BY DEF AddParagraph
<1>4. /\ u \in [now : Seq(SentencePlaces), size : Nat \ {0}]
      /\ u.now = First(m, Len(text[m])) /\ u.size = l
  BY <1>1, ParagraphIs
<1>5. blanks[<<m, 0>>] \in 0..2 /\ blanks[<<m, 0>>] < s.overlap /\ l \in Nat \ {0}
  BY <1>1, LegalGives
<1>6. N \subseteq Int /\ s.size \in N
  BY <1>1, LongestIs
<1>7. \E n \in N : u.size <= n
  <2>1. s.size \in Nat /\ ~(l > s.size)
    BY <1>1 DEF Proportioned
  <2> HIDE DEF l
  <2>2. l <= s.size
    BY <1>5, <2>1
  <2> QED BY <1>4, <1>6, <2>2
<1> HIDE DEF u, N, l
<1>8. Gathered(r, Until(text, i) \o u.now, s, N) /\ Added(r, b, u, 2, s)
  <2> DEFINE n == blanks[<<m, 0>>]
  <2>1. n \in 0..2 /\ n < s.overlap /\ 2 \in 1..2
    BY <1>5
  <2> HIDE DEF n
  <2>2. /\ Gathered(Add(b, u, 2, s, n), Until(text, i) \o u.now, s, N)
        /\ Added(Add(b, u, 2, s, n), b, u, 2, s)
    BY <1>1, <1>2, <1>4, <1>6, <1>7, <2>1, AddKeeps
  <2> QED BY <2>2 DEF n
<1> HIDE DEF r
<1>9. Until(text, m) = Until(text, i) \o u.now
  BY <1>1, <1>4, UntilIs
<1>10. /\ Span(text, i, m) = l
       /\ \A k \in 0..i : Span(text, k, i) \in Int /\ Span(text, k, m) = Span(text, k, i) + 2 + l
  <2>1. i <= i
    BY <1>1
  <2>2. Span(text, i, m) = l
    BY <1>1, <2>1, SpanIs DEF l
  <2>3. ASSUME NEW k \in 0..i PROVE Span(text, k, i) \in Int /\ Span(text, k, m) = Span(text, k, i) + 2 + l
    <3>1. k \in 0..Len(text) /\ k <= i
      BY <1>1
    <3> QED BY <1>1, <3>1, SpanIs DEF l
  <2> QED BY <2>2, <2>3
<1>11. r.size # 0
  <2>1. r.size >= 1 /\ r.size \in Int
    BY <1>8 DEF Added, Gathered, Gatherings
  <2> QED BY <2>1
<1>12. ASSUME ~(r.size >= s.min) PROVE \E k \in 0..(m - 1) : ShortSince(r, text, m, s, k)
  <2>1. \/ r.chunks = b.chunks /\ b.size = 0 /\ r.size = l
        \/ r.chunks = b.chunks /\ b.size # 0 /\ ~(b.size >= s.min) /\ r.size = b.size + 2 + l
    <3>1. s.min \in Int /\ b.size \in Int
      BY <1>1, <1>2 DEF Proportioned, Gathered, Gatherings
    <3>2. b.size < s.min => ~(b.size >= s.min)
      BY <3>1
    <3> QED BY <1>4, <1>8, <1>12, <3>2 DEF Added
  <2>2. CASE r.chunks = b.chunks /\ b.size = 0 /\ r.size = l
    <3>1. MayStop(text, s, i) /\ Held(b.chunks) = Until(text, i)
      BY <2>2 DEF Building
    <3>2. ShortSince(r, text, m, s, i)
      BY <1>10, <2>2, <3>1 DEF ShortSince
    <3>3. i \in 0..(m - 1)
      BY <1>1
    <3> QED BY <3>2, <3>3
  <2>3. CASE r.chunks = b.chunks /\ b.size # 0 /\ ~(b.size >= s.min) /\ r.size = b.size + 2 + l
    <3>1. PICK k \in 0..(i - 1) : ShortSince(b, text, i, s, k)
      BY <2>3 DEF Building
    <3>2. k \in 0..i /\ k \in 0..(m - 1)
      BY <1>1
    <3>3. MayStop(text, s, k) /\ b.size = Span(text, k, i) /\ Held(b.chunks) = Until(text, k)
      BY <3>1 DEF ShortSince
    <3>4. r.size = Span(text, k, m)
      BY <1>10, <2>3, <3>2, <3>3
    <3>5. ShortSince(r, text, m, s, k)
      BY <2>3, <3>3, <3>4 DEF ShortSince
    <3> QED BY <3>2, <3>5
  <2> QED BY <2>1, <2>2, <2>3
<1> HIDE DEF m
<1>13. Building(r, text, m, s)
  BY <1>8, <1>9, <1>11, <1>12 DEF Building, N
<1> QED BY <1>3, <1>13 DEF m

\* A large text is held up to where it may stop.
LEMMA BuildKeeps ==
  ASSUME NEW text, NEW s, NEW blanks, Legal(text, s, blanks), NEW length, length > s.size,
         text # <<>>, NEW c, c = BuildChunks(text, s, blanks)
  PROVE  /\ \E i \in Stops(text, length, s) : Held(c) = Until(text, i)
         /\ \A k \in DOMAIN c : Bounded(c[k].size, s, Longest(text, s))
<1> DEFINE W == Len(text)
           b == CHOOSE f : IsBuilt(f, text, s, blanks)
           N == Longest(text, s)
<1>1. text \in Books /\ Proportioned(s) /\ W \in Nat /\ W # 0 /\ W \in 0..W
  <2>1. text \in Books /\ Proportioned(s) /\ text \in Seq(Seq(Nat \ {0}))
    BY DEF Legal, Books
  <2> QED BY <2>1
<1>2. IsBuilt(b, text, s, blanks)
  BY BuiltExists
<1>3. c = Close(b[W], s)
  BY DEF BuildChunks, IsBuilt
<1> HIDE DEF b
<1>4. b[0] = Nothing /\ \A i \in 0..(W - 1) : b[i + 1] = AddParagraph(b[i], i + 1, text[i + 1], s, blanks)
  <2>1. 0 \in 0..Len(text)
    BY <1>1
  <2>2. \A i \in 0..(W - 1) : i + 1 \in 0..W /\ i + 1 # 0 /\ (i + 1) - 1 = i
    BY <1>1
  <2> QED BY <1>2, <2>1, <2>2 DEF IsBuilt
<1> HIDE DEF N
<1> DEFINE P == {i \in 0..W : Building(b[i], text, i, s)}
<1>5. 0 \in P
  <2>1. Gathered(Nothing, <<>>, s, N)
    BY <1>1, NothingGathered, LongestIs DEF N
  <2>2. Until(text, 0) = <<>> /\ 0 \in 0..W
    <3>1. 0 \in 0..Len(text)
      BY <1>1
    <3> QED BY <1>1, <3>1, UntilIs
  <2>3. Nothing.size = 0 /\ Held(Nothing.chunks) = <<>>
    <3>1. [k \in DOMAIN <<>> |-> <<>>[k].holds] = <<>>
      OBVIOUS
    <3> QED BY <3>1, FlattenEmpty DEF Nothing, Held
  <2> HIDE DEF Nothing
  <2> QED BY <1>4, <2>1, <2>2, <2>3 DEF Building, MayStop, N
<1>6. ASSUME NEW i \in 0..(W - 1), i \in P PROVE i + 1 \in P
  <2>1. i + 1 \in 0..W /\ i \in 0..(Len(text) - 1)
    BY <1>1
  <2>2. Building(b[i], text, i, s)
    BY <1>6
  <2> HIDE DEF P, W
  <2>3. Building(AddParagraph(b[i], i + 1, text[i + 1], s, blanks), text, i + 1, s)
    <3>1. CASE Length(text[i + 1]) > s.size
      BY <2>1, <2>2, <3>1, BuildLarge
    <3>2. CASE ~(Length(text[i + 1]) > s.size)
      BY <2>1, <2>2, <3>2, BuildSmall
    <3> QED BY <3>1, <3>2
  <2> QED BY <1>4, <2>1, <2>3 DEF P
<1>7. Building(b[W], text, W, s)
  <2>1. 0..W \subseteq P
    <3> HIDE DEF P, W
    <3> QED BY <1>1, <1>5, <1>6, UpTo
  <2> HIDE DEF W
  <2> QED BY <1>1, <2>1
<1> DEFINE g == b[W]
<1>8. Gathered(g, Until(text, W), s, N) /\ Building(g, text, W, s)
  BY <1>7 DEF Building, N
<1>9. c = Close(g, s)
  BY <1>3
<1> HIDE DEF g
<1>10. /\ g \in Gatherings /\ g.size \in Int /\ g.size >= 0 /\ s.min \in Int /\ s.min >= 1
       /\ \A k \in DOMAIN g.chunks : Bounded(g.chunks[k].size, s, N)
  BY <1>1, <1>8 DEF Gathered, Gatherings, Proportioned
<1>11. W \in Stops(text, length, s)
  BY DEF Stops
<1>12. CASE g.size >= s.min
  <2>1. c = Emit(g)
    BY <1>9, <1>10, <1>12 DEF Close
  <2>2. /\ Held(Emit(g)) = Until(text, W)
        /\ \A k \in DOMAIN Emit(g) : Bounded(Emit(g)[k].size, s, N)
    BY <1>8, EmitKeeps
  <2> QED BY <1>11, <2>1, <2>2 DEF N
<1>13. CASE ~(g.size >= s.min)
  <2>1. c = g.chunks
    BY <1>9, <1>13 DEF Close
  <2>2. CASE g.size = 0
    <3>1. Held(g.chunks) = Until(text, W)
      BY <1>8, <2>2 DEF Building
    <3> QED BY <1>10, <1>11, <2>1, <3>1 DEF N
  <2>3. CASE g.size # 0
    <3>1. PICK k \in 0..(W - 1) : ShortSince(g, text, W, s, k)
      BY <1>8, <1>13, <2>3 DEF Building
    <3>2. MayStop(text, s, k) /\ g.size = Span(text, k, W) /\ Held(g.chunks) = Until(text, k)
      BY <3>1 DEF ShortSince
    <3>3. Span(text, k, W) < s.min
      BY <1>10, <1>13, <3>2
    <3>4. k \in Stops(text, length, s)
      <4>1. CASE k = 0
        BY <3>3, <4>1 DEF Stops, TextLength
      <4>2. CASE k # 0
        <5>1. k \in 1..Len(text) - 1
          BY <1>1, <4>2
        <5> QED BY <3>2, <3>3, <4>2, <5>1 DEF Stops, MayStop
      <4> QED BY <4>1, <4>2
    <3> QED BY <1>10, <2>1, <3>2, <3>4 DEF N
  <2> QED BY <2>2, <2>3
<1> QED BY <1>10, <1>12, <1>13

\* For texts of any length, however they are parted, under all settings that
\* relate like the defaults: chunk() of the indexer loses no sentence but those of
\* a short last part after a large paragraph, or of a text that is all blank lines
\* but for a few; it keeps their order and the bound of its chunks.
THEOREM TextIsKept ==
  ASSUME NEW text, NEW s, NEW blanks, Legal(text, s, blanks), NEW length \in Nat
  PROVE  KeepsText(text, length, s, blanks)
<1> DEFINE c == Chunk(text, length, s, blanks)
           N == Longest(text, s)
           W == Len(text)
<1>1. text \in Books /\ Proportioned(s) /\ W \in Nat /\ W \in 0..W /\ s.size \in Nat /\ s.overlap \in Nat
  <2>1. text \in Books /\ Proportioned(s) /\ text \in Seq(Seq(Nat \ {0}))
    BY DEF Legal, Books
  <2> QED BY <2>1 DEF Proportioned
<1>2. W \in Stops(text, length, s)
  BY DEF Stops
<1>3. s.size \in N
  BY <1>1, LongestIs
<1>4. /\ \E i \in Stops(text, length, s) : Held(c) = Until(text, i)
      /\ \A k \in DOMAIN c : Bounded(c[k].size, s, N)
  <2>1. CASE text = <<>>
    <3>1. c = <<>> /\ W = 0
      BY <2>1 DEF Chunk
    <3>2. Held(<<>>) = <<>>
      <4>1. [k \in DOMAIN <<>> |-> <<>>[k].holds] = <<>>
        OBVIOUS
      <4> QED BY <4>1, FlattenEmpty DEF Held
    <3>3. Until(text, 0) = <<>>
      BY <1>1, <3>1, UntilIs
    <3>4. DOMAIN <<>> = {}
      OBVIOUS
    <3> QED BY <1>2, <3>1, <3>2, <3>3, <3>4
  <2>2. CASE text # <<>> /\ length <= s.size
    <3> DEFINE x == [holds |-> Until(text, W), size |-> length]
    <3>1. c = <<x>>
      BY <2>2 DEF Chunk
    <3>2. Until(text, W) \in Seq(SentencePlaces)
      BY <1>1, UntilIs
    <3>3. x \in Chunks /\ x.holds = Until(text, W) /\ x.size = length
      BY <3>2 DEF Chunks
    <3>4. Bounded(length, s, N)
      BY <1>1, <1>3, <2>2 DEF Bounded
    <3> DEFINE h == Until(text, W)
    <3>5. h \in Seq(SentencePlaces)
      BY <3>2
    <3> HIDE DEF x, h
    <3>6. /\ Held(Append(<<>>, x)) = Held(<<>>) \o x.holds
      <4>1. <<>> \in Seq(Chunks)
        OBVIOUS
      <4> QED BY <3>3, <4>1, HeldIs
    <3>7. Append(<<>>, x) = <<x>> /\ DOMAIN <<x>> = {1} /\ <<x>>[1] = x
      OBVIOUS
    <3>8. Held(<<>>) = <<>>
      <4>1. [k \in DOMAIN <<>> |-> <<>>[k].holds] = <<>>
        OBVIOUS
      <4> QED BY <4>1, FlattenEmpty DEF Held
    <3>9. <<>> \o h = h
      BY <3>5
    <3> QED BY <1>2, <3>1, <3>3, <3>4, <3>6, <3>7, <3>8, <3>9 DEF h
  <2>3. CASE text # <<>> /\ ~(length <= s.size)
    <3>1. c = BuildChunks(text, s, blanks) /\ length > s.size
      BY <1>1, <2>3 DEF Chunk
    <3> QED BY <2>3, <3>1, BuildKeeps
  <2> QED BY <2>1, <2>2, <2>3
<1> QED BY <1>4 DEF KeepsText, Bounded

\* The words of a set in their order: no more, and at least one if there is one.
LEMMA InOrderIs ==
  ASSUME NEW n \in Nat, n = len, NEW W, W \subseteq 0..(n - 1)
  PROVE  /\ InOrder(W) \in Seq(W)
         /\ W # {} => Len(InOrder(W)) # 0
<1> DEFINE s == [i \in 1..n |-> i - 1]
           A == 0..(n - 1)
           t == Select(s, W)
<1>1. s \in Seq(A) /\ Len(s) = n /\ \A i \in 1..n : s[i] = i - 1
  OBVIOUS
<1>2. InOrder(W) = t
  BY DEF InOrder
<1> HIDE DEF s
<1>3. t \in Seq(A)
  <2> HIDE DEF A
  <2> QED BY <1>1, SelectType
<1>4. PICK pos : Places(pos, t, s, Len(s), W)
  <2> HIDE DEF A
  <2> QED BY <1>1, SelectPlaces
<1> HIDE DEF t
<1>5. Len(t) \in Nat /\ t = [i \in 1..Len(t) |-> t[i]]
  BY <1>3
<1>6. \A i \in 1..Len(t) : t[i] \in W
  BY <1>4 DEF Places
<1>7. t \in Seq(W)
  <2>1. [i \in 1..Len(t) |-> t[i]] \in Seq(W)
    BY <1>5, <1>6
  <2> QED BY <1>5, <2>1
<1>8. ASSUME W # {} PROVE Len(t) # 0
  <2>1. PICK w \in W : TRUE
    BY <1>8
  <2>2. w + 1 \in 1..n /\ (w + 1) - 1 = w
    BY <2>1
  <2>3. s[w + 1] \in W
    BY <1>1, <2>1, <2>2
  <2>4. \E i \in 1..Len(t) : pos[i] = w + 1
    BY <1>1, <1>4, <2>2, <2>3 DEF Places
  <2> QED BY <2>4
<1> QED BY <1>2, <1>7, <1>8

\* A word ends at the next space or with the text.
LEMMA SizeIs ==
  ASSUME len \in Nat, spaces \subseteq 0..(len - 1), NEW w \in 0..(len - 1)
  PROVE  Size(w) \in Nat \ {0}
<1> DEFINE T == {q \in spaces \cup {len} : q > w}
           m == CHOOSE x \in T : \A y \in T : x =< y
<1>1. T \subseteq Nat /\ len \in T
  <2>1. \A q \in 0..(len - 1) : q \in Nat
    OBVIOUS
  <2>2. len > w
    OBVIOUS
  <2> QED BY <2>1, <2>2
<1>2. \E x \in T : \A y \in T : x <= y
  <2> HIDE DEF T
  <2> QED BY <1>1, LeastNat
<1>3. m \in T
  <2> HIDE DEF T
  <2> QED BY <1>2
<1>4. Size(w) = m - w
  BY DEF Size, Min
<1>5. m \in Nat /\ m > w
  BY <1>1, <1>3
<1> HIDE DEF m
<1> QED BY <1>4, <1>5

\* What the run gives the indexer's chunker is a text.
LEMMA BookIs ==
  ASSUME len \in Nat, spaces \subseteq 0..(len - 1)
  PROVE  Book \in Books
<1> DEFINE n == len
           Of(head) == {w \in Words : w >= head /\ \A h \in Heads : h <= head \/ h > w}
<1>1. Words \subseteq 0..(n - 1) /\ Heads \subseteq Words /\ n \in Nat
  BY DEF Words, Heads
<1>2. ASSUME NEW head \in Heads PROVE SentencesFrom(head) \in Seq(Nat \ {0}) /\ SentencesFrom(head) # <<>>
  <2> DEFINE words == InOrder(Of(head))
  <2>1. Of(head) \subseteq 0..(n - 1)
    BY <1>1
  <2>2. head \in Of(head)
    <3>1. head \in Words /\ head >= head /\ head \in Int
      BY <1>1
    <3>2. \A h \in Heads : h <= head \/ h > head
      BY <1>1
    <3> QED BY <3>1, <3>2
  <2>3. SentencesFrom(head) = [i \in 1..Len(words) |-> Size(words[i])]
    BY DEF SentencesFrom
  <2> HIDE DEF Of
  <2>4. words \in Seq(Of(head)) /\ Len(words) # 0
    BY <1>1, <2>1, <2>2, InOrderIs
  <2> HIDE DEF words
  <2>5. Len(words) \in Nat /\ \A i \in 1..Len(words) : words[i] \in 0..(n - 1)
    BY <2>1, <2>4
  <2>6. \A i \in 1..Len(words) : Size(words[i]) \in Nat \ {0}
    BY <2>5, SizeIs
  <2>7. SentencesFrom(head) \in Seq(Nat \ {0}) /\ Len(SentencesFrom(head)) = Len(words)
    BY <2>3, <2>5, <2>6
  <2> QED BY <2>4, <2>7
<1> DEFINE heads == InOrder(Heads)
           S == Seq(Nat \ {0})
<1>3. heads \in Seq(Heads)
  <2>1. Heads \subseteq 0..(n - 1)
    BY <1>1
  <2> QED BY <1>1, <2>1, InOrderIs
<1>4. Book = [i \in 1..Len(heads) |-> SentencesFrom(heads[i])]
  BY DEF Book
<1> HIDE DEF heads
<1>5. Len(heads) \in Nat /\ \A i \in 1..Len(heads) : heads[i] \in Heads
  BY <1>3
<1>6. \A i \in 1..Len(heads) : SentencesFrom(heads[i]) \in S /\ SentencesFrom(heads[i]) # <<>>
  BY <1>2, <1>5
<1> HIDE DEF S
<1>7. Book \in Seq(S) /\ DOMAIN Book = 1..Len(heads) /\ \A i \in 1..Len(heads) : Book[i] = SentencesFrom(heads[i])
  BY <1>4, <1>5, <1>6
<1> QED BY <1>6, <1>7 DEF S, Books

\* Overlaps that lose at most one blank before a sentence and two before a
\* paragraph are as they should be.
LEMMA LostIs ==
  ASSUME NEW text \in Books, NEW s, NEW one \in 0..1, NEW two \in 0..2, one < s.overlap, two < s.overlap
  PROVE  FewBlanks(text, s, Lost(one, two))
<1>1. ASSUME NEW i \in 1..Len(text), NEW j \in 0..Len(text[i])
      PROVE  Lost(one, two)[<<i, j>>] \in {n \in 0..IF j = 0 THEN 2 ELSE 1 : n < s.overlap}
  <2>1. text[i] \in Seq(Nat \ {0})
    BY DEF Books
  <2>2. Len(text[i]) \in Nat
    BY <2>1
  <2> DEFINE p == <<i, j>>
  <2>3. p \in Nat \X Nat /\ p[2] = j
    BY <2>2
  <2>4. Lost(one, two)[p] = IF p[2] = 0 THEN two ELSE one
    <3> HIDE DEF p
    <3> QED BY <2>3 DEF Lost
  <2>5. CASE j = 0
    BY <2>3, <2>4, <2>5
  <2>6. CASE j # 0
    BY <2>3, <2>4, <2>6
  <2> QED BY <2>5, <2>6
<1> QED BY <1>1 DEF FewBlanks

\* The text and the settings of a call stay as they were given.
Given == len \in Nat /\ spaces \subseteq 0..(len - 1) /\ config \in [size : Nat, overlap : Nat]

\* The indexer's chunker keeps every text of the run, of any length: what the
\* theorem above says, of the words and spaces of a text.
THEOREM IndexerKeepsText == ChunkerSpec => []IndexKeepsText
<1>1. ChunkerInit => Given
  <2> SUFFICES ASSUME ChunkerInit PROVE Given
    OBVIOUS
  <2>1. len \in Nat /\ config \in [size : Nat, overlap : Nat]
    BY ChunkerAssumption DEF ChunkerInit
  <2>2. spaces \subseteq 0..(len - 1)
    BY <2>1 DEF ChunkerInit
  <2> QED BY <2>1, <2>2 DEF Given
<1>2. Given /\ [ChunkerNext]_chunkerVars => Given'
  BY DEF Given, ChunkerNext, Step, chunkerVars
<1>3. Given => IndexKeepsText
  <2> SUFFICES ASSUME Given, NEW min \in 1..config.overlap, NEW one \in 0..1, NEW two \in 0..2,
                      NEW s, s = [size |-> config.size, overlap |-> config.overlap, min |-> min],
                      Proportioned(s), one < s.overlap, two < s.overlap
               PROVE  KeepsText(Book, len, s, Lost(one, two))
    BY DEF IndexKeepsText
  <2>1. len \in Nat /\ Book \in Books
    BY BookIs DEF Given
  <2>2. FewBlanks(Book, s, Lost(one, two))
    BY <2>1, LostIs
  <2>3. Legal(Book, s, Lost(one, two))
    BY <2>1, <2>2 DEF Legal
  <2> QED BY <2>1, <2>3, TextIsKept
<1> QED BY <1>1, <1>2, <1>3, PTL DEF ChunkerSpec
=============================================================================
