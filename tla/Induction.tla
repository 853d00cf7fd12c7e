----------------------------- MODULE Induction ------------------------------
(***************************************************************************)
(* Induction over the natural numbers for the provers, which take a set but *)
(* no predicate as a parameter, and what it gives for recursive functions:  *)
(* sums, and selections from sequences.                                     *)
(***************************************************************************)
EXTENDS Integers, Sequences, Selection, WellFoundedInduction, TLAPS

\* A set of natural numbers that is not empty has a least element.
LEMMA LeastNat ==
  ASSUME NEW T, T \subseteq Nat, T # {}
  PROVE  \E n \in T : \A m \in T : n <= m
<1> DEFINE R == {ss \in Nat \X Nat : ss[1] < ss[2]}
<1>1. R = OpToRel(<, Nat)
  BY DEF OpToRel
<1>2. IsWellFoundedOn(R, Nat)
  BY <1>1, NatLessThanWellFounded, Zenon
<1> HIDE DEF R
<1>3. PICK n \in T : \A m \in T : ~ (<<m, n>> \in R)
  BY <1>2, WFMin
<1>4. ASSUME NEW m \in T PROVE n <= m
  <2>1. m \in Nat /\ n \in Nat /\ ~(<<m, n>> \in R)
    BY <1>3
  <2>2. m < n => <<m, n>> \in R
    BY <2>1 DEF R
  <2> QED BY <2>1, <2>2
<1> QED BY <1>4

\* A set that has 0 and with a number also the next has them all.
LEMMA NatStep ==
  ASSUME NEW P, 0 \in P, \A n \in Nat : n \in P => n + 1 \in P
  PROVE  Nat \subseteq P
<1>1. SUFFICES ASSUME Nat \ P # {} PROVE FALSE
  OBVIOUS
<1>2. PICK n \in Nat \ P : \A m \in Nat \ P : n <= m
  BY <1>1, LeastNat
<1>3. n # 0 /\ n - 1 \in Nat
  BY <1>2
<1>4. n - 1 \notin P
  BY <1>2, <1>3
<1>5. n <= n - 1
  BY <1>2, <1>3, <1>4
<1> QED BY <1>3, <1>5

\* The same up to a bound.
LEMMA UpTo ==
  ASSUME NEW W \in Nat, NEW P, 0 \in P, \A n \in 0..(W - 1) : n \in P => n + 1 \in P
  PROVE  0..W \subseteq P
<1> DEFINE Q == {n \in Nat : n <= W => n \in P}
<1>1. 0 \in Q
  OBVIOUS
<1>2. ASSUME NEW n \in Nat, n \in Q PROVE n + 1 \in Q
  <2>1. n + 1 <= W => n \in 0..(W - 1) /\ n \in P
    BY <1>2
  <2> QED BY <2>1
<1>3. Nat \subseteq Q
  <2> HIDE DEF Q
  <2> QED BY <1>1, <1>2, NatStep
<1> QED BY <1>3

-----------------------------------------------------------------------------
\* sum[n] is the sum of the first n values of f, up to W of them.
IsSums(sum, f, W) == sum = [n \in 0..W |-> IF n = 0 THEN 0 ELSE sum[n - 1] + f[n - 1]]

\* The recursive definition of the sums has a solution.
LEMMA SumsExist ==
  ASSUME NEW W \in Nat, NEW f, \A a \in 0..(W - 1) : f[a] \in Nat
  PROVE  \E sum : IsSums(sum, f, W)
<1> DEFINE Sums(g, m) == \A n \in 0..m : g[n] = IF n = 0 THEN 0 ELSE g[n - 1] + f[n - 1]
           P == {m \in 0..W : \E g \in [0..m -> Nat] : Sums(g, m)}
<1>1. 0 \in P
  <2> DEFINE z == [n \in 0..0 |-> 0]
  <2>1. z \in [0..0 -> Nat] /\ Sums(z, 0)
    OBVIOUS
  <2> HIDE DEF z
  <2>2. 0 \in 0..W
    OBVIOUS
  <2> QED BY <2>1, <2>2
<1>2. ASSUME NEW m \in 0..(W - 1), m \in P PROVE m + 1 \in P
  <2>1. PICK g \in [0..m -> Nat] : Sums(g, m)
    BY <1>2
  <2> DEFINE h == [n \in 0..(m + 1) |-> IF n = m + 1 THEN g[m] + f[m] ELSE g[n]]
  <2>2. g[m] \in Nat /\ f[m] \in Nat
    OBVIOUS
  <2>3. h \in [0..(m + 1) -> Nat]
    BY <2>2
  <2>4. Sums(h, m + 1)
    <3>1. ASSUME NEW n \in 0..(m + 1)
          PROVE  h[n] = IF n = 0 THEN 0 ELSE h[n - 1] + f[n - 1]
      <4>1. CASE n = m + 1
        BY <4>1
      <4>2. CASE n # m + 1
        <5>1. n \in 0..m /\ n # m + 1 /\ (n # 0 => n - 1 \in 0..m /\ n - 1 # m + 1)
          BY <4>2
        <5> QED BY <2>1, <5>1
      <4> QED BY <4>1, <4>2
    <3> QED BY <3>1
  <2>5. m + 1 \in 0..W
    OBVIOUS
  <2> QED BY <2>3, <2>4, <2>5
<1>3. W \in P
  <2> HIDE DEF P
  <2>1. 0..W \subseteq P
    BY <1>1, <1>2, UpTo
  <2> QED BY <2>1
<1>4. PICK g \in [0..W -> Nat] : Sums(g, W)
  BY <1>3
<1>5. g = [n \in 0..W |-> IF n = 0 THEN 0 ELSE g[n - 1] + f[n - 1]]
  BY <1>4
<1> QED BY <1>5 DEF IsSums

LEMMA SumsStep ==
  ASSUME NEW W \in Nat, NEW f, NEW sum, IsSums(sum, f, W)
  PROVE  sum[0] = 0 /\ \A n \in 0..(W - 1) : sum[n + 1] = sum[n] + f[n]
<1>1. sum[0] = 0
  BY DEF IsSums
<1>2. ASSUME NEW n \in 0..(W - 1) PROVE sum[n + 1] = sum[n] + f[n]
  <2>1. n + 1 \in 0..W /\ n + 1 # 0 /\ (n + 1) - 1 = n
    OBVIOUS
  <2> QED BY <2>1 DEF IsSums
<1> QED BY <1>1, <1>2

LEMMA SumsType ==
  ASSUME NEW W \in Nat, NEW f, \A a \in 0..(W - 1) : f[a] \in Nat, NEW sum, IsSums(sum, f, W)
  PROVE  \A n \in 0..W : sum[n] \in Nat
<1> DEFINE P == {n \in 0..W : sum[n] \in Nat}
<1>1. 0 \in P
  BY SumsStep
<1>2. ASSUME NEW n \in 0..(W - 1), n \in P PROVE n + 1 \in P
  <2>1. n + 1 \in 0..W /\ sum[n + 1] = sum[n] + f[n] /\ f[n] \in Nat /\ sum[n] \in Nat
    BY <1>2, SumsStep
  <2> QED BY <2>1
<1>3. 0..W \subseteq P
  <2> HIDE DEF P
  <2> QED BY <1>1, <1>2, UpTo
<1> QED BY <1>3

LEMMA SumsGrow ==
  ASSUME NEW W \in Nat, NEW f, \A a \in 0..(W - 1) : f[a] \in Nat, NEW sum, IsSums(sum, f, W),
         NEW m \in 0..W, NEW n \in 0..W, m <= n
  PROVE  sum[m] <= sum[n]
<1> DEFINE P == {k \in 0..W : m <= k => sum[m] <= sum[k]}
<1>1. 0 \in P
  BY SumsType
<1>2. ASSUME NEW k \in 0..(W - 1), k \in P PROVE k + 1 \in P
  <2>1. k + 1 \in 0..W /\ sum[k + 1] = sum[k] + f[k] /\ f[k] \in Nat
    BY SumsStep
  <2>2. sum[k] \in Nat /\ sum[k + 1] \in Nat /\ sum[m] \in Nat
    BY <2>1, SumsType
  <2>3. m <= k => sum[m] <= sum[k]
    BY <1>2
  <2>4. m <= k + 1 => m <= k \/ m = k + 1
    OBVIOUS
  <2> QED BY <2>1, <2>2, <2>3, <2>4
<1>3. 0..W \subseteq P
  <2> HIDE DEF P
  <2> QED BY <1>1, <1>2, UpTo
<1> QED BY <1>3

\* Values that are zero add nothing.
LEMMA SumsRest ==
  ASSUME NEW W \in Nat, NEW f, \A a \in 0..(W - 1) : f[a] \in Nat, NEW sum, IsSums(sum, f, W),
         NEW m \in 0..W, NEW n \in 0..W, m <= n, \A a \in 0..(W - 1) : m <= a /\ a < n => f[a] = 0
  PROVE  sum[n] = sum[m]
<1> DEFINE P == {k \in 0..W : m <= k /\ k <= n => sum[k] = sum[m]}
<1>1. 0 \in P
  OBVIOUS
<1>2. ASSUME NEW k \in 0..(W - 1), k \in P PROVE k + 1 \in P
  <2>1. k + 1 \in 0..W /\ sum[k + 1] = sum[k] + f[k]
    BY SumsStep
  <2>2. sum[k] \in Nat
    BY SumsType
  <2>3. m <= k /\ k + 1 <= n => sum[k] = sum[m] /\ f[k] = 0
    BY <1>2
  <2>4. m <= k + 1 => m <= k \/ m = k + 1
    OBVIOUS
  <2> QED BY <2>1, <2>2, <2>3, <2>4
<1>3. 0..W \subseteq P
  <2> HIDE DEF P
  <2> QED BY <1>1, <1>2, UpTo
<1> QED BY <1>3

\* One more at the first place is one more in every sum that has it.
LEMMA SumsFirst ==
  ASSUME NEW W \in Nat, NEW f, \A a \in 0..(W - 1) : f[a] \in Nat, NEW sum, IsSums(sum, f, W),
         NEW h, NEW k \in Nat, \A a \in 0..(W - 1) : h[a] = IF a = 0 THEN f[a] + k ELSE f[a],
         NEW new, IsSums(new, h, W)
  PROVE  \A n \in 1..W : new[n] = sum[n] + k
<1> DEFINE P == {n \in 0..W : n # 0 => new[n] = sum[n] + k}
<1>1. 0 \in P
  OBVIOUS
<1>2. ASSUME NEW n \in 0..(W - 1), n \in P PROVE n + 1 \in P
  <2>1. n + 1 \in 0..W /\ sum[n + 1] = sum[n] + f[n] /\ new[n + 1] = new[n] + h[n] /\ f[n] \in Nat
    BY SumsStep
  <2>2. sum[n] \in Nat
    BY SumsType
  <2>3. CASE n = 0
    <3>1. sum[0] = 0 /\ new[0] = 0 /\ h[0] = f[0] + k
      BY <2>3, SumsStep
    <3> QED BY <2>1, <2>3, <3>1
  <2>4. CASE n # 0
    <3>1. new[n] = sum[n] + k /\ h[n] = f[n]
      BY <1>2, <2>4
    <3> QED BY <2>1, <2>2, <3>1
  <2> QED BY <2>3, <2>4
<1>3. 0..W \subseteq P
  <2> HIDE DEF P
  <2> QED BY <1>1, <1>2, UpTo
<1> QED BY <1>3

\* All values moved by one place.
LEMMA SumsShift ==
  ASSUME NEW W \in Nat, NEW f, \A a \in 0..(W - 1) : f[a] \in Nat, NEW sum, IsSums(sum, f, W),
         NEW h, \A a \in 0..(W - 1) : h[a] = IF a = 0 THEN 0 ELSE f[a - 1],
         NEW new, IsSums(new, h, W)
  PROVE  \A n \in 1..W : new[n] = sum[n - 1]
<1> DEFINE P == {n \in 0..W : n # 0 => new[n] = sum[n - 1]}
<1>1. 0 \in P
  OBVIOUS
<1>2. ASSUME NEW n \in 0..(W - 1), n \in P PROVE n + 1 \in P
  <2>1. n + 1 \in 0..W /\ (n + 1) - 1 = n /\ new[n + 1] = new[n] + h[n]
    BY SumsStep
  <2>2. sum[n] \in Nat
    BY SumsType
  <2>3. CASE n = 0
    <3>1. sum[0] = 0 /\ new[0] = 0 /\ h[0] = 0
      BY <2>3, SumsStep
    <3> QED BY <2>1, <2>3, <3>1
  <2>4. CASE n # 0
    <3>1. new[n] = sum[n - 1] /\ h[n] = f[n - 1]
      BY <1>2, <2>4
    <3>2. n - 1 \in 0..(W - 1) /\ (n - 1) + 1 = n
      BY <2>4
    <3>3. sum[n] = sum[n - 1] + f[n - 1]
      BY <3>2, SumsStep
    <3> QED BY <2>1, <3>1, <3>3
  <2> QED BY <2>3, <2>4
<1>3. 0..W \subseteq P
  <2> HIDE DEF P
  <2> QED BY <1>1, <1>2, UpTo
<1> QED BY <1>3

-----------------------------------------------------------------------------
Follows(f, W, b, next) == f = [n \in 0..W |-> IF n = 0 THEN b ELSE next[<<n, f[n - 1]>>]]

\* A function can be defined by its first value and by how each value follows
\* from the one before.
LEMMA Recursion ==
  ASSUME NEW W \in Nat, NEW D, NEW b \in D, NEW next \in [(1..W) \X D -> D]
  PROVE  \E f \in [0..W -> D] : Follows(f, W, b, next)
<1> DEFINE Partial(g, m) == \A n \in 0..m : g[n] = IF n = 0 THEN b ELSE next[<<n, g[n - 1]>>]
           P == {m \in 0..W : \E g \in [0..m -> D] : Partial(g, m)}
<1>1. 0 \in P
  <2> DEFINE z == [n \in 0..0 |-> b]
  <2>1. z \in [0..0 -> D] /\ Partial(z, 0)
    OBVIOUS
  <2> HIDE DEF z
  <2>2. 0 \in 0..W
    OBVIOUS
  <2> QED BY <2>1, <2>2
<1>2. ASSUME NEW m \in 0..(W - 1), m \in P PROVE m + 1 \in P
  <2>1. PICK g \in [0..m -> D] : Partial(g, m)
    BY <1>2
  <2> DEFINE v == next[<<m + 1, g[m]>>]
             h == [n \in 0..(m + 1) |-> IF n = m + 1 THEN v ELSE g[n]]
  <2>2. m \in 0..m /\ m + 1 \in 1..W /\ m + 1 \in 0..W
    OBVIOUS
  <2>3. v \in D
    BY <2>2
  <2>4. h \in [0..(m + 1) -> D]
    <3> HIDE DEF v
    <3> QED BY <2>3
  <2>5. ASSUME NEW n \in 0..(m + 1)
        PROVE  h[n] = IF n = 0 THEN b ELSE next[<<n, h[n - 1]>>]
    <3>1. CASE n = m + 1
      <4>1. n # 0 /\ n - 1 = m /\ m \in 0..(m + 1) /\ m # m + 1
        BY <3>1
      <4> QED BY <3>1, <4>1
    <3>2. CASE n # m + 1
      <4>1. n \in 0..m /\ (n # 0 => n - 1 \in 0..m /\ n - 1 # m + 1 /\ n - 1 \in 0..(m + 1))
        BY <3>2
      <4> QED BY <2>1, <3>2, <4>1
    <3> QED BY <3>1, <3>2
  <2> QED BY <2>2, <2>4, <2>5
<1>3. W \in P
  <2> HIDE DEF P
  <2>1. 0..W \subseteq P
    BY <1>1, <1>2, UpTo
  <2> QED BY <2>1
<1>4. PICK g \in [0..W -> D] : Partial(g, W)
  BY <1>3
<1>5. g = [n \in 0..W |-> IF n = 0 THEN b ELSE next[<<n, g[n - 1]>>]]
  BY <1>4
<1> QED BY <1>5 DEF Follows

-----------------------------------------------------------------------------
\* kept[n] is what is selected from the first n elements of s.
IsSelection(kept, s, S) ==
  kept = [n \in 0..Len(s) |-> IF n = 0 THEN <<>>
                              ELSE IF s[n] \in S THEN Append(kept[n - 1], s[n])
                              ELSE kept[n - 1]]

LEMMA SelectionExists ==
  ASSUME NEW A, NEW s \in Seq(A), NEW S
  PROVE  \E kept \in [0..Len(s) -> Seq(A)] : IsSelection(kept, s, S)
<1> DEFINE W == Len(s)
           D == Seq(A)
           next == [p \in (1..W) \X D |-> IF s[p[1]] \in S THEN Append(p[2], s[p[1]]) ELSE p[2]]
<1>1. W \in Nat /\ <<>> \in D
  OBVIOUS
<1>2. next \in [(1..W) \X D -> D]
  <2>1. ASSUME NEW p \in (1..W) \X D
        PROVE  (IF s[p[1]] \in S THEN Append(p[2], s[p[1]]) ELSE p[2]) \in D
    <3>1. p[1] \in 1..W /\ p[2] \in D /\ s[p[1]] \in A
      OBVIOUS
    <3> QED BY <3>1
  <2> QED BY <2>1
<1>3. \A n \in 1..W, d \in D : next[<<n, d>>] = IF s[n] \in S THEN Append(d, s[n]) ELSE d
  OBVIOUS
<1>4. \E f \in [0..W -> D] : f = [n \in 0..W |-> IF n = 0 THEN <<>> ELSE next[<<n, f[n - 1]>>]]
  <2> DEFINE b == <<>>
  <2>1. b \in D
    OBVIOUS
  <2> HIDE DEF W, D, next, b
  <2>2. \E f \in [0..W -> D] : Follows(f, W, b, next)
    BY <1>1, <1>2, <2>1, Recursion
  <2> QED BY <2>2 DEF b, Follows
<1>5. PICK f \in [0..W -> D] : f = [n \in 0..W |-> IF n = 0 THEN <<>> ELSE next[<<n, f[n - 1]>>]]
  BY <1>4
<1>6. ASSUME NEW n \in 0..W
      PROVE  f[n] = IF n = 0 THEN <<>> ELSE IF s[n] \in S THEN Append(f[n - 1], s[n]) ELSE f[n - 1]
  <2>1. f[n] = IF n = 0 THEN <<>> ELSE next[<<n, f[n - 1]>>]
    <3> HIDE DEF W, D, next
    <3> QED BY <1>5
  <2>2. n # 0 => n \in 1..W /\ f[n - 1] \in D
    <3> HIDE DEF D, next
    <3> QED BY <1>1
  <2> HIDE DEF W, D, next
  <2> QED BY <1>3, <2>1, <2>2
<1>7. IsSelection(f, s, S)
  <2> HIDE DEF D, next
  <2> QED BY <1>6 DEF IsSelection
<1> QED BY <1>7

LEMMA SelectIs ==
  ASSUME NEW A, NEW s \in Seq(A), NEW S
  PROVE  \E kept \in [0..Len(s) -> Seq(A)] : IsSelection(kept, s, S) /\ Select(s, S) = kept[Len(s)]
<1> DEFINE k == CHOOSE kept : IsSelection(kept, s, S)
<1>1. IsSelection(k, s, S)
  BY SelectionExists
<1>2. Select(s, S) = k[Len(s)]
  BY DEF Select, IsSelection
<1> HIDE DEF k
<1>3. ASSUME NEW kept \in [0..Len(s) -> Seq(A)], IsSelection(kept, s, S) PROVE \A n \in 0..Len(s) : k[n] = kept[n]
  <2> DEFINE P == {n \in 0..Len(s) : k[n] = kept[n]}
  <2>1. 0 \in P
    BY <1>1, <1>3 DEF IsSelection
  <2>2. ASSUME NEW n \in 0..(Len(s) - 1), n \in P PROVE n + 1 \in P
    <3>1. n + 1 \in 0..Len(s) /\ n + 1 # 0 /\ (n + 1) - 1 = n
      OBVIOUS
    <3>2. k[n + 1] = IF s[n + 1] \in S THEN Append(k[n], s[n + 1]) ELSE k[n]
      BY <1>1, <3>1 DEF IsSelection
    <3>3. kept[n + 1] = IF s[n + 1] \in S THEN Append(kept[n], s[n + 1]) ELSE kept[n]
      BY <1>3, <3>1 DEF IsSelection
    <3> QED BY <2>2, <3>1, <3>2, <3>3
  <2>3. 0..Len(s) \subseteq P
    <3> HIDE DEF P
    <3>1. Len(s) \in Nat
      OBVIOUS
    <3> QED BY <2>1, <2>2, <3>1, UpTo
  <2> QED BY <2>3
<1>4. PICK kept \in [0..Len(s) -> Seq(A)] : IsSelection(kept, s, S)
  BY SelectionExists
<1>5. Len(s) \in 0..Len(s)
  OBVIOUS
<1> QED BY <1>2, <1>3, <1>4, <1>5

LEMMA SelectType ==
  ASSUME NEW A, NEW s \in Seq(A), NEW S
  PROVE  Select(s, S) \in Seq(A)
<1>1. Len(s) \in 0..Len(s)
  OBVIOUS
<1> QED BY <1>1, SelectIs

LEMMA SelectEmpty ==
  ASSUME NEW S
  PROVE  Select(<<>>, S) = <<>>
<1> DEFINE s == <<>>
<1>1. s \in Seq({}) /\ Len(s) = 0
  OBVIOUS
<1> HIDE DEF s
<1>2. PICK kept \in [0..Len(s) -> Seq({})] : IsSelection(kept, s, S) /\ Select(s, S) = kept[Len(s)]
  BY <1>1, SelectIs
<1>3. Select(s, S) = <<>>
  BY <1>1, <1>2 DEF IsSelection
<1> QED BY <1>3 DEF s

\* One more element comes last in the selection, if it is selected.
LEMMA SelectAppend ==
  ASSUME NEW A, NEW s \in Seq(A), NEW x \in A, NEW S
  PROVE  Select(Append(s, x), S) = IF x \in S THEN Append(Select(s, S), x) ELSE Select(s, S)
<1> DEFINE t == Append(s, x)
           W == Len(s)
<1>1. /\ t \in Seq(A) /\ W \in Nat /\ Len(t) = W + 1 /\ t[W + 1] = x
      /\ \A n \in 1..W : t[n] = s[n]
  OBVIOUS
<1> HIDE DEF t
<1>2. PICK f \in [0..W -> Seq(A)] : IsSelection(f, s, S) /\ Select(s, S) = f[W]
  BY SelectIs
<1>3. PICK g \in [0..Len(t) -> Seq(A)] : IsSelection(g, t, S) /\ Select(t, S) = g[Len(t)]
  BY <1>1, SelectIs
<1> DEFINE P == {n \in 0..W : g[n] = f[n]}
<1>4. 0 \in P
  <2>1. 0 \in 0..W /\ 0 \in 0..Len(t)
    BY <1>1
  <2> QED BY <1>2, <1>3, <2>1 DEF IsSelection
<1>5. ASSUME NEW n \in 0..(W - 1), n \in P PROVE n + 1 \in P
  <2>1. n + 1 \in 0..W /\ n + 1 \in 0..Len(t) /\ n + 1 \in 1..W /\ n + 1 # 0 /\ (n + 1) - 1 = n
    BY <1>1
  <2>2. f[n + 1] = IF s[n + 1] \in S THEN Append(f[n], s[n + 1]) ELSE f[n]
    BY <1>2, <2>1 DEF IsSelection
  <2>3. g[n + 1] = IF t[n + 1] \in S THEN Append(g[n], t[n + 1]) ELSE g[n]
    BY <1>3, <2>1 DEF IsSelection
  <2>4. t[n + 1] = s[n + 1]
    BY <1>1, <2>1
  <2> QED BY <1>5, <2>1, <2>2, <2>3, <2>4
<1>6. g[W] = f[W]
  <2> HIDE DEF P
  <2>1. 0..W \subseteq P
    BY <1>1, <1>4, <1>5, UpTo
  <2>2. W \in 0..W
    BY <1>1
  <2> QED BY <2>1, <2>2 DEF P
<1>7. g[W + 1] = IF x \in S THEN Append(g[W], x) ELSE g[W]
  <2>1. W + 1 \in 0..Len(t) /\ W + 1 # 0 /\ (W + 1) - 1 = W
    BY <1>1
  <2> QED BY <1>1, <1>3, <2>1 DEF IsSelection
<1> QED BY <1>1, <1>2, <1>3, <1>6, <1>7 DEF t

\* pos[i] is the place in s of the i-th element of its selection t.
Places(pos, t, s, m, S) ==
  /\ pos \in [1..Len(t) -> 1..m]
  /\ \A i \in 1..Len(t) : t[i] = s[pos[i]] /\ t[i] \in S
  /\ \A i, j \in 1..Len(t) : i < j => pos[i] < pos[j]
  /\ \A k \in 1..m : s[k] \in S => \E i \in 1..Len(t) : pos[i] = k

\* The selection has just the elements of s in S, in their order.
LEMMA SelectPlaces ==
  ASSUME NEW A, NEW s \in Seq(A), NEW S
  PROVE  \E pos : Places(pos, Select(s, S), s, Len(s), S)
<1>1. PICK f \in [0..Len(s) -> Seq(A)] : IsSelection(f, s, S) /\ Select(s, S) = f[Len(s)]
  BY SelectIs
<1> DEFINE P == {n \in 0..Len(s) : \E pos : Places(pos, f[n], s, n, S)}
<1>2. 0 \in P
  <2> DEFINE z == [i \in 1..0 |-> i]
  <2>1. f[0] = <<>>
    BY <1>1 DEF IsSelection
  <2>2. Places(z, <<>>, s, 0, S)
    BY DEF Places
  <2>3. 0 \in 0..Len(s)
    OBVIOUS
  <2> HIDE DEF z
  <2> QED BY <2>1, <2>2, <2>3
<1>3. ASSUME NEW n \in 0..(Len(s) - 1), n \in P PROVE n + 1 \in P
  <2>1. n + 1 \in 0..Len(s) /\ n + 1 # 0 /\ (n + 1) - 1 = n /\ n \in Nat /\ n \in 0..Len(s)
    OBVIOUS
  <2>2. PICK pos : Places(pos, f[n], s, n, S)
    BY <1>3
  <2>3. f[n + 1] = IF s[n + 1] \in S THEN Append(f[n], s[n + 1]) ELSE f[n]
    BY <1>1, <2>1 DEF IsSelection
  <2>4. CASE s[n + 1] \notin S
    <3>1. f[n + 1] = f[n]
      BY <2>3, <2>4
    <3>2. Places(pos, f[n], s, n + 1, S)
      <4>1. \A k \in 1..(n + 1) : k \in 1..n \/ k = n + 1
        OBVIOUS
      <4>2. pos \in [1..Len(f[n]) -> 1..(n + 1)]
        BY <2>2 DEF Places
      <4> QED BY <2>2, <2>4, <4>1, <4>2 DEF Places
    <3> QED BY <2>1, <3>1, <3>2
  <2>5. CASE s[n + 1] \in S
    <3> DEFINE L == Len(f[n])
               q == [i \in 1..(L + 1) |-> IF i = L + 1 THEN n + 1 ELSE pos[i]]
               t == f[n + 1]
    <3>1. f[n] \in Seq(A) /\ L \in Nat /\ s[n + 1] \in A
      BY <2>1
    <3>2. /\ Len(t) = L + 1 /\ t[L + 1] = s[n + 1]
          /\ \A i \in 1..L : t[i] = f[n][i]
      BY <2>3, <2>5, <3>1
    <3> HIDE DEF L, t
    <3>3. pos \in [1..L -> 1..n]
      BY <2>2 DEF Places, L
    <3>4. q \in [1..Len(t) -> 1..(n + 1)]
      BY <3>1, <3>2, <3>3
    <3>5. /\ q[L + 1] = n + 1 /\ L + 1 \in 1..Len(t)
          /\ \A i \in 1..L : q[i] = pos[i] /\ q[i] \in 1..n /\ i \in 1..Len(t)
          /\ \A i \in 1..Len(t) : i \in 1..L \/ i = L + 1
      BY <3>1, <3>2, <3>3
    <3> HIDE DEF q
    <3>6. \A i \in 1..Len(t) : t[i] = s[q[i]] /\ t[i] \in S
      BY <2>2, <2>5, <3>2, <3>5 DEF Places, L
    <3>7. ASSUME NEW i \in 1..Len(t), NEW j \in 1..Len(t), i < j PROVE q[i] < q[j]
      <4>1. i \in 1..L
        BY <3>1, <3>2, <3>7
      <4>2. CASE j \in 1..L
        BY <2>2, <3>5, <3>7, <4>1, <4>2 DEF Places, L
      <4>3. CASE j = L + 1
        BY <3>5, <4>1, <4>3
      <4> QED BY <3>5, <4>2, <4>3
    <3>8. ASSUME NEW k \in 1..(n + 1), s[k] \in S PROVE \E i \in 1..Len(t) : q[i] = k
      <4>1. CASE k = n + 1
        BY <3>5, <4>1
      <4>2. CASE k # n + 1
        <5>1. k \in 1..n
          BY <4>2
        <5>2. PICK i \in 1..L : pos[i] = k
          BY <2>2, <3>8, <5>1 DEF Places, L
        <5> QED BY <3>5, <5>2
      <4> QED BY <4>1, <4>2
    <3>9. Places(q, t, s, n + 1, S)
      BY <3>4, <3>6, <3>7, <3>8 DEF Places
    <3> QED BY <2>1, <3>9 DEF t
  <2> QED BY <2>4, <2>5
<1>4. Len(s) \in P
  <2> HIDE DEF P
  <2>1. Len(s) \in Nat /\ Len(s) \in 0..Len(s)
    OBVIOUS
  <2> QED BY <1>2, <1>3, <2>1, UpTo
<1> QED BY <1>1, <1>4

-----------------------------------------------------------------------------
\* The elements a + 1 to t of a sequence.
LEMMA SubSeqIs ==
  ASSUME NEW A, NEW l \in Seq(A), NEW a \in Nat, NEW t \in Nat, t <= Len(l)
  PROVE  /\ SubSeq(l, a + 1, t) \in Seq(A)
         /\ Len(SubSeq(l, a + 1, t)) = IF a < t THEN t - a ELSE 0
         /\ \A i \in 1..(t - a) : SubSeq(l, a + 1, t)[i] = l[a + i]
<1>1. \A i \in (a + 1)..t : i \in 1..Len(l)
  OBVIOUS
<1>2. SubSeq(l, a + 1, t) \in Seq(A)
  BY <1>1
<1>3. Len(SubSeq(l, a + 1, t)) = IF a < t THEN t - a ELSE 0
  OBVIOUS
<1>4. ASSUME NEW i \in 1..(t - a) PROVE SubSeq(l, a + 1, t)[i] = l[a + i]
  <2>1. i \in 1..(1 + t - (a + 1)) /\ (a + 1) + i - 1 = a + i
    OBVIOUS
  <2> QED BY <2>1
<1> QED BY <1>2, <1>3, <1>4
=============================================================================
