------------------------------ MODULE ListLemmas ------------------------------
(***************************************************************************)
(* What insertion into and deletion from a GList do, as facts about        *)
(* sequences.                                                              *)
(***************************************************************************)
EXTENDS Integers, SequencesExt, SequenceTheorems, FiniteSetTheorems, TLAPS

\* The list with e put before position k.
LEMMA InsertAtProperties ==
    ASSUME NEW S, NEW s \in Seq(S), NEW e \in S, NEW k \in 1 .. Len(s) + 1
    PROVE  /\ InsertAt(s, k, e) \in Seq(S)
           /\ Len(InsertAt(s, k, e)) = Len(s) + 1
           /\ \A i \in 1 .. Len(s) + 1 :
                 InsertAt(s, k, e)[i] = IF i < k THEN s[i]
                                        ELSE IF i = k THEN e ELSE s[i - 1]
<1> DEFINE n == Len(s)
           front == SubSeq(s, 1, k - 1)
           middle == Append(front, e)
           back == SubSeq(s, k, n)
<1>1. n \in Nat /\ k \in Int /\ 1 <= k /\ k <= n + 1
      /\ \A i \in 1 .. n : s[i] \in S
  BY LenProperties
<1>2. /\ front \in Seq(S) /\ Len(front) = k - 1
      /\ \A i \in 1 .. k - 1 : front[i] = s[i]
  BY <1>1, SubSeqProperties
<1>3. /\ back \in Seq(S) /\ Len(back) = n - k + 1
      /\ \A i \in 1 .. n - k + 1 : back[i] = s[k + i - 1]
  BY <1>1, SubSeqProperties
<1>4. InsertAt(s, k, e) = middle \o back
  BY <1>2, AppendIsConcat DEF InsertAt
<1> HIDE DEF n, front, back
<1>5. /\ middle \in Seq(S) /\ Len(middle) = k
      /\ \A i \in 1 .. k - 1 : middle[i] = s[i]
      /\ middle[k] = e
  BY <1>1, <1>2, AppendProperties
<1> HIDE DEF middle
<1>6. /\ middle \o back \in Seq(S) /\ Len(middle \o back) = Len(middle) + Len(back)
      /\ \A i \in 1 .. Len(middle) + Len(back) : (middle \o back)[i] =
            IF i <= Len(middle) THEN middle[i] ELSE back[i - Len(middle)]
  BY <1>3, <1>5, ConcatProperties
<1>7. Len(middle) + Len(back) = n + 1
  BY <1>1, <1>3, <1>5
<1>8. ASSUME NEW i \in 1 .. n + 1
      PROVE  (middle \o back)[i] =
                 IF i < k THEN s[i] ELSE IF i = k THEN e ELSE s[i - 1]
  <2>1. (middle \o back)[i] = IF i <= k THEN middle[i] ELSE back[i - k]
    BY <1>5, <1>6, <1>7
  <2>2. CASE i <= k
    BY <1>1, <1>5, <2>1, <2>2
  <2>3. CASE i > k
    <3>1. i - k \in 1 .. n - k + 1 /\ k + (i - k) - 1 = i - 1
      BY <1>1, <2>3
    <3> QED BY <1>1, <1>3, <2>1, <2>3, <3>1
  <2>4. i <= k \/ i > k
    BY <1>1
  <2> QED BY <2>2, <2>3, <2>4
<1> QED BY <1>4, <1>6, <1>7, <1>8 DEF n

\* The list without its element at position k.
LEMMA RemoveAtProperties ==
    ASSUME NEW S, NEW s \in Seq(S), NEW k \in 1 .. Len(s)
    PROVE  /\ RemoveAt(s, k) \in Seq(S)
           /\ Len(RemoveAt(s, k)) = Len(s) - 1
           /\ \A i \in 1 .. Len(s) - 1 :
                 RemoveAt(s, k)[i] = IF i < k THEN s[i] ELSE s[i + 1]
<1> DEFINE n == Len(s)
           front == SubSeq(s, 1, k - 1)
           back == SubSeq(s, k + 1, n)
<1>1. n \in Nat /\ k \in Int /\ 1 <= k /\ k <= n
      /\ \A i \in 1 .. n : s[i] \in S
  BY LenProperties
<1>2. /\ front \in Seq(S) /\ Len(front) = k - 1
      /\ \A i \in 1 .. k - 1 : front[i] = s[i]
  BY <1>1, SubSeqProperties
<1>3. /\ back \in Seq(S) /\ Len(back) = n - k
      /\ \A i \in 1 .. n - k : back[i] = s[k + i]
  <2>1. n - (k + 1) + 1 = n - k /\ \A i \in 1 .. n - k : k + 1 + i - 1 = k + i
    BY <1>1
  <2>2. (IF k + 1 <= n THEN n - (k + 1) + 1 ELSE 0) = n - k
    BY <1>1
  <2> QED BY <1>1, <2>1, <2>2, SubSeqProperties
<1>4. RemoveAt(s, k) = front \o back
  BY DEF RemoveAt
<1> HIDE DEF n, front, back
<1>5. /\ front \o back \in Seq(S) /\ Len(front \o back) = Len(front) + Len(back)
      /\ \A i \in 1 .. Len(front) + Len(back) : (front \o back)[i] =
            IF i <= Len(front) THEN front[i] ELSE back[i - Len(front)]
  BY <1>2, <1>3, ConcatProperties
<1>6. Len(front) + Len(back) = n - 1
  BY <1>1, <1>2, <1>3
<1>7. ASSUME NEW i \in 1 .. n - 1
      PROVE  (front \o back)[i] = IF i < k THEN s[i] ELSE s[i + 1]
  <2>1. (front \o back)[i] = IF i <= k - 1 THEN front[i] ELSE back[i - (k - 1)]
    BY <1>2, <1>5, <1>6
  <2>2. CASE i < k
    BY <1>1, <1>2, <2>1, <2>2
  <2>3. CASE i >= k
    <3>1. i - (k - 1) \in 1 .. n - k /\ k + (i - (k - 1)) = i + 1
      BY <1>1, <2>3
    <3> QED BY <1>1, <1>3, <2>1, <2>3, <3>1
  <2>4. i < k \/ i >= k
    BY <1>1
  <2> QED BY <2>2, <2>3, <2>4
<1> QED BY <1>4, <1>5, <1>6, <1>7 DEF n

Descending(s, f) == \A i, j \in 1 .. Len(s) : i < j => f[s[i]] >= f[s[j]]

\* Insertion before the first element that is not greater keeps the order.
LEMMA InsertAtDescending ==
    ASSUME NEW S, NEW s \in Seq(S), NEW e \in S, NEW k \in 1 .. Len(s) + 1,
           NEW f \in [S -> Nat], Descending(s, f),
           \A i \in 1 .. k - 1 : f[s[i]] > f[e],
           k <= Len(s) => f[s[k]] <= f[e]
    PROVE  Descending(InsertAt(s, k, e), f)
<1> DEFINE n == Len(s)
           r == InsertAt(s, k, e)
<1>1. n \in Nat /\ k \in Int /\ 1 <= k /\ k <= n + 1
      /\ \A i \in 1 .. n : s[i] \in S
  BY LenProperties
<1>2. /\ Len(r) = n + 1
      /\ \A i \in 1 .. n + 1 : r[i] = IF i < k THEN s[i]
                                     ELSE IF i = k THEN e ELSE s[i - 1]
  BY InsertAtProperties
<1> HIDE DEF r
<1>3. \A i \in 1 .. n : f[s[i]] \in Nat
  BY <1>1
<1>4. f[e] \in Nat
  OBVIOUS
<1>5. ASSUME NEW i \in 1 .. n, i >= k PROVE f[s[i]] <= f[e]
  <2>1. k \in 1 .. n /\ f[s[k]] <= f[e]
    BY <1>1, <1>5
  <2>2. f[s[k]] >= f[s[i]]
    BY <1>1, <1>3, <1>5, <2>1 DEF Descending
  <2> QED BY <1>3, <1>4, <2>1, <2>2
<1>6. ASSUME NEW i \in 1 .. n + 1, NEW j \in 1 .. n + 1, i < j
      PROVE  f[r[i]] >= f[r[j]]
  <2>1. CASE j < k
    <3>1. r[i] = s[i] /\ r[j] = s[j] /\ i \in 1 .. n /\ j \in 1 .. n
      BY <1>1, <1>2, <1>6, <2>1
    <3> QED BY <1>6, <3>1 DEF Descending
  <2>2. CASE j = k
    <3>1. r[i] = s[i] /\ r[j] = e /\ i \in 1 .. k - 1 /\ i \in 1 .. n
      BY <1>1, <1>2, <1>6, <2>2
    <3> QED BY <1>3, <1>4, <3>1
  <2>3. CASE j > k
    <3>1. r[j] = s[j - 1] /\ j - 1 \in 1 .. n /\ j - 1 >= k
      BY <1>1, <1>2, <1>6, <2>3
    <3>2. CASE i < k
      <4>1. r[i] = s[i] /\ i \in 1 .. n /\ i < j - 1
        BY <1>1, <1>2, <1>6, <2>3, <3>2
      <4> QED BY <3>1, <4>1 DEF Descending
    <3>3. CASE i = k
      <4>1. r[i] = e
        BY <1>2, <3>3
      <4> QED BY <1>3, <1>4, <1>5, <3>1, <4>1
    <3>4. CASE i > k
      <4>1. r[i] = s[i - 1] /\ i - 1 \in 1 .. n /\ i - 1 < j - 1
        BY <1>1, <1>2, <1>6, <3>4
      <4> QED BY <3>1, <4>1 DEF Descending
    <3>5. i < k \/ i = k \/ i > k
      BY <1>1
    <3> QED BY <3>2, <3>3, <3>4, <3>5
  <2>4. j < k \/ j = k \/ j > k
    BY <1>1
  <2> QED BY <2>1, <2>2, <2>3, <2>4
<1> QED BY <1>2, <1>6 DEF Descending, r

\* Deletion keeps the order.
LEMMA RemoveAtDescending ==
    ASSUME NEW S, NEW s \in Seq(S), NEW k \in 1 .. Len(s), NEW f, Descending(s, f)
    PROVE  Descending(RemoveAt(s, k), f)
<1> DEFINE n == Len(s)
           r == RemoveAt(s, k)
<1>1. n \in Nat /\ k \in Int /\ 1 <= k /\ k <= n
  BY LenProperties
<1>2. /\ Len(r) = n - 1
      /\ \A i \in 1 .. n - 1 : r[i] = IF i < k THEN s[i] ELSE s[i + 1]
  BY RemoveAtProperties
<1> HIDE DEF r
<1>3. ASSUME NEW i \in 1 .. n - 1, NEW j \in 1 .. n - 1, i < j
      PROVE  f[r[i]] >= f[r[j]]
  <2>1. PICK a \in 1 .. n : r[i] = s[a] /\ a \in {i, i + 1} /\ (a = i + 1 => i >= k)
    BY <1>1, <1>2
  <2>2. PICK b \in 1 .. n : r[j] = s[b] /\ b \in {j, j + 1} /\ (b = j => j < k)
    BY <1>1, <1>2
  <2>3. a < b
    BY <1>1, <1>3, <2>1, <2>2
  <2> QED BY <2>1, <2>2, <2>3 DEF Descending
<1> QED BY <1>2, <1>3 DEF Descending, r

\* A list without duplicates stays one when a new element is inserted, and
\* holds the old elements and the new one.
LEMMA InsertAtInjective ==
    ASSUME NEW S, NEW s \in Seq(S), NEW e \in S, NEW k \in 1 .. Len(s) + 1,
           IsInjective(s), \A i \in 1 .. Len(s) : s[i] # e
    PROVE  /\ IsInjective(InsertAt(s, k, e))
           /\ \A i \in 1 .. Len(InsertAt(s, k, e)) :
                 \/ InsertAt(s, k, e)[i] = e
                 \/ \E j \in 1 .. Len(s) : InsertAt(s, k, e)[i] = s[j]
<1> DEFINE n == Len(s)
           r == InsertAt(s, k, e)
<1>1. n \in Nat /\ k \in Int /\ 1 <= k /\ k <= n + 1 /\ DOMAIN s = 1 .. n
  BY LenProperties
<1>2. /\ Len(r) = n + 1
      /\ \A i \in 1 .. n + 1 : r[i] = IF i < k THEN s[i]
                                     ELSE IF i = k THEN e ELSE s[i - 1]
  BY InsertAtProperties
<1>a. DOMAIN r = 1 .. n + 1
  <2>1. r \in Seq(S) /\ Len(r) = n + 1
    BY InsertAtProperties
  <2> QED BY <2>1, LenProperties
<1> HIDE DEF r
<1>3. \A i \in 1 .. n + 1 :
         \/ i = k /\ r[i] = e
         \/ i < k /\ i \in 1 .. n /\ r[i] = s[i]
         \/ i > k /\ i - 1 \in 1 .. n /\ r[i] = s[i - 1]
  BY <1>1, <1>2
<1>b. \A a, b \in 1 .. n : s[a] = s[b] => a = b
  BY <1>1 DEF IsInjective
<1>c. \A a \in 1 .. n : s[a] # e
  OBVIOUS
<1> DEFINE q(x) == IF x < k THEN x ELSE x - 1
<1>d. \A x \in 1 .. n + 1 : x # k => q(x) \in 1 .. n /\ r[x] = s[q(x)]
  BY <1>1, <1>3
<1>e. \A x \in 1 .. n + 1 : r[x] = e => x = k
  BY <1>c, <1>d
<1>f. \A x, y \in 1 .. n + 1 : x # k /\ y # k /\ q(x) = q(y) => x = y
  BY <1>1
<1>g. r[k] = e
  BY <1>1, <1>2
<1> HIDE DEF q
<1>4. ASSUME NEW i \in 1 .. n + 1, NEW j \in 1 .. n + 1, r[i] = r[j] PROVE i = j
  <2>1. CASE i = k
    BY <1>4, <1>e, <1>g, <2>1
  <2>2. CASE j = k
    BY <1>4, <1>e, <1>g, <2>2
  <2>3. CASE i # k /\ j # k
    <3>1. q(i) \in 1 .. n /\ q(j) \in 1 .. n /\ s[q(i)] = s[q(j)]
      BY <1>4, <1>d, <2>3
    <3>2. q(i) = q(j)
      BY <1>b, <3>1
    <3> QED BY <1>f, <2>3, <3>2
  <2> QED BY <2>1, <2>2, <2>3
<1>5. ASSUME NEW i \in 1 .. n + 1
      PROVE  r[i] = e \/ \E j \in 1 .. n : r[i] = s[j]
  BY <1>3
<1> QED BY <1>2, <1>a, <1>4, <1>5 DEF IsInjective, r

\* Deletion keeps the elements distinct, and takes the deleted one away.
LEMMA RemoveAtInjective ==
    ASSUME NEW S, NEW s \in Seq(S), NEW k \in 1 .. Len(s), IsInjective(s)
    PROVE  /\ IsInjective(RemoveAt(s, k))
           /\ \A i \in 1 .. Len(RemoveAt(s, k)) :
                 /\ RemoveAt(s, k)[i] # s[k]
                 /\ \E j \in 1 .. Len(s) : RemoveAt(s, k)[i] = s[j]
<1> DEFINE n == Len(s)
           r == RemoveAt(s, k)
<1>1. n \in Nat /\ k \in Int /\ 1 <= k /\ k <= n /\ DOMAIN s = 1 .. n
  BY LenProperties
<1>2. /\ DOMAIN r = 1 .. n - 1 /\ Len(r) = n - 1
      /\ \A i \in 1 .. n - 1 : r[i] = IF i < k THEN s[i] ELSE s[i + 1]
  BY RemoveAtProperties, LenProperties
<1> HIDE DEF r
<1>3. \A i \in 1 .. n - 1 :
         \/ i < k /\ i \in 1 .. n /\ r[i] = s[i]
         \/ i >= k /\ i + 1 \in 1 .. n /\ r[i] = s[i + 1]
  BY <1>1, <1>2
<1>b. \A a, b \in 1 .. n : s[a] = s[b] => a = b
  BY <1>1 DEF IsInjective
<1>4. ASSUME NEW i \in 1 .. n - 1, NEW j \in 1 .. n - 1, r[i] = r[j] PROVE i = j
  BY <1>1, <1>3, <1>4, <1>b
<1>5. ASSUME NEW i \in 1 .. n - 1
      PROVE  r[i] # s[k] /\ \E j \in 1 .. n : r[i] = s[j]
  BY <1>1, <1>3 DEF IsInjective
<1> QED BY <1>2, <1>4, <1>5 DEF IsInjective, r

\* Insertion adds its element to the elements of the list.
LEMMA InsertAtRange ==
    ASSUME NEW S, NEW s \in Seq(S), NEW e \in S, NEW k \in 1 .. Len(s) + 1
    PROVE  Range(InsertAt(s, k, e)) = Range(s) \cup {e}
<1> DEFINE n == Len(s)
           r == InsertAt(s, k, e)
<1>1. n \in Nat /\ k \in Int /\ 1 <= k /\ k <= n + 1
  BY LenProperties
<1>a. r \in Seq(S) /\ Len(r) = n + 1
  BY InsertAtProperties
<1>b. \A i \in 1 .. n + 1 : r[i] = IF i < k THEN s[i]
                                  ELSE IF i = k THEN e ELSE s[i - 1]
  BY InsertAtProperties
<1>2. /\ r \in Seq(S) /\ Len(r) = n + 1
      /\ \A i \in 1 .. n + 1 : r[i] = IF i < k THEN s[i]
                                     ELSE IF i = k THEN e ELSE s[i - 1]
  BY <1>a, <1>b
<1>3. Range(s) = {s[i] : i \in 1 .. n} /\ Range(r) = {r[i] : i \in 1 .. n + 1}
  BY <1>2, RangeEquality
<1> HIDE DEF r, n
<1>4. \A i \in 1 .. n + 1 : r[i] = e \/ \E j \in 1 .. n : r[i] = s[j]
  <2> SUFFICES ASSUME NEW i \in 1 .. n + 1
               PROVE  r[i] = e \/ \E j \in 1 .. n : r[i] = s[j]
    OBVIOUS
  <2>1. CASE i < k
    BY <1>1, <1>2, <2>1
  <2>2. CASE i = k
    BY <1>2, <2>2
  <2>3. CASE i > k
    <3>1. r[i] = s[i - 1] /\ i - 1 \in 1 .. n
      BY <1>1, <1>2, <2>3
    <3> QED BY <3>1
  <2> QED BY <1>1, <2>1, <2>2, <2>3
<1>5. \A j \in 1 .. n : \E i \in 1 .. n + 1 : r[i] = s[j]
  <2> SUFFICES ASSUME NEW j \in 1 .. n PROVE \E i \in 1 .. n + 1 : r[i] = s[j]
    OBVIOUS
  <2>1. CASE j < k
    BY <1>1, <1>2, <2>1
  <2>2. CASE j >= k
    <3>1. j + 1 \in 1 .. n + 1 /\ r[j + 1] = s[j]
      BY <1>1, <1>2, <2>2
    <3> QED BY <3>1
  <2> QED BY <1>1, <2>1, <2>2
<1>6. k \in 1 .. n + 1 /\ r[k] = e
  BY <1>1, <1>2
<1> QED BY <1>3, <1>4, <1>5, <1>6 DEF r, n

\* Deletion from a list without duplicates takes exactly one element away.
LEMMA RemoveAtRange ==
    ASSUME NEW S, NEW s \in Seq(S), NEW k \in 1 .. Len(s), IsInjective(s)
    PROVE  Range(RemoveAt(s, k)) = Range(s) \ {s[k]}
<1> DEFINE n == Len(s)
           r == RemoveAt(s, k)
<1>1. n \in Nat /\ k \in Int /\ 1 <= k /\ k <= n /\ DOMAIN s = 1 .. n
  BY LenProperties
<1>2. /\ r \in Seq(S) /\ Len(r) = n - 1
      /\ \A i \in 1 .. n - 1 : r[i] = IF i < k THEN s[i] ELSE s[i + 1]
  BY RemoveAtProperties
<1>3. \A i \in 1 .. n - 1 : r[i] # s[k] /\ \E j \in 1 .. n : r[i] = s[j]
  BY <1>2, RemoveAtInjective
<1>4. Range(s) = {s[i] : i \in 1 .. n} /\ Range(r) = {r[i] : i \in 1 .. n - 1}
  BY <1>2, RangeEquality
<1> HIDE DEF r, n
<1>5. ASSUME NEW j \in 1 .. n, s[j] # s[k]
      PROVE  \E i \in 1 .. n - 1 : r[i] = s[j]
  <2>1. CASE j < k
    <3>1. j \in 1 .. n - 1 /\ r[j] = s[j]
      BY <1>1, <1>2, <2>1
    <3> QED BY <3>1
  <2>2. CASE j > k
    <3>1. j - 1 \in 1 .. n - 1 /\ r[j - 1] = s[j]
      BY <1>1, <1>2, <2>2
    <3> QED BY <3>1
  <2>3. j < k \/ j > k
    BY <1>1, <1>5
  <2> QED BY <2>1, <2>2, <2>3
<1>6. \A x \in Range(r) : x \in Range(s) /\ x # s[k]
  BY <1>3, <1>4
<1>7. \A x \in Range(s) : x # s[k] => x \in Range(r)
  BY <1>4, <1>5
<1>8. Range(r) = Range(s) \ {s[k]}
  BY <1>6, <1>7
<1> QED BY <1>8 DEF r

\* A list put in another order has the same elements.
LEMMA ReorderRange ==
    ASSUME NEW S, NEW s \in Seq(S), NEW p \in [1 .. Len(s) -> 1 .. Len(s)],
           \A i, j \in 1 .. Len(s) : p[i] = p[j] => i = j
    PROVE  Range([i \in 1 .. Len(s) |-> s[p[i]]]) = Range(s)
<1> DEFINE n == Len(s)
           r == [i \in 1 .. n |-> s[p[i]]]
<1>1. n \in Nat /\ Range(s) = {s[i] : i \in 1 .. n}
  BY LenProperties, RangeEquality
<1>2. IsFiniteSet(1 .. n)
  BY <1>1, FS_Interval
<1>3. p \in Injection(1 .. n, 1 .. n)
  BY DEF Injection, IsInjective
<1>4. p \in Surjection(1 .. n, 1 .. n)
  BY <1>2, <1>3, FS_Injection
<1>5. \A j \in 1 .. n : \E i \in 1 .. n : p[i] = j
  BY <1>4 DEF Surjection
<1>6. Range(r) = {s[p[i]] : i \in 1 .. n}
  BY DEF Range
<1>7. \A i \in 1 .. n : p[i] \in 1 .. n
  OBVIOUS
<1>8. \A x \in Range(r) : x \in Range(s)
  BY <1>1, <1>6, <1>7
<1>9. \A x \in Range(s) : x \in Range(r)
  <2> SUFFICES ASSUME NEW j \in 1 .. n PROVE s[j] \in Range(r)
    BY <1>1
  <2> QED BY <1>5, <1>6
<1> QED BY <1>8, <1>9

\* Only the empty list has no elements.
LEMMA EmptyRange ==
    ASSUME NEW S, NEW s \in Seq(S)
    PROVE  s = <<>> <=> Range(s) = {}
<1>1. Len(s) \in Nat /\ Range(s) = {s[i] : i \in 1 .. Len(s)}
      /\ (Len(s) = 0 <=> s = <<>>)
  BY LenProperties, RangeEquality, EmptySeq
<1>2. CASE Len(s) = 0
  BY <1>1, <1>2
<1>3. CASE Len(s) # 0
  <2>1. 1 \in 1 .. Len(s)
    BY <1>1, <1>3
  <2>2. s[1] \in Range(s)
    BY <1>1, <2>1
  <2> QED BY <1>1, <1>3, <2>2
<1> QED BY <1>2, <1>3

=============================================================================
