-------------------------- MODULE WaitQueueProofs --------------------------
(* What the proofs about the users of WaitQueue need to know of it.        *)
EXTENDS WaitQueue, SequenceTheorems, FiniteSetTheorems, TLAPS

(* Removing an element from a sequence leaves a sequence over the set.     *)
LEMMA WithoutType ==
  ASSUME NEW S, NEW s \in Seq(S), NEW e
  PROVE  Without(s, e) \in Seq(S)
<1>1. CASE \E i \in DOMAIN s : s[i] = e
  <2> DEFINE i == At(s, e)
  <2>1. i \in 1..Len(s)
    BY <1>1 DEF At
  <2> HIDE DEF i
  <2>2. SubSeq(s, 1, i - 1) \in Seq(S)
    BY <2>1, SubSeqProperties, \A m \in 1..(i - 1) : s[m] \in S
  <2>3. SubSeq(s, i + 1, Len(s)) \in Seq(S)
    BY <2>1, SubSeqProperties, \A m \in (i + 1)..Len(s) : s[m] \in S
  <2>4. Without(s, e) = SubSeq(s, 1, i - 1) \o SubSeq(s, i + 1, Len(s))
    BY <1>1 DEF Without, RemoveAt, i
  <2> QED BY <2>2, <2>3, <2>4
<1>2. CASE ~\E i \in DOMAIN s : s[i] = e
  BY <1>2 DEF Without
<1> QED BY <1>1, <1>2

----------------------------------------------------------------------------
\* No element occurs twice.
Once(s) == \A i, j \in DOMAIN s : s[i] = s[j] => i = j

(* A sequence without repetitions is as long as the set of its elements.   *)
LEMMA OnceLength ==
  ASSUME NEW S, NEW s \in Seq(S), Once(s)
  PROVE  IsFiniteSet(ToSet(s)) /\ Cardinality(ToSet(s)) = Len(s)
<1>1. s \in [1..Len(s) -> S] /\ Len(s) \in Nat
  BY LenProperties
<1>2. s \in [1..Len(s) -> ToSet(s)]
  BY <1>1 DEF ToSet
<1>3. s \in Surjection(1..Len(s), ToSet(s)) /\ s \in Injection(1..Len(s), ToSet(s))
  BY <1>1, <1>2 DEF Surjection, Injection, ToSet, Once, IsInjective
<1>4. IsFiniteSet(1..Len(s)) /\ Cardinality(1..Len(s)) = Len(s)
  <2>1. 1 \in Int /\ Len(s) \in Int
    BY <1>1
  <2>2. /\ IsFiniteSet(1..Len(s))
        /\ Cardinality(1..Len(s)) = IF 1 > Len(s) THEN 0 ELSE Len(s) - 1 + 1
    BY <2>1, FS_Interval
  <2> QED BY <1>1, <2>2
<1> QED BY <1>3, <1>4, FS_Surjection

(* Appending a new element adds it.                                        *)
LEMMA OnceAppend ==
  ASSUME NEW S, NEW s \in Seq(S), Once(s), NEW e \in S, e \notin ToSet(s)
  PROVE  /\ Once(Append(s, e)) /\ ToSet(Append(s, e)) = ToSet(s) \cup {e}
         /\ Append(s, e) \in Seq(S)
<1> DEFINE t == Append(s, e)
<1>1. /\ t \in Seq(S) /\ Len(t) = Len(s) + 1 /\ Len(s) \in Nat
      /\ \A i \in 1..Len(s) : t[i] = s[i]
      /\ t[Len(s) + 1] = e
  BY AppendProperties, LenProperties
<1> HIDE DEF t
<1>2. DOMAIN s = 1..Len(s) /\ DOMAIN t = 1..(Len(s) + 1)
  BY <1>1, LenProperties
<1>3. Once(t)
  BY <1>1, <1>2 DEF Once, ToSet
<1>4. ToSet(t) = ToSet(s) \cup {e}
  BY <1>1, <1>2 DEF ToSet
<1> QED BY <1>1, <1>3, <1>4 DEF t

(* What RemoveAt leaves: what was before stays where it was, what came     *)
(* after moves up by one.                                                  *)
LEMMA RemoveAtElements ==
  ASSUME NEW S, NEW s \in Seq(S), NEW i \in 1..Len(s)
  PROVE  /\ RemoveAt(s, i) \in Seq(S) /\ Len(RemoveAt(s, i)) = Len(s) - 1
         /\ \A m \in 1..(i - 1) : RemoveAt(s, i)[m] = s[m]
         /\ \A m \in i..(Len(s) - 1) : RemoveAt(s, i)[m] = s[m + 1]
<1> DEFINE n == Len(s)
<1>0. n \in Nat /\ i \in 1..n /\ \A m \in 1..n : s[m] \in S
  BY ElementOfSeq, LenProperties
<1>1. PICK a : a = SubSeq(s, 1, i - 1)
  OBVIOUS
<1>2. PICK b : b = SubSeq(s, i + 1, n)
  OBVIOUS
<1>3. RemoveAt(s, i) = a \o b
  BY <1>1, <1>2 DEF RemoveAt
<1> HIDE DEF n
<1> USE <1>0
<1>4. a \in Seq(S) /\ Len(a) = i - 1 /\ \A m \in 1..(i - 1) : a[m] = s[m]
  <2>1. i - 1 \in Nat /\ \A m \in 1..(i - 1) : s[m] \in S
    BY <1>0
  <2>2. /\ a \in Seq(S) /\ Len(a) = IF 1 <= i - 1 THEN i - 1 - 1 + 1 ELSE 0
        /\ \A m \in 1..(i - 1 - 1 + 1) : a[m] = s[1 + m - 1]
    BY <1>1, <2>1, SubSeqProperties
  <2> QED BY <2>2
<1>5. b \in Seq(S) /\ Len(b) = n - i /\ \A m \in 1..(n - i) : b[m] = s[i + m]
  <2>1. PICK j \in Int : j = i + 1
    OBVIOUS
  <2>2. \A m \in j..n : s[m] \in S
    BY <1>0, <2>1
  <2>3. /\ b \in Seq(S) /\ Len(b) = IF j <= n THEN n - j + 1 ELSE 0
        /\ \A m \in 1..(n - j + 1) : b[m] = s[j + m - 1]
    BY <1>2, <2>1, <2>2, SubSeqProperties
  <2>4. b \in Seq(S) /\ Len(b) = n - i
    BY <2>1, <2>3
  <2>5. ASSUME NEW m \in 1..(n - i) PROVE b[m] = s[i + m]
    <3>1. m \in 1..(n - j + 1) /\ j + m - 1 = i + m
      BY <2>1
    <3> QED BY <2>3, <3>1
  <2> QED BY <2>4, <2>5
<1>6. /\ a \o b \in Seq(S) /\ Len(a \o b) = Len(a) + Len(b)
      /\ \A m \in 1..(Len(a) + Len(b)) :
           (a \o b)[m] = IF m <= Len(a) THEN a[m] ELSE b[m - Len(a)]
  BY <1>4, <1>5, ConcatProperties
<1>7. Len(a \o b) = n - 1
  BY <1>4, <1>5, <1>6
<1>8. ASSUME NEW m \in 1..(i - 1) PROVE (a \o b)[m] = s[m]
  BY <1>4, <1>5, <1>6
<1>9. ASSUME NEW m \in i..(n - 1) PROVE (a \o b)[m] = s[m + 1]
  <2>1. m - (i - 1) \in 1..(n - i) /\ m \in 1..(i - 1 + (n - i)) /\ ~(m <= i - 1)
    OBVIOUS
  <2>2. (a \o b)[m] = b[m - (i - 1)]
    BY <1>4, <1>5, <1>6, <2>1
  <2>3. b[m - (i - 1)] = s[i + (m - (i - 1))]
    BY <1>5, <2>1
  <2>4. i + (m - (i - 1)) = m + 1
    OBVIOUS
  <2> QED BY <2>2, <2>3, <2>4
<1> QED BY <1>3, <1>6, <1>7, <1>8, <1>9 DEF n

(* Removing an element that occurs once removes it.                        *)
LEMMA OnceWithout ==
  ASSUME NEW S, NEW s \in Seq(S), Once(s), NEW e
  PROVE  Once(Without(s, e)) /\ ToSet(Without(s, e)) = ToSet(s) \ {e}
<1>1. CASE e \in ToSet(s)
  <2>1. PICK n \in Nat : n = Len(s) /\ DOMAIN s = 1..n
    BY LenProperties
  <2>2. PICK i \in 1..n : s[i] = e /\ i = At(s, e)
    BY <1>1, <2>1 DEF At, ToSet
  <2>3. PICK w : w = Without(s, e)
    OBVIOUS
  <2>4. w = RemoveAt(s, i)
    BY <1>1, <2>2, <2>3 DEF Without, ToSet
  <2>5. /\ w \in Seq(S) /\ Len(w) = n - 1
        /\ \A m \in 1..(i - 1) : w[m] = s[m]
        /\ \A m \in i..(n - 1) : w[m] = s[m + 1]
    <3>1. n = Len(s) /\ i \in 1..n
      BY <2>1
    <3>2. /\ RemoveAt(s, i) \in Seq(S) /\ Len(RemoveAt(s, i)) = n - 1
          /\ \A m \in 1..(i - 1) : RemoveAt(s, i)[m] = s[m]
          /\ \A m \in i..(n - 1) : RemoveAt(s, i)[m] = s[m + 1]
      BY <3>1, RemoveAtElements
    <3> QED BY <2>4, <3>2
  <2>6. DOMAIN w = 1..(n - 1)
    BY <2>5, LenProperties
  <2>7. \A m \in 1..(n - 1) : IF m < i THEN w[m] = s[m] ELSE w[m] = s[m + 1]
    BY <2>5
  <2>8. Once(w)
    <3> SUFFICES ASSUME NEW l \in 1..(n - 1), NEW m \in 1..(n - 1), w[l] = w[m]
                 PROVE  l = m
      BY <2>6 DEF Once
    <3>1. PICK j \in 1..n : w[l] = s[j] /\ j = IF l < i THEN l ELSE l + 1
      <4>1. CASE l < i
        <5>1. l \in 1..n /\ w[l] = s[l]
          BY <2>7, <4>1
        <5> QED BY <4>1, <5>1
      <4>2. CASE ~(l < i)
        <5>1. l + 1 \in 1..n /\ w[l] = s[l + 1]
          BY <2>7, <4>2
        <5> QED BY <4>2, <5>1
      <4> QED BY <4>1, <4>2
    <3>2. PICK k \in 1..n : w[m] = s[k] /\ k = IF m < i THEN m ELSE m + 1
      <4>1. CASE m < i
        <5>1. m \in 1..n /\ w[m] = s[m]
          BY <2>7, <4>1
        <5> QED BY <4>1, <5>1
      <4>2. CASE ~(m < i)
        <5>1. m + 1 \in 1..n /\ w[m] = s[m + 1]
          BY <2>7, <4>2
        <5> QED BY <4>2, <5>1
      <4> QED BY <4>1, <4>2
    <3>3. j = k
      BY <2>1, <3>1, <3>2 DEF Once
    <3> QED BY <3>1, <3>2, <3>3
  <2>9. ASSUME NEW m \in 1..(n - 1) PROVE w[m] \in ToSet(s) \ {e}
    <3>1. PICK l \in 1..n : w[m] = s[l] /\ l # i
      <4>1. CASE m < i
        <5>1. m \in 1..n /\ w[m] = s[m] /\ m # i
          BY <2>7, <4>1
        <5> QED BY <5>1
      <4>2. CASE ~(m < i)
        <5>1. m + 1 \in 1..n /\ w[m] = s[m + 1] /\ m + 1 # i
          BY <2>7, <4>2
        <5> QED BY <5>1
      <4> QED BY <4>1, <4>2
    <3> QED BY <2>1, <2>2, <3>1 DEF ToSet, Once
  <2>10. ASSUME NEW l \in 1..n, s[l] # e PROVE \E m \in 1..(n - 1) : w[m] = s[l]
    <3>1. CASE l < i
      BY <2>7, <3>1
    <3>2. CASE l > i
      <4>1. l - 1 \in 1..(n - 1) /\ ~(l - 1 < i) /\ (l - 1) + 1 = l
        BY <3>2
      <4> QED BY <2>7, <4>1
    <3> QED BY <2>2, <2>10, <3>1, <3>2
  <2>11. ToSet(w) = ToSet(s) \ {e}
    <3>1. \A x \in ToSet(w) : x \in ToSet(s) \ {e}
      BY <2>6, <2>9 DEF ToSet
    <3>2. \A x \in ToSet(s) \ {e} : x \in ToSet(w)
      BY <2>1, <2>6, <2>10 DEF ToSet
    <3> QED BY <3>1, <3>2
  <2> QED BY <2>3, <2>8, <2>11
<1>2. CASE e \notin ToSet(s)
  BY <1>2 DEF Without, ToSet
<1> QED BY <1>1, <1>2
=============================================================================
