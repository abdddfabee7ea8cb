---------------------------- MODULE ArrayLemmas ----------------------------
(***************************************************************************)
(* What the array operations of the program (splice, push, unshift) do to  *)
(* the elements of a sequence.                                             *)
(***************************************************************************)
EXTENDS Integers, Sequences, SequencesExt, FiniteSetTheorems, WellFoundedInduction, TLAPS

(* What splice(i, 1) leaves of an array.                                   *)
LEMMA RemoveAtDef ==
  ASSUME NEW S, NEW s \in Seq(S), NEW i \in DOMAIN s
  PROVE  /\ RemoveAt(s, i) \in Seq(S)
         /\ DOMAIN RemoveAt(s, i) = 1 .. Len(s) - 1
         /\ \A j \in 1 .. Len(s) - 1 :
              RemoveAt(s, i)[j] = IF j < i THEN s[j] ELSE s[j + 1]
<1> DEFINE front == SubSeq(s, 1, i - 1)
           back  == SubSeq(s, i + 1, Len(s))
<1>1. /\ Len(s) \in Nat /\ i \in 1 .. Len(s)
      /\ \A j \in 1 .. Len(s) : s[j] \in S
  OBVIOUS
<1>2. /\ front \in Seq(S) /\ Len(front) = i - 1
      /\ \A j \in 1 .. i - 1 : front[j] = s[j]
  BY <1>1
<1>3. /\ back \in Seq(S) /\ Len(back) = Len(s) - i
      /\ \A j \in 1 .. Len(s) - i : back[j] = s[j + i]
  BY <1>1
<1>4. /\ front \o back \in Seq(S)
      /\ Len(front \o back) = Len(s) - 1
      /\ \A j \in 1 .. Len(s) - 1 :
           (front \o back)[j] = IF j < i THEN s[j] ELSE s[j + 1]
  <2> HIDE DEF front, back
  <2>1. front \o back \in Seq(S) /\ Len(front \o back) = Len(s) - 1
    BY <1>1, <1>2, <1>3
  <2>2. ASSUME NEW j \in 1 .. Len(s) - 1
        PROVE  (front \o back)[j] = IF j < i THEN s[j] ELSE s[j + 1]
    <3>1. CASE j < i
      BY <1>1, <1>2, <1>3, <3>1
    <3>2. CASE j >= i
      <4>1. (front \o back)[j] = back[j - (i - 1)]
        BY <1>1, <1>2, <1>3, <3>2
      <4>2. j - (i - 1) \in 1 .. Len(s) - i /\ j - (i - 1) + i = j + 1
        BY <1>1, <3>2
      <4> QED BY <4>1, <4>2, <1>3, <3>2, <1>1
    <3>3. j < i \/ j >= i
      BY <1>1
    <3> QED BY <3>1, <3>2, <3>3, Zenon
  <2> QED BY <2>1, <2>2
<1>5. RemoveAt(s, i) = front \o back
  BY DEF RemoveAt
<1> HIDE DEF front, back
<1>6. DOMAIN (front \o back) = 1 .. Len(s) - 1
  BY <1>2, <1>3, <1>4
<1> QED BY <1>4, <1>5, <1>6

(* Removing one entry keeps every other element.                           *)
LEMMA RemoveAtRange ==
  ASSUME NEW S, NEW s \in Seq(S), NEW i \in DOMAIN s
  PROVE  /\ Range(RemoveAt(s, i)) \subseteq Range(s)
         /\ Range(s) \ {s[i]} \subseteq Range(RemoveAt(s, i))
<1> DEFINE t == RemoveAt(s, i)
<1>1. /\ Len(s) \in Nat /\ i \in 1 .. Len(s) /\ DOMAIN s = 1 .. Len(s)
  OBVIOUS
<1>2. /\ DOMAIN t = 1 .. Len(s) - 1
      /\ \A j \in 1 .. Len(s) - 1 : t[j] = IF j < i THEN s[j] ELSE s[j + 1]
  BY RemoveAtDef
<1> HIDE DEF t
<1>3. Range(t) \subseteq Range(s)
  BY <1>1, <1>2 DEF Range
<1>4. ASSUME NEW k \in 1 .. Len(s), s[k] # s[i]
      PROVE  \E j \in 1 .. Len(s) - 1 : t[j] = s[k]
  <2>1. CASE k < i
    BY <1>1, <1>2, <2>1
  <2>2. CASE k > i
    <3>1. k - 1 \in 1 .. Len(s) - 1 /\ ~(k - 1 < i) /\ (k - 1) + 1 = k
      BY <1>1, <2>2
    <3> QED BY <3>1, <1>2
  <2> QED BY <1>4, <2>1, <2>2, <1>1
<1>5. ASSUME NEW x \in Range(s) \ {s[i]} PROVE x \in Range(t)
  <2>1. PICK k \in 1 .. Len(s) : x = s[k]
    BY <1>1 DEF Range
  <2>2. PICK j \in 1 .. Len(s) - 1 : t[j] = s[k]
    BY <1>4, <2>1
  <2> QED BY <1>2, <2>1, <2>2 DEF Range
<1> QED BY <1>3, <1>5 DEF t

(* Removing from an array without duplicates removes the element.          *)
LEMMA RemoveAtInjective ==
  ASSUME NEW S, NEW s \in Seq(S), NEW i \in DOMAIN s, IsInjective(s)
  PROVE  /\ IsInjective(RemoveAt(s, i))
         /\ Range(RemoveAt(s, i)) = Range(s) \ {s[i]}
<1> DEFINE t == RemoveAt(s, i)
<1>1. /\ Len(s) \in Nat /\ i \in 1 .. Len(s) /\ DOMAIN s = 1 .. Len(s)
      /\ \A j, k \in 1 .. Len(s) : s[j] = s[k] => j = k
  BY DEF IsInjective
<1>2. /\ DOMAIN t = 1 .. Len(s) - 1
      /\ \A j \in 1 .. Len(s) - 1 : t[j] = IF j < i THEN s[j] ELSE s[j + 1]
  BY RemoveAtDef
<1>3. Range(t) \subseteq Range(s) /\ Range(s) \ {s[i]} \subseteq Range(t)
  BY RemoveAtRange
<1> HIDE DEF t
<1>4. \A j, k \in 1 .. Len(s) - 1 : t[j] = t[k] => j = k
  BY <1>1, <1>2
<1>5. s[i] \notin Range(t)
  <2>1. SUFFICES ASSUME NEW j \in 1 .. Len(s) - 1, t[j] = s[i] PROVE FALSE
    BY <1>2 DEF Range
  <2> QED BY <2>1, <1>1, <1>2
<1> QED BY <1>2, <1>3, <1>4, <1>5 DEF t, IsInjective

(* push() adds one element at the end.                                     *)
LEMMA AppendRange ==
  ASSUME NEW S, NEW s \in Seq(S), NEW e \in S
  PROVE  /\ Append(s, e) \in Seq(S)
         /\ Range(Append(s, e)) = Range(s) \union {e}
         /\ e \notin Range(s) /\ IsInjective(s) => IsInjective(Append(s, e))
<1> DEFINE t == Append(s, e)
<1>1. /\ Len(s) \in Nat /\ DOMAIN s = 1 .. Len(s)
      /\ t \in Seq(S) /\ DOMAIN t = 1 .. Len(s) + 1
      /\ t[Len(s) + 1] = e
      /\ \A j \in 1 .. Len(s) : t[j] = s[j]
  OBVIOUS
<1> HIDE DEF t
<1>2. Range(t) = Range(s) \union {e}
  BY <1>1 DEF Range
<1>3. e \notin Range(s) /\ IsInjective(s) => IsInjective(t)
  BY <1>1 DEF Range, IsInjective
<1> QED BY <1>1, <1>2, <1>3 DEF t

(* unshift() adds one element at the front.                                *)
LEMMA PrependRange ==
  ASSUME NEW S, NEW s \in Seq(S), NEW e \in S
  PROVE  /\ <<e>> \o s \in Seq(S)
         /\ Range(<<e>> \o s) = Range(s) \union {e}
         /\ e \notin Range(s) /\ IsInjective(s) => IsInjective(<<e>> \o s)
<1> DEFINE t == <<e>> \o s
<1>1. /\ Len(s) \in Nat /\ DOMAIN s = 1 .. Len(s)
      /\ t \in Seq(S) /\ DOMAIN t = 1 .. Len(s) + 1
      /\ t[1] = e
      /\ \A j \in 2 .. Len(s) + 1 : t[j] = s[j - 1]
  OBVIOUS
<1> HIDE DEF t
<1>2. \A j \in 1 .. Len(s) : j + 1 \in 1 .. Len(s) + 1 /\ t[j + 1] = s[j]
  <2> TAKE j \in 1 .. Len(s)
  <2>1. j + 1 \in 2 .. Len(s) + 1 /\ (j + 1) - 1 = j
    BY <1>1
  <2> QED BY <2>1, <1>1
<1>3. \A j \in 1 .. Len(s) + 1 : j = 1 \/ (j - 1 \in 1 .. Len(s) /\ t[j] = s[j - 1])
  BY <1>1
<1>4. Range(t) = Range(s) \union {e}
  <2>1. ASSUME NEW j \in 1 .. Len(s) + 1 PROVE t[j] \in Range(s) \union {e}
    <3>1. CASE j = 1
      BY <1>1, <3>1
    <3>2. CASE j # 1
      BY <1>1, <1>3, <3>2 DEF Range
    <3> QED BY <3>1, <3>2
  <2>2. \A x \in Range(s) : x \in Range(t)
    BY <1>1, <1>2 DEF Range
  <2>3. e \in Range(t)
    BY <1>1 DEF Range
  <2> QED BY <1>1, <2>1, <2>2, <2>3 DEF Range
<1>5. ASSUME e \notin Range(s), IsInjective(s),
             NEW j \in 1 .. Len(s) + 1, NEW k \in 1 .. Len(s) + 1, t[j] = t[k]
      PROVE  j = k
  <2>1. \A x \in 1 .. Len(s) : s[x] # e
    BY <1>1, <1>5 DEF Range
  <2>2. \A x, y \in 1 .. Len(s) : s[x] = s[y] => x = y
    BY <1>1, <1>5 DEF IsInjective
  <2>3. CASE j = 1 \/ k = 1
    BY <1>1, <1>3, <1>5, <2>1, <2>3
  <2>4. CASE j # 1 /\ k # 1
    <3>1. j - 1 = k - 1
      BY <1>3, <1>5, <2>2, <2>4
    <3> QED BY <3>1, <1>1
  <2> QED BY <2>3, <2>4
<1>6. e \notin Range(s) /\ IsInjective(s) => IsInjective(t)
  BY <1>1, <1>5 DEF IsInjective
<1> QED BY <1>1, <1>4, <1>6 DEF t

(* shift() takes the first element.                                        *)
LEMMA TailElements ==
  ASSUME NEW S, NEW s \in Seq(S), s # <<>>
  PROVE  /\ Head(s) = s[1] /\ Head(s) \in S /\ 1 \in DOMAIN s
         /\ Tail(s) \in Seq(S) /\ Len(Tail(s)) = Len(s) - 1
         /\ DOMAIN Tail(s) = 1 .. Len(s) - 1
         /\ \A i \in DOMAIN Tail(s) : i + 1 \in DOMAIN s /\ Tail(s)[i] = s[i + 1]
         /\ \A i \in DOMAIN Tail(s) : \E j \in DOMAIN s : Tail(s)[i] = s[j]
<1>1. /\ Len(s) \in Nat \ {0} /\ DOMAIN s = 1 .. Len(s)
      /\ Head(s) = s[1] /\ Head(s) \in S
      /\ Tail(s) \in Seq(S) /\ Len(Tail(s)) = Len(s) - 1
      /\ DOMAIN Tail(s) = 1 .. Len(Tail(s))
  OBVIOUS
<1>2. \A i \in 1 .. Len(s) - 1 : i + 1 \in 1 .. Len(s) /\ Tail(s)[i] = s[i + 1]
  BY <1>1
<1> QED BY <1>1, <1>2

(* The first element of an array without duplicates is gone after it.      *)
LEMMA TailRange ==
  ASSUME NEW S, NEW s \in Seq(S), s # <<>>
  PROVE  /\ Head(s) \in Range(s)
         /\ Range(Tail(s)) \subseteq Range(s)
         /\ IsInjective(s) => IsInjective(Tail(s)) /\ Range(Tail(s)) = Range(s) \ {Head(s)}
<1> DEFINE t == Tail(s)
<1>1. /\ Len(s) \in Nat \ {0} /\ DOMAIN s = 1 .. Len(s) /\ Head(s) = s[1]
      /\ DOMAIN t = 1 .. Len(s) - 1
      /\ \A i \in DOMAIN t : i + 1 \in DOMAIN s /\ t[i] = s[i + 1]
  BY TailElements
<1> HIDE DEF t
<1>2. Head(s) \in Range(s) /\ Range(t) \subseteq Range(s)
  BY <1>1 DEF Range
<1>3. ASSUME IsInjective(s) PROVE IsInjective(t) /\ Range(t) = Range(s) \ {Head(s)}
  <2>1. \A i, j \in DOMAIN s : s[i] = s[j] => i = j
    BY <1>3 DEF IsInjective
  <2>2. IsInjective(t)
    BY <1>1, <2>1 DEF IsInjective
  <2>3. Head(s) \notin Range(t)
    BY <1>1, <2>1 DEF Range
  <2>4. ASSUME NEW k \in DOMAIN s, s[k] # Head(s) PROVE \E i \in DOMAIN t : t[i] = s[k]
    <3>1. k - 1 \in DOMAIN t /\ (k - 1) + 1 = k
      BY <1>1, <2>4
    <3> QED BY <1>1, <3>1
  <2>5. Range(s) \ {Head(s)} \subseteq Range(t)
    BY <2>4 DEF Range
  <2> QED BY <1>2, <2>2, <2>3, <2>5
<1> QED BY <1>2, <1>3 DEF t

(* A concatenation holds what its parts hold.                              *)
LEMMA ConcatRange ==
  ASSUME NEW S, NEW s \in Seq(S), NEW t \in Seq(S)
  PROVE  /\ s \o t \in Seq(S)
         /\ Range(s \o t) = Range(s) \union Range(t)
<1> DEFINE u == s \o t
<1>1. /\ Len(s) \in Nat /\ Len(t) \in Nat /\ u \in Seq(S)
      /\ DOMAIN s = 1 .. Len(s) /\ DOMAIN t = 1 .. Len(t)
      /\ DOMAIN u = 1 .. Len(s) + Len(t)
      /\ \A i \in 1 .. Len(s) : u[i] = s[i]
      /\ \A i \in 1 .. Len(t) : u[Len(s) + i] = t[i]
  OBVIOUS
<1> HIDE DEF u
<1>2. ASSUME NEW i \in DOMAIN u PROVE u[i] \in Range(s) \union Range(t)
  <2>1. CASE i <= Len(s)
    BY <1>1, <2>1 DEF Range
  <2>2. CASE i > Len(s)
    <3>1. i - Len(s) \in 1 .. Len(t) /\ Len(s) + (i - Len(s)) = i
      BY <1>1, <2>2
    <3> QED BY <1>1, <3>1 DEF Range
  <2> QED BY <1>1, <2>1, <2>2
<1>3. \A i \in DOMAIN s : s[i] \in Range(u)
  BY <1>1 DEF Range
<1>4. \A i \in DOMAIN t : t[i] \in Range(u)
  <2> TAKE i \in DOMAIN t
  <2>1. Len(s) + i \in DOMAIN u /\ u[Len(s) + i] = t[i]
    BY <1>1
  <2> QED BY <2>1 DEF Range
<1>5. Range(u) = Range(s) \union Range(t)
  BY <1>2, <1>3, <1>4 DEF Range
<1> QED BY <1>1, <1>5 DEF u

(* Two arrays with no element in common have no duplicates together.       *)
LEMMA ConcatInjective ==
  ASSUME NEW S, NEW s \in Seq(S), NEW t \in Seq(S), IsInjective(s), IsInjective(t),
         Range(s) \intersect Range(t) = {}
  PROVE  IsInjective(s \o t)
<1> DEFINE u == s \o t
<1>1. /\ Len(s) \in Nat /\ Len(t) \in Nat
      /\ DOMAIN s = 1 .. Len(s) /\ DOMAIN t = 1 .. Len(t)
      /\ DOMAIN u = 1 .. Len(s) + Len(t)
      /\ \A i \in 1 .. Len(s) : u[i] = s[i]
      /\ \A i \in 1 .. Len(t) : u[Len(s) + i] = t[i]
  OBVIOUS
<1> HIDE DEF u
<1>2. \A i \in DOMAIN u : i > Len(s) => i - Len(s) \in 1 .. Len(t) /\ u[i] = t[i - Len(s)]
  <2> TAKE i \in DOMAIN u
  <2>1. i > Len(s) => i - Len(s) \in 1 .. Len(t) /\ Len(s) + (i - Len(s)) = i
    BY <1>1
  <2> QED BY <1>1, <2>1
<1>3. \A i \in 1 .. Len(s), j \in 1 .. Len(t) : s[i] # t[j]
  BY <1>1 DEF Range
<1>4. ASSUME NEW i \in DOMAIN u, NEW j \in DOMAIN u, u[i] = u[j] PROVE i = j
  <2>1. CASE i <= Len(s) /\ j <= Len(s)
    BY <1>1, <1>4, <2>1 DEF IsInjective
  <2>2. CASE i > Len(s) /\ j > Len(s)
    <3>1. i - Len(s) = j - Len(s)
      BY <1>1, <1>2, <1>4, <2>2 DEF IsInjective
    <3> QED BY <1>1, <3>1
  <2>3. CASE i <= Len(s) /\ j > Len(s)
    BY <1>1, <1>2, <1>3, <1>4, <2>3
  <2>4. CASE i > Len(s) /\ j <= Len(s)
    BY <1>1, <1>2, <1>3, <1>4, <2>4
  <2> QED BY <1>1, <2>1, <2>2, <2>3, <2>4
<1>5. IsInjective(u)
  BY <1>4 DEF IsInjective
<1> QED BY <1>5 DEF u

(* push leaves what is there in its place and adds a last element.         *)
LEMMA AppendElements ==
  ASSUME NEW S, NEW s \in Seq(S), NEW e \in S
  PROVE  LET t == Append(s, e)
             last == Len(s) + 1 IN
         /\ t \in Seq(S) /\ DOMAIN t = DOMAIN s \union {last}
         /\ t[last] = e /\ ~(last < last)
         /\ \A i \in DOMAIN s : i < last /\ ~(last < i) /\ t[i] = s[i]
<1>1. /\ Append(s, e) \in Seq(S) /\ DOMAIN Append(s, e) = 1 .. Len(s) + 1
      /\ Append(s, e)[Len(s) + 1] = e
      /\ \A i \in 1 .. Len(s) : Append(s, e)[i] = s[i]
      /\ DOMAIN s = 1 .. Len(s) /\ Len(s) \in Nat
  OBVIOUS
<1>2. \A n \in Nat : /\ 1 .. n + 1 = (1 .. n) \union {n + 1}
                     /\ ~(n + 1 < n + 1)
                     /\ \A i \in 1 .. n : i < n + 1 /\ ~(n + 1 < i)
  OBVIOUS
<1> QED BY <1>1, <1>2, Zenon
-----------------------------------------------------------------------------
(* The order of elements                                                   *)

(* a comes before b in s.                                                  *)
Precedes(s, a, b) == \E i, j \in DOMAIN s : i < j /\ s[i] = a /\ s[j] = b

(* What precedes something, or is preceded, is in the sequence.            *)
LEMMA PrecedesRange ==
  ASSUME NEW s, NEW a, NEW b, Precedes(s, a, b) PROVE a \in Range(s) /\ b \in Range(s)
BY DEF Precedes, Range

(* push() puts an element after all others.                                *)
LEMMA PrecedesAppend ==
  ASSUME NEW S, NEW s \in Seq(S), NEW e \in S
  PROVE  /\ \A a, b : Precedes(s, a, b) => Precedes(Append(s, e), a, b)
         /\ \A a \in Range(s) : Precedes(Append(s, e), a, e)
         /\ \A a, b : Precedes(Append(s, e), a, b) => Precedes(s, a, b) \/ (b = e /\ a \in Range(s))
<1> DEFINE t == Append(s, e)
           last == Len(s) + 1
<1>1. /\ DOMAIN t = DOMAIN s \union {last} /\ t[last] = e /\ ~(last < last)
      /\ \A i \in DOMAIN s : i < last /\ ~(last < i) /\ t[i] = s[i]
  BY AppendElements
<1> HIDE DEF t, last
<1>2. \A a, b : Precedes(s, a, b) => Precedes(t, a, b)
  BY <1>1 DEF Precedes
<1>3. \A a \in Range(s) : Precedes(t, a, e)
  BY <1>1 DEF Precedes, Range
<1>4. ASSUME NEW a, NEW b, Precedes(t, a, b) PROVE Precedes(s, a, b) \/ (b = e /\ a \in Range(s))
  <2>1. PICK i, j \in DOMAIN t : i < j /\ t[i] = a /\ t[j] = b
    BY <1>4 DEF Precedes
  <2>2. i \in DOMAIN s /\ s[i] = a
    BY <1>1, <2>1
  <2>3. CASE j = last
    BY <1>1, <2>1, <2>2, <2>3 DEF Range
  <2>4. CASE j \in DOMAIN s
    <3>1. s[j] = b
      BY <1>1, <2>1, <2>4
    <3> QED BY <2>1, <2>2, <2>4, <3>1 DEF Precedes
  <2> QED BY <1>1, <2>1, <2>3, <2>4
<1> QED BY <1>2, <1>3, <1>4 DEF t

(* splice(i, 1) keeps the order of the others.                             *)
LEMMA PrecedesRemoveAt ==
  ASSUME NEW S, NEW s \in Seq(S), NEW k \in DOMAIN s, NEW a, NEW b,
         Precedes(s, a, b), a # s[k], b # s[k]
  PROVE  Precedes(RemoveAt(s, k), a, b)
<1> DEFINE t == RemoveAt(s, k)
<1>0. Len(s) \in Nat /\ DOMAIN s = 1 .. Len(s)
  OBVIOUS
<1>1. /\ DOMAIN t = 1 .. Len(s) - 1
      /\ \A j \in 1 .. Len(s) - 1 : t[j] = IF j < k THEN s[j] ELSE s[j + 1]
  BY RemoveAtDef
<1> HIDE DEF t
<1>2. PICK i, j \in DOMAIN s : i < j /\ s[i] = a /\ s[j] = b
  BY DEF Precedes
<1>3. i # k /\ j # k
  BY <1>2
<1> DEFINE x == IF i < k THEN i ELSE i - 1
           y == IF j < k THEN j ELSE j - 1
<1>4. x \in DOMAIN t /\ y \in DOMAIN t /\ x < y
  BY <1>0, <1>1, <1>2, <1>3
<1>5. t[x] = s[i]
  BY <1>0, <1>1, <1>2, <1>3, <1>4
<1>6. t[y] = s[j]
  BY <1>0, <1>1, <1>2, <1>3, <1>4
<1> QED BY <1>2, <1>4, <1>5, <1>6 DEF Precedes, t

(* unshift() keeps the order of what was there.                            *)
LEMMA PrecedesConcat ==
  ASSUME NEW S, NEW s \in Seq(S), NEW t \in Seq(S), NEW a, NEW b, Precedes(t, a, b)
  PROVE  Precedes(s \o t, a, b)
<1>1. /\ Len(s) \in Nat /\ Len(t) \in Nat /\ DOMAIN t = 1 .. Len(t)
      /\ DOMAIN (s \o t) = 1 .. Len(s) + Len(t)
      /\ \A i \in 1 .. Len(t) : (s \o t)[Len(s) + i] = t[i]
  OBVIOUS
<1>2. PICK i, j \in DOMAIN t : i < j /\ t[i] = a /\ t[j] = b
  BY DEF Precedes
<1>3. Len(s) + i \in DOMAIN (s \o t) /\ Len(s) + j \in DOMAIN (s \o t) /\ Len(s) + i < Len(s) + j
  BY <1>1, <1>2
<1> QED BY <1>1, <1>2, <1>3 DEF Precedes

-----------------------------------------------------------------------------
(* A finite set written down in some order: each element once.             *)
LEMMA SetToSeqElements ==
  ASSUME NEW S, IsFiniteSet(S)
  PROVE  /\ SetToSeq(S) \in Seq(S) /\ Range(SetToSeq(S)) \subseteq S
         /\ IsInjective(SetToSeq(S))
<1> DEFINE n == Cardinality(S)
           t == SetToSeq(S)
<1>1. n \in Nat /\ ExistsBijection(1 .. n, S)
  BY FS_CardinalityType
<1>2. \E f \in [1 .. n -> S] : IsInjective(f)
  BY <1>1 DEF ExistsBijection, Bijection, Injection
<1>3. t \in [1 .. n -> S] /\ IsInjective(t)
  BY <1>2 DEF SetToSeq
<1>4. t \in Seq(S)
  BY <1>1, <1>3
<1> QED BY <1>3, <1>4 DEF Range

(* What is left when the first occurrence of an element is taken out, if   *)
(* there is one; of a sequence without duplicates, all but that element.   *)
LEMMA RemoveFirstElements ==
  ASSUME NEW S, NEW s \in Seq(S), NEW e
  PROVE  /\ RemoveFirst(s, e) \in Seq(S)
         /\ Range(RemoveFirst(s, e)) \subseteq Range(s)
         /\ IsInjective(s) => /\ IsInjective(RemoveFirst(s, e))
                              /\ Range(RemoveFirst(s, e)) = Range(s) \ {e}
<1> DEFINE I == {i \in 1 .. Len(s) : s[i] = e}
<1>0. Len(s) \in Nat /\ DOMAIN s = 1 .. Len(s)
  OBVIOUS
<1>1. CASE I = {}
  <2>1. RemoveFirst(s, e) = s
    BY <1>1 DEF RemoveFirst
  <2>2. e \notin Range(s)
    BY <1>0, <1>1 DEF Range
  <2> QED BY <2>1, <2>2
<1>2. CASE I # {}
  <2>1. I \subseteq Nat /\ I \subseteq DOMAIN s
    BY <1>0
  <2>2. \E i \in I : \A j \in I : i <= j
    <3>1. IsWellFoundedOn(OpToRel(<, Nat), Nat)
      BY NatLessThanWellFounded
    <3>2. \E i \in I : \A j \in I : ~(<<j, i>> \in OpToRel(<, Nat))
      BY <1>2, <2>1, <3>1, WFMin
    <3>3. \A i, j \in Nat : ~(<<j, i>> \in OpToRel(<, Nat)) => i <= j
      BY DEF OpToRel
    <3> HIDE DEF I
    <3> QED BY <2>1, <3>2, <3>3
  <2>3. Min(I) \in I
    BY <2>2 DEF Min
  <2>4. SelectInSeq(s, LAMBDA v : v = e) = Min(I)
    BY <1>2 DEF SelectInSeq
  <2>5. RemoveFirst(s, e) = RemoveAt(s, Min(I)) 
    BY <1>2, <2>4 DEF RemoveFirst
  <2>6. Min(I) \in DOMAIN s /\ s[Min(I)] = e
    BY <2>1, <2>3
  <2> HIDE DEF I
  <2> QED BY <2>5, <2>6, RemoveAtDef, RemoveAtRange, RemoveAtInjective
<1> QED BY <1>1, <1>2
=============================================================================
