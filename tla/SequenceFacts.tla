--------------------------- MODULE SequenceFacts ---------------------------
(***************************************************************************)
(* Facts about the lists of the driver and of the service, as sequences:   *)
(* what insertion at either end, the removal of the first, of the k-th or  *)
(* of a given element, and the joining of two lists leave, element by      *)
(* element, for membership, and for no element being there twice.  Used by *)
(* the proofs about the modules that have such lists.                      *)
(***************************************************************************)
EXTENDS Integers, SequencesExt, FiniteSetTheorems, FunctionTheorems,
        SequenceTheorems, WellFoundedInduction, TLAPS

(* What taking the k-th element out of a sequence leaves, element by       *)
(* element.                                                                *)
LEMMA RemoveAtElements ==
  ASSUME NEW S, NEW s \in Seq(S), NEW k \in 1 .. Len(s)
  PROVE  /\ RemoveAt(s, k) \in Seq(S)
         /\ Len(RemoveAt(s, k)) = Len(s) - 1
         /\ \A j \in 1 .. Len(s) - 1 :
              RemoveAt(s, k)[j] = IF j < k THEN s[j] ELSE s[j + 1]
<1> DEFINE a == SubSeq(s, 1, k - 1)
           b == SubSeq(s, k + 1, Len(s))
<1>1. /\ a \in Seq(S) /\ Len(a) = k - 1
      /\ \A j \in 1 .. k - 1 : a[j] = s[j]
  BY SubSeqProperties
<1>2. /\ b \in Seq(S) /\ Len(b) = Len(s) - k
      /\ \A j \in 1 .. Len(s) - k : b[j] = s[k + j]
  BY SubSeqProperties
<1> HIDE DEF a, b
<1>3. /\ a \o b \in Seq(S)
      /\ Len(a \o b) = Len(a) + Len(b)
      /\ \A j \in 1 .. Len(a) + Len(b) :
           (a \o b)[j] = IF j <= Len(a) THEN a[j] ELSE b[j - Len(a)]
  BY <1>1, <1>2, ConcatProperties
<1>4. k \in Nat /\ Len(s) \in Nat /\ Len(a) + Len(b) = Len(s) - 1
  BY <1>1, <1>2
<1>5. ASSUME NEW j \in 1 .. Len(s) - 1
      PROVE  (a \o b)[j] = IF j < k THEN s[j] ELSE s[j + 1]
  <2>1. CASE j < k
    BY <1>1, <1>3, <1>4, <2>1
  <2>2. CASE ~(j < k)
    <3>1. j - Len(a) \in 1 .. Len(s) - k /\ k + (j - Len(a)) = j + 1
      BY <1>1, <1>4, <2>2
    <3>2. (a \o b)[j] = b[j - Len(a)]
      BY <1>1, <1>3, <1>4, <2>2
    <3> QED
      BY <1>2, <3>1, <3>2, <2>2
  <2> QED
    BY <2>1, <2>2
<1>6. RemoveAt(s, k) = a \o b
  BY DEF RemoveAt, a, b
<1> QED
  BY <1>3, <1>4, <1>5, <1>6

(* The same for putting an element in front. *)
LEMMA PrependElements ==
  ASSUME NEW S, NEW s \in Seq(S), NEW e \in S
  PROVE  /\ <<e>> \o s \in Seq(S)
         /\ Len(<<e>> \o s) = Len(s) + 1
         /\ (<<e>> \o s)[1] = e
         /\ \A j \in 2 .. Len(s) + 1 : (<<e>> \o s)[j] = s[j - 1]
         /\ Head(<<e>> \o s) = e
         /\ Tail(<<e>> \o s) = s
  BY ConcatProperties

(* And for taking the first element away. *)
LEMMA TailElements ==
  ASSUME NEW S, NEW s \in Seq(S), s # << >>
  PROVE  /\ Len(s) \in Nat \ {0}
         /\ Head(s) = s[1] /\ Head(s) \in S
         /\ Tail(s) \in Seq(S)
         /\ Len(Tail(s)) = Len(s) - 1
         /\ \A j \in 1 .. Len(s) - 1 : Tail(s)[j] = s[j + 1]
  BY HeadTailProperties, EmptySeq

(* Taking the first element out leaves the tail. *)
LEMMA RemoveFirstIsTail ==
  ASSUME NEW S, NEW s \in Seq(S), s # << >>
  PROVE  1 \in 1 .. Len(s) /\ s[1] = Head(s) /\ RemoveAt(s, 1) = Tail(s)
<1>1. Len(s) \in Nat \ {0} /\ 1 \in 1 .. Len(s) /\ Head(s) = s[1]
  BY TailElements
<1>2. /\ Tail(s) \in Seq(S) /\ Len(Tail(s)) = Len(s) - 1
      /\ \A j \in 1 .. Len(s) - 1 : Tail(s)[j] = s[j + 1]
  BY TailElements
<1>3. /\ RemoveAt(s, 1) \in Seq(S) /\ Len(RemoveAt(s, 1)) = Len(s) - 1
      /\ \A j \in 1 .. Len(s) - 1 :
           RemoveAt(s, 1)[j] = IF j < 1 THEN s[j] ELSE s[j + 1]
  BY <1>1, RemoveAtElements
<1>4. RemoveAt(s, 1) = Tail(s)
  BY <1>1, <1>2, <1>3, SeqEqual
<1> QED
  BY <1>1, <1>4

-----------------------------------------------------------------------------
(* The same in terms of what is on a list, and of nothing being there      *)
(* twice: an insertion at the tail,                                        *)
LEMMA AppendMembers ==
  ASSUME NEW S, NEW s \in Seq(S), NEW e \in S
  PROVE  /\ Append(s, e) \in Seq(S)
         /\ Append(s, e) # << >>
         /\ \A x : Contains(Append(s, e), x) <=> Contains(s, x) \/ x = e
         /\ IsInjective(s) /\ ~Contains(s, e) => IsInjective(Append(s, e))
<1> DEFINE t == Append(s, e)
<1>1. /\ Len(s) \in Nat /\ DOMAIN s = 1 .. Len(s)
      /\ t \in Seq(S) /\ t # << >> /\ Len(t) = Len(s) + 1 /\ DOMAIN t = 1 .. Len(t)
      /\ \A j \in 1 .. Len(s) : t[j] = s[j]
      /\ t[Len(s) + 1] = e
  BY AppendProperties, LenProperties
<1> HIDE DEF t
<1>2. ASSUME NEW x PROVE Contains(t, x) <=> Contains(s, x) \/ x = e
  BY <1>1 DEF Contains
<1>3. ASSUME IsInjective(s), ~Contains(s, e) PROVE IsInjective(t)
  BY <1>1, <1>3 DEF Contains, IsInjective
<1> QED
  BY <1>1, <1>2, <1>3 DEF t

(* an insertion at the head,                                               *)
LEMMA PrependMembers ==
  ASSUME NEW S, NEW s \in Seq(S), NEW e \in S
  PROVE  /\ <<e>> \o s \in Seq(S)
         /\ \A x : Contains(<<e>> \o s, x) <=> Contains(s, x) \/ x = e
         /\ IsInjective(s) /\ ~Contains(s, e) => IsInjective(<<e>> \o s)
<1> DEFINE t == <<e>> \o s
<1>1. /\ Len(s) \in Nat /\ DOMAIN s = 1 .. Len(s)
      /\ t \in Seq(S) /\ Len(t) = Len(s) + 1 /\ DOMAIN t = 1 .. Len(t)
      /\ \A j \in 2 .. Len(s) + 1 : t[j] = s[j - 1]
      /\ t[1] = e
  BY PrependElements, LenProperties
<1> HIDE DEF t
<1>2. \A j \in 1 .. Len(s) : t[j + 1] = s[j]
  BY <1>1
<1>3. ASSUME NEW x PROVE Contains(t, x) <=> Contains(s, x) \/ x = e
  <2>1. ASSUME Contains(s, x) PROVE Contains(t, x)
    <3>1. PICK j \in 1 .. Len(s) : s[j] = x
      BY <2>1 DEF Contains
    <3> QED
      BY <1>1, <1>2, <3>1 DEF Contains
  <2>2. ASSUME Contains(t, x), x # e PROVE Contains(s, x)
    <3>1. PICK j \in 1 .. Len(t) : t[j] = x
      BY <2>2 DEF Contains
    <3>2. j \in 2 .. Len(s) + 1 /\ j - 1 \in 1 .. Len(s)
      BY <1>1, <2>2, <3>1
    <3> QED
      BY <1>1, <3>1, <3>2 DEF Contains
  <2>3. Contains(t, e)
    BY <1>1 DEF Contains
  <2> QED
    BY <2>1, <2>2, <2>3
<1>4. ASSUME IsInjective(s), ~Contains(s, e) PROVE IsInjective(t)
  <2> SUFFICES ASSUME NEW a \in 1 .. Len(t), NEW b \in 1 .. Len(t),
                      t[a] = t[b], a # b
               PROVE  FALSE
    BY <1>1 DEF IsInjective
  <2>1. \A j \in 2 .. Len(t) : j - 1 \in 1 .. Len(s) /\ t[j] = s[j - 1]
    BY <1>1
  <2>2. CASE a = 1 \/ b = 1
    BY <1>1, <1>4, <2>1, <2>2 DEF Contains
  <2>3. CASE a # 1 /\ b # 1
    <3>1. \A i, j \in 1 .. Len(s) : s[i] = s[j] => i = j
      BY <1>1, <1>4 DEF IsInjective
    <3>2. a \in 2 .. Len(t) /\ b \in 2 .. Len(t)
      BY <1>1, <2>3
    <3>3. a - 1 = b - 1
      BY <2>1, <3>1, <3>2
    <3> QED
      BY <3>2, <3>3
  <2> QED
    BY <2>2, <2>3
<1> QED
  BY <1>1, <1>3, <1>4 DEF t

(* a removal of the k-th,                                                  *)
LEMMA RemoveAtMembers ==
  ASSUME NEW S, NEW s \in Seq(S), NEW k \in 1 .. Len(s)
  PROVE  /\ RemoveAt(s, k) \in Seq(S)
         /\ s[k] \in S /\ Contains(s, s[k])
         /\ \A x : /\ Contains(RemoveAt(s, k), x) => Contains(s, x)
                   /\ Contains(s, x) /\ x # s[k] => Contains(RemoveAt(s, k), x)
         /\ IsInjective(s) => /\ IsInjective(RemoveAt(s, k))
                              /\ ~Contains(RemoveAt(s, k), s[k])
<1> DEFINE t == RemoveAt(s, k)
<1>1. /\ Len(s) \in Nat /\ DOMAIN s = 1 .. Len(s)
      /\ t \in Seq(S) /\ Len(t) = Len(s) - 1 /\ DOMAIN t = 1 .. Len(t)
      /\ \A j \in 1 .. Len(s) - 1 : t[j] = IF j < k THEN s[j] ELSE s[j + 1]
  BY RemoveAtElements, LenProperties
<1> HIDE DEF t
<1>2. s[k] \in S /\ Contains(s, s[k])
  BY ElementOfSeq DEF Contains
<1> DEFINE old(j) == IF j < k THEN j ELSE j + 1
<1>3. \A j \in 1 .. Len(t) : /\ old(j) \in 1 .. Len(s) /\ old(j) # k
                             /\ t[j] = s[old(j)]
  BY <1>1
<1>4. \A i, j \in 1 .. Len(t) : old(i) = old(j) => i = j
  BY <1>1
<1>5. ASSUME NEW j \in 1 .. Len(s), j # k
      PROVE  \E i \in 1 .. Len(t) : t[i] = s[j]
  <2>1. CASE j < k
    BY <1>1, <2>1
  <2>2. CASE ~(j < k)
    <3>1. j - 1 \in 1 .. Len(t) /\ ~(j - 1 < k) /\ (j - 1) + 1 = j
      BY <1>1, <1>5, <2>2
    <3>2. t[j - 1] = s[j]
      BY <1>1, <3>1
    <3> QED
      BY <3>1, <3>2
  <2> QED
    BY <2>1, <2>2
<1> HIDE DEF old
<1>6. ASSUME NEW x PROVE /\ Contains(t, x) => Contains(s, x)
                         /\ Contains(s, x) /\ x # s[k] => Contains(t, x)
  <2>1. Contains(t, x) => Contains(s, x)
    BY <1>3 DEF Contains
  <2>2. Contains(s, x) /\ x # s[k] => Contains(t, x)
    BY <1>5 DEF Contains
  <2> QED
    BY <2>1, <2>2
<1>7. ASSUME IsInjective(s) PROVE IsInjective(t) /\ ~Contains(t, s[k])
  <2>1. \A i, j \in 1 .. Len(s) : s[i] = s[j] => i = j
    BY <1>1, <1>7 DEF IsInjective
  <2>2. ASSUME NEW i \in 1 .. Len(t), NEW j \in 1 .. Len(t), t[i] = t[j]
        PROVE  i = j
    <3>1. old(i) = old(j)
      BY <1>3, <2>1, <2>2
    <3> QED
      BY <1>4, <3>1
  <2>3. ASSUME NEW i \in 1 .. Len(t) PROVE t[i] # s[k]
    BY <1>3, <2>1
  <2>4. IsInjective(t)
    BY <1>1, <2>2 DEF IsInjective
  <2>5. ~Contains(t, s[k])
    BY <2>3 DEF Contains
  <2> QED
    BY <2>4, <2>5
<1> QED
  BY <1>1, <1>2, <1>6, <1>7 DEF t

(* of the first,                                                           *)
LEMMA TailMembers ==
  ASSUME NEW S, NEW s \in Seq(S), s # << >>
  PROVE  /\ Tail(s) \in Seq(S)
         /\ Head(s) \in S /\ Contains(s, Head(s))
         /\ \A x : /\ Contains(Tail(s), x) => Contains(s, x)
                   /\ Contains(s, x) /\ x # Head(s) => Contains(Tail(s), x)
         /\ IsInjective(s) => IsInjective(Tail(s)) /\ ~Contains(Tail(s), Head(s))
<1>1. 1 \in 1 .. Len(s) /\ s[1] = Head(s) /\ RemoveAt(s, 1) = Tail(s)
  BY RemoveFirstIsTail
<1>2. /\ RemoveAt(s, 1) \in Seq(S)
      /\ s[1] \in S /\ Contains(s, s[1])
      /\ \A x : /\ Contains(RemoveAt(s, 1), x) => Contains(s, x)
                /\ Contains(s, x) /\ x # s[1] => Contains(RemoveAt(s, 1), x)
      /\ IsInjective(s) => /\ IsInjective(RemoveAt(s, 1))
                           /\ ~Contains(RemoveAt(s, 1), s[1])
  BY <1>1, RemoveAtMembers
<1> QED
  BY <1>1, <1>2

(* of a given element,                                                     *)
LEMMA RemoveFirstMembers ==
  ASSUME NEW S, NEW s \in Seq(S), NEW e
  PROVE  /\ RemoveFirst(s, e) \in Seq(S)
         /\ \A x : /\ Contains(RemoveFirst(s, e), x) => Contains(s, x)
                   /\ Contains(s, x) /\ x # e => Contains(RemoveFirst(s, e), x)
         /\ IsInjective(s) => /\ IsInjective(RemoveFirst(s, e))
                              /\ ~Contains(RemoveFirst(s, e), e)
<1>1. CASE Contains(s, e)
  <2> DEFINE I == {i \in 1 .. Len(s) : s[i] = e}
             k == SelectInSeq(s, LAMBDA v : v = e)
  <2>1. I \in SUBSET Nat /\ I # {}
    BY <1>1, LenProperties DEF Contains
  <2>2. \E n \in I : \A m \in I : n <= m
    <3>1. PICK n \in I : \A m \in I : <<m, n>> \notin OpToRel(<, Nat)
      BY <2>1, NatLessThanWellFounded, WFMin
    <3>2. ASSUME NEW m \in I PROVE n <= m
      <4>1. m \in Nat /\ n \in Nat /\ <<m, n>> \in Nat \X Nat
        BY <2>1
      <4>2. ~(<<m, n>>[1] < <<m, n>>[2])
        BY <3>1, <4>1 DEF OpToRel
      <4>3. ~(m < n)
        BY <4>2
      <4> QED
        BY <4>1, <4>3
    <3> QED
      BY <3>2
  <2>3. k = Min(I)
    BY <2>1 DEF SelectInSeq
  <2>4. k \in I
    BY <2>2, <2>3 DEF Min
  <2> HIDE DEF k
  <2>5. k \in 1 .. Len(s) /\ s[k] = e
    BY <2>4
  <2>6. RemoveFirst(s, e) = RemoveAt(s, k)
    BY <1>1 DEF RemoveFirst, Contains, k
  <2> QED
    BY <2>5, <2>6, RemoveAtMembers
<1>2. CASE ~Contains(s, e)
  <2>1. RemoveFirst(s, e) = s
    BY <1>2 DEF RemoveFirst, Contains
  <2> QED
    BY <1>2, <2>1
<1> QED
  BY <1>1, <1>2

(* and two lists joined.                                                   *)
LEMMA ConcatMembers ==
  ASSUME NEW S, NEW s \in Seq(S), NEW t \in Seq(S)
  PROVE  /\ s \o t \in Seq(S)
         /\ \A x : Contains(s \o t, x) <=> Contains(s, x) \/ Contains(t, x)
         /\ (/\ IsInjective(s) /\ IsInjective(t)
             /\ \A x : ~(Contains(s, x) /\ Contains(t, x)))
              => IsInjective(s \o t)
<1> DEFINE u == s \o t
<1>1. /\ Len(s) \in Nat /\ DOMAIN s = 1 .. Len(s)
      /\ Len(t) \in Nat /\ DOMAIN t = 1 .. Len(t)
      /\ u \in Seq(S) /\ Len(u) = Len(s) + Len(t) /\ DOMAIN u = 1 .. Len(u)
      /\ \A j \in 1 .. Len(s) + Len(t) :
           u[j] = IF j <= Len(s) THEN s[j] ELSE t[j - Len(s)]
  BY ConcatProperties, LenProperties
<1> HIDE DEF u
<1>2. \A j \in 1 .. Len(u) :
        \/ j \in 1 .. Len(s) /\ u[j] = s[j]
        \/ ~(j \in 1 .. Len(s)) /\ j - Len(s) \in 1 .. Len(t) /\ u[j] = t[j - Len(s)]
  BY <1>1
<1>3. \A j \in 1 .. Len(s) : j \in 1 .. Len(u) /\ u[j] = s[j]
  BY <1>1
<1>4. ASSUME NEW j \in 1 .. Len(t)
      PROVE  Len(s) + j \in 1 .. Len(u) /\ u[Len(s) + j] = t[j]
  <2>1. /\ Len(s) + j \in 1 .. Len(u) /\ ~(Len(s) + j <= Len(s))
        /\ (Len(s) + j) - Len(s) = j
    BY <1>1
  <2> QED
    BY <1>1, <2>1
<1>5. ASSUME NEW x PROVE Contains(u, x) <=> Contains(s, x) \/ Contains(t, x)
  <2>1. Contains(u, x) => Contains(s, x) \/ Contains(t, x)
    BY <1>2 DEF Contains
  <2>2. Contains(s, x) \/ Contains(t, x) => Contains(u, x)
    BY <1>3, <1>4 DEF Contains
  <2> QED
    BY <2>1, <2>2
<1>6. ASSUME IsInjective(s), IsInjective(t), \A x : ~(Contains(s, x) /\ Contains(t, x))
      PROVE  IsInjective(u)
  <2> SUFFICES ASSUME NEW a \in 1 .. Len(u), NEW b \in 1 .. Len(u), u[a] = u[b]
               PROVE  a = b
    BY <1>1 DEF IsInjective
  <2>1. CASE a \in 1 .. Len(s) /\ b \in 1 .. Len(s)
    BY <1>1, <1>3, <1>6, <2>1 DEF IsInjective
  <2>2. CASE a \notin 1 .. Len(s) /\ b \notin 1 .. Len(s)
    <3>1. a - Len(s) = b - Len(s)
      BY <1>1, <1>2, <1>6, <2>2 DEF IsInjective
    <3> QED
      BY <1>1, <3>1
  <2>3. CASE a \in 1 .. Len(s) /\ b \notin 1 .. Len(s)
    <3>1. Contains(s, u[a]) /\ Contains(t, u[b])
      BY <1>2, <2>3 DEF Contains
    <3> QED
      BY <1>6, <3>1
  <2>4. CASE a \notin 1 .. Len(s) /\ b \in 1 .. Len(s)
    <3>1. Contains(t, u[a]) /\ Contains(s, u[b])
      BY <1>2, <2>4 DEF Contains
    <3> QED
      BY <1>6, <3>1
  <2> QED
    BY <2>1, <2>2, <2>3, <2>4
<1> QED
  BY <1>1, <1>5, <1>6 DEF u

(* An empty list has nothing on it.                                        *)
LEMMA EmptyMembers ==
  ASSUME NEW S
  PROVE  /\ << >> \in Seq(S)
         /\ \A x : ~Contains(<< >>, x)
         /\ IsInjective(<< >>)
         /\ \A s \in Seq(S) : (\A x : ~Contains(s, x)) => s = << >>
<1>1. << >> \in Seq(S) /\ \A x : ~Contains(<< >>, x)
  BY DEF Contains
<1>2. IsInjective(<< >>)
  BY DEF IsInjective
<1>3. ASSUME NEW s \in Seq(S), \A x : ~Contains(s, x) PROVE s = << >>
  <2>1. CASE s # << >>
    BY <1>3, <2>1, TailMembers
  <2> QED
    BY <2>1
<1> QED
  BY <1>1, <1>2, <1>3

(* The elements of a sequence, as a set; it is finite, and has as many     *)
(* elements as the sequence is long if none is there twice.                *)
LEMMA SetMembers ==
  ASSUME NEW S, NEW s \in Seq(S)
  PROVE  /\ ToSet(s) \subseteq S /\ IsFiniteSet(ToSet(s))
         /\ \A x : x \in ToSet(s) <=> Contains(s, x)
         /\ IsInjective(s) => Cardinality(ToSet(s)) = Len(s)
<1>1. /\ Len(s) \in Nat /\ DOMAIN s = 1 .. Len(s)
      /\ \A j \in 1 .. Len(s) : s[j] \in S
  BY LenProperties, ElementOfSeq
<1>2. /\ IsFiniteSet(1 .. Len(s))
      /\ Cardinality(1 .. Len(s)) = Len(s)
  <2>1. /\ IsFiniteSet(1 .. Len(s))
        /\ Cardinality(1 .. Len(s)) = IF 1 > Len(s) THEN 0 ELSE Len(s) - 1 + 1
    BY <1>1, FS_Interval
  <2> QED
    BY <1>1, <2>1
<1>3. \A x : x \in ToSet(s) <=> Contains(s, x)
  BY <1>1 DEF ToSet, Contains
<1>4. ToSet(s) \subseteq S
  BY <1>1 DEF ToSet
<1>5. s \in Surjection(1 .. Len(s), ToSet(s))
  BY <1>1 DEF ToSet, Surjection
<1>6. /\ IsFiniteSet(ToSet(s))
      /\ Cardinality(ToSet(s)) = Cardinality(1 .. Len(s))
           <=> s \in Injection(1 .. Len(s), ToSet(s))
  BY <1>2, <1>5, FS_Surjection
<1>7. IsInjective(s) => s \in Injection(1 .. Len(s), ToSet(s))
  BY <1>1, <1>5 DEF IsInjective, Injection, Surjection
<1> QED
  BY <1>2, <1>3, <1>4, <1>6, <1>7

(* A non-empty set of natural numbers has a least element.                 *)
LEMMA LeastElement ==
  ASSUME NEW T \in SUBSET Nat, T # {}
  PROVE  \E n \in T : \A m \in T : ~(m < n)
<1>1. PICK n \in T : \A m \in T : ~(<<m, n>> \in OpToRel(<, Nat))
  BY NatLessThanWellFounded, WFMin
<1> QED
  BY <1>1 DEF OpToRel

(* What holds at the beginning of a range, and at each further place when  *)
(* it holds at the one before, holds at all.                               *)
LEMMA RangeInduction ==
  ASSUME NEW n \in Nat, NEW T, 0 \in T, \A k \in 1 .. n : k - 1 \in T => k \in T
  PROVE  0 .. n \subseteq T
<1> DEFINE bad == {k \in Nat : k \in 0 .. n /\ k \notin T}
<1>1. SUFFICES ASSUME bad # {} PROVE FALSE
  OBVIOUS
<1>2. PICK k \in bad : \A m \in bad : ~(m < k)
  BY <1>1, LeastElement
<1>3. k \in 1 .. n
  BY <1>2
<1>4. k - 1 \in T
  BY <1>2, <1>3
<1> QED
  BY <1>2, <1>3, <1>4

(* A recursion along a range has a solution.                               *)
Solves(f, n, A, base, step) ==
  /\ f \in [0 .. n -> A] /\ f[0] = base
  /\ \A k \in 1 .. n : f[k] = step[<<f[k - 1], k>>]

LEMMA RangeRecursion ==
  ASSUME NEW n \in Nat, NEW A, NEW base \in A, NEW step \in [A \X (1 .. n) -> A]
  PROVE  \E f : Solves(f, n, A, base, step)
<1> DEFINE T == {m \in 0 .. n : \E f : Solves(f, m, A, base, step)}
<1>1. 0 \in T
  <2> DEFINE f == [k \in 0 .. 0 |-> base]
  <2>1. Solves(f, 0, A, base, step)
    BY DEF Solves
  <2>2. 0 \in 0 .. n
    OBVIOUS
  <2> HIDE DEF f
  <2> QED
    BY <2>1, <2>2
<1>2. ASSUME NEW m \in 1 .. n, m - 1 \in T PROVE m \in T
  <2>1. PICK f : Solves(f, m - 1, A, base, step)
    BY <1>2
  <2> DEFINE g == [k \in 0 .. m |-> IF k = m THEN step[<<f[m - 1], m>>] ELSE f[k]]
  <2>2. step[<<f[m - 1], m>>] \in A
    BY <2>1 DEF Solves
  <2>3. g \in [0 .. m -> A] /\ g[0] = base
    <3>1. f[0] = base /\ \A k \in 0 .. m - 1 : f[k] \in A
      BY <2>1 DEF Solves
    <3>2. \A k \in 0 .. m : k = m \/ k \in 0 .. m - 1
      OBVIOUS
    <3> QED
      BY <2>2, <3>1, <3>2
  <2>4. ASSUME NEW k \in 1 .. m PROVE g[k] = step[<<g[k - 1], k>>]
    <3>1. k - 1 \in 0 .. m - 1 /\ g[k - 1] = f[k - 1]
      OBVIOUS
    <3>2. CASE k = m
      <4>1. m \in 0 .. m /\ g[m] = step[<<f[m - 1], m>>]
        OBVIOUS
      <4> HIDE DEF g
      <4> QED
        BY <3>1, <3>2, <4>1
    <3>3. CASE k # m
      <4>1. k \in 1 .. m - 1
        BY <3>3
      <4> QED
        BY <2>1, <3>1, <4>1 DEF Solves
    <3> QED
      BY <3>2, <3>3
  <2>5. Solves(g, m, A, base, step)
    BY <2>3, <2>4 DEF Solves
  <2> HIDE DEF g
  <2> QED
    BY <2>5
<1>3. n \in T
  <2> HIDE DEF T
  <2>1. 0 .. n \subseteq T
    BY <1>1, <1>2, RangeInduction
  <2> QED
    BY <2>1
<1> QED
  BY <1>3

(* Two recursions take the same course as long as their steps are the same. *)
LEMMA SolutionsAgree ==
  ASSUME NEW m \in Nat, NEW n \in Nat, m <= n, NEW A, NEW base,
         NEW step, NEW other, NEW f, NEW g,
         Solves(f, m, A, base, step), Solves(g, n, A, base, other),
         \A a \in A : \A k \in 1 .. m : step[<<a, k>>] = other[<<a, k>>]
  PROVE  f[m] = g[m]
<1> DEFINE T == {k \in 0 .. m : f[k] = g[k]}
<1>1. 0 \in T
  BY DEF Solves
<1>2. ASSUME NEW k \in 1 .. m, k - 1 \in T PROVE k \in T
  <2>1. k \in 1 .. n /\ k - 1 \in 0 .. m
    OBVIOUS
  <2>2. f[k - 1] = g[k - 1] /\ f[k - 1] \in A
    BY <1>2, <2>1 DEF Solves
  <2>3. f[k] = step[<<f[k - 1], k>>] /\ g[k] = other[<<g[k - 1], k>>]
    BY <2>1 DEF Solves
  <2> QED
    BY <2>2, <2>3
<1> HIDE DEF T
<1>3. 0 .. m \subseteq T
  BY <1>1, <1>2, RangeInduction
<1> QED
  BY <1>3 DEF T

(* A sequence that is not empty is its front with its last element.        *)
LEMMA FrontLast ==
  ASSUME NEW S, NEW s \in Seq(S), s # << >>
  PROVE  /\ Front(s) \in Seq(S) /\ Last(s) \in S /\ Len(s) \in Nat \ {0}
         /\ Len(Front(s)) = Len(s) - 1 /\ Last(s) = s[Len(s)]
         /\ \A i \in 1 .. Len(s) - 1 : Front(s)[i] = s[i]
         /\ s = Append(Front(s), Last(s))
<1>1. Len(s) \in Nat \ {0} /\ Len(s) \in 1 .. Len(s)
  BY LenProperties
<1>2. /\ Front(s) \in Seq(S) /\ Len(Front(s)) = Len(s) - 1
      /\ \A i \in 1 .. Len(s) - 1 : Front(s)[i] = s[i]
  <2> DEFINE n == Len(s) - 1
  <2>1. n \in Nat /\ \A i \in 1 .. n : s[i] \in S
    BY <1>1, ElementOfSeq
  <2> HIDE DEF n
  <2>2. /\ SubSeq(s, 1, n) \in Seq(S)
        /\ Len(SubSeq(s, 1, n)) = IF 1 <= n THEN n - 1 + 1 ELSE 0
        /\ \A i \in 1 .. n - 1 + 1 : SubSeq(s, 1, n)[i] = s[1 + i - 1]
    BY <2>1, SubSeqProperties
  <2>3. /\ Len(SubSeq(s, 1, n)) = n
        /\ \A i \in 1 .. n : SubSeq(s, 1, n)[i] = s[i]
    BY <2>1, <2>2
  <2> QED
    BY <2>2, <2>3 DEF Front, n
<1>3. Last(s) \in S /\ Last(s) = s[Len(s)]
  BY <1>1, ElementOfSeq DEF Last
<1>4. s = Append(Front(s), Last(s))
  BY <1>1, <1>2, <1>3
<1> QED
  BY <1>1, <1>2, <1>3, <1>4

(* SetToSeq puts the elements of a finite set in some order.               *)
LEMMA SetToSeqMembers ==
  ASSUME NEW S, IsFiniteSet(S)
  PROVE  /\ SetToSeq(S) \in Seq(S)
         /\ \A x : Contains(SetToSeq(S), x) <=> x \in S
<1> DEFINE n == Cardinality(S)
           s == SetToSeq(S)
<1>1. n \in Nat /\ \E f : f \in Bijection(1 .. n, S)
  BY FS_CardinalityType DEF ExistsBijection
<1>2. \E f \in [1 .. n -> S] : IsInjective(f)
  BY <1>1 DEF Bijection, Injection
<1>3. s \in [1 .. n -> S] /\ IsInjective(s)
  BY <1>2 DEF SetToSeq
<1> HIDE DEF s
<1>4. s \in Injection(1 .. n, S)
  BY <1>3 DEF Injection
<1>5. IsFiniteSet(1 .. n) /\ Cardinality(1 .. n) = n
  BY <1>1, FS_Interval
<1>6. s \in Surjection(1 .. n, S)
  BY <1>4, <1>5, FS_Injection
<1>7. s \in Seq(S) /\ Len(s) = n
  BY <1>1, <1>3
<1>8. ASSUME NEW x PROVE Contains(s, x) <=> x \in S
  BY <1>3, <1>6, <1>7 DEF Surjection, Contains
<1> QED
  BY <1>7, <1>8 DEF s
=============================================================================
