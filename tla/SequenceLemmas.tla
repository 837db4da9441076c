--------------------------- MODULE SequenceLemmas ----------------------------
(***************************************************************************)
(* What the list operations of the code, QList::insert, removeAt,          *)
(* removeAt( indexOf() ) and removeAll, do to the elements of a list:      *)
(* InsertAt, RemoveAt and RemoveFirst of SequencesExt, Without; and what    *)
(* FoldFunction computes when it adds the values of a function.            *)
(***************************************************************************)
EXTENDS SequencesExt, QtLists, SequenceTheorems, FiniteSetTheorems,
        NaturalsInduction, TLAPS

\* What fails for a number fails for a least one: induction, for facts that
\* the library's theorems, which have an operator as a parameter, cannot be
\* used for.
LEMMA LeastNatural ==
  ASSUME NEW S, S \subseteq Nat, S # {}
  PROVE  \E m \in S : \A k \in S : m <= k
<1> DEFINE R == {ss \in Nat \X Nat : ss[1] < ss[2]}
<1>1. IsWellFoundedOn(R, Nat)
  BY NatLessThanWellFounded, Zenon DEF OpToRel
<1> HIDE DEF R
<1>2. PICK x \in S : \A y \in S : ~ (<<y, x>> \in R)
  BY <1>1, WFMin, Zenon
<1>3. ASSUME NEW y \in S PROVE x <= y
  <2>1. SUFFICES ASSUME y < x PROVE <<y, x>> \in R
    BY <1>2
  <2>2. <<y, x>> \in Nat \X Nat /\ <<y, x>>[1] < <<y, x>>[2]
    BY <2>1
  <2> QED BY <2>2, Zenon DEF R
<1> QED BY <1>3

\* Min returns it.
LEMMA MinOfNaturals ==
  ASSUME NEW S, S \subseteq Nat, S # {}
  PROVE  Min(S) \in S
BY LeastNatural DEF Min

\* QList::insert.
LEMMA InsertAtFacts ==
  ASSUME NEW S, NEW s \in Seq(S), NEW e \in S, NEW i \in 1..(Len(s) + 1)
  PROVE  /\ InsertAt(s, i, e) \in Seq(S)
         /\ Len(InsertAt(s, i, e)) = Len(s) + 1
         /\ \A k \in 1..(Len(s) + 1) :
              InsertAt(s, i, e)[k] = IF k < i THEN s[k]
                                     ELSE IF k = i THEN e ELSE s[k - 1]
<1> DEFINE p == SubSeq(s, 1, i - 1)
           q == SubSeq(s, i, Len(s))
<1>0. Len(s) \in Nat /\ \A k \in 1..Len(s) : s[k] \in S
  BY LenProperties, ElementOfSeq
<1>1. /\ p \in Seq(S) /\ Len(p) = i - 1
      /\ \A k \in 1..(i - 1) : p[k] = s[k]
  <2>1. 1 \in Int /\ i - 1 \in Int /\ \A k \in 1..(i - 1) : s[k] \in S
    BY <1>0
  <2>2. /\ p \in Seq(S) /\ Len(p) = IF 1 <= i - 1 THEN (i - 1) - 1 + 1 ELSE 0
        /\ \A k \in 1..((i - 1) - 1 + 1) : p[k] = s[1 + k - 1]
    BY <2>1, SubSeqProperties, SMT
  <2> HIDE DEF p
  <2> QED BY <2>2, <1>0
<1>2. /\ q \in Seq(S) /\ Len(q) = Len(s) - i + 1
      /\ \A k \in 1..(Len(s) - i + 1) : q[k] = s[i + k - 1]
  <2>1. i \in Int /\ Len(s) \in Int /\ \A k \in i..Len(s) : s[k] \in S
    BY <1>0
  <2>2. /\ q \in Seq(S) /\ Len(q) = IF i <= Len(s) THEN Len(s) - i + 1 ELSE 0
        /\ \A k \in 1..(Len(s) - i + 1) : q[k] = s[i + k - 1]
    BY <2>1, SubSeqProperties, SMT
  <2> HIDE DEF q
  <2> QED BY <2>2, <1>0
<1>3. <<e>> \in Seq(S) /\ Len(<<e>>) = 1 /\ <<e>>[1] = e
  OBVIOUS
<1> HIDE DEF p, q
<1>4. /\ p \o <<e>> \in Seq(S) /\ Len(p \o <<e>>) = i
      /\ \A k \in 1..i : (p \o <<e>>)[k] = IF k < i THEN s[k] ELSE e
  BY <1>1, <1>3, ConcatProperties
<1> DEFINE pe == p \o <<e>>
<1>5. /\ pe \o q \in Seq(S)
      /\ Len(pe \o q) = i + Len(q)
      /\ \A k \in 1..(i + Len(q)) : (pe \o q)[k] =
            IF k <= i THEN pe[k] ELSE q[k - i]
  <2>1. pe \in Seq(S) /\ Len(pe) = i
    BY <1>4
  <2> HIDE DEF pe
  <2>2. /\ pe \o q \in Seq(S)
        /\ Len(pe \o q) = Len(pe) + Len(q)
        /\ \A k \in 1..(Len(pe) + Len(q)) : (pe \o q)[k] =
              IF k <= Len(pe) THEN pe[k] ELSE q[k - Len(pe)]
    BY <1>2, <2>1, ConcatProperties
  <2> QED BY <2>1, <2>2
<1>6. InsertAt(s, i, e) = (p \o <<e>>) \o q
  BY DEF InsertAt, p, q
<1> QED BY <1>0, <1>2, <1>4, <1>5, <1>6

\* QList::removeAt.
LEMMA RemoveAtFacts ==
  ASSUME NEW S, NEW s \in Seq(S), NEW i \in 1..Len(s)
  PROVE  /\ RemoveAt(s, i) \in Seq(S)
         /\ Len(RemoveAt(s, i)) = Len(s) - 1
         /\ \A k \in 1..(Len(s) - 1) :
              RemoveAt(s, i)[k] = IF k < i THEN s[k] ELSE s[k + 1]
<1> DEFINE p == SubSeq(s, 1, i - 1)
           q == SubSeq(s, i + 1, Len(s))
<1>0. Len(s) \in Nat /\ \A k \in 1..Len(s) : s[k] \in S
  BY LenProperties, ElementOfSeq
<1>1. /\ p \in Seq(S) /\ Len(p) = i - 1
      /\ \A k \in 1..(i - 1) : p[k] = s[k]
  <2>1. 1 \in Int /\ i - 1 \in Int /\ \A k \in 1..(i - 1) : s[k] \in S
    BY <1>0
  <2>2. /\ p \in Seq(S) /\ Len(p) = IF 1 <= i - 1 THEN (i - 1) - 1 + 1 ELSE 0
        /\ \A k \in 1..((i - 1) - 1 + 1) : p[k] = s[1 + k - 1]
    BY <2>1, SubSeqProperties, SMT
  <2> HIDE DEF p
  <2> QED BY <2>2, <1>0
<1>2. /\ q \in Seq(S) /\ Len(q) = Len(s) - i
      /\ \A k \in 1..(Len(s) - i) : q[k] = s[i + k]
  <2>1. i + 1 \in Int /\ Len(s) \in Int /\ \A k \in (i + 1)..Len(s) : s[k] \in S
    BY <1>0
  <2>2. /\ q \in Seq(S)
        /\ Len(q) = IF i + 1 <= Len(s) THEN Len(s) - (i + 1) + 1 ELSE 0
        /\ \A k \in 1..(Len(s) - (i + 1) + 1) : q[k] = s[(i + 1) + k - 1]
    BY <2>1, SubSeqProperties, SMT
  <2> HIDE DEF q
  <2> QED BY <2>2, <1>0
<1> HIDE DEF p, q
<1>3. /\ p \o q \in Seq(S)
      /\ Len(p \o q) = Len(p) + Len(q)
      /\ \A k \in 1..(Len(p) + Len(q)) : (p \o q)[k] =
            IF k <= Len(p) THEN p[k] ELSE q[k - Len(p)]
  BY <1>1, <1>2, ConcatProperties
<1>4. RemoveAt(s, i) = p \o q
  BY DEF RemoveAt, p, q
<1>5. ASSUME NEW k \in 1..(Len(s) - 1)
      PROVE  (p \o q)[k] = IF k < i THEN s[k] ELSE s[k + 1]
  <2>1. CASE k < i
    BY <1>0, <1>1, <1>2, <1>3, <2>1
  <2>2. CASE ~(k < i)
    <3>1. (p \o q)[k] = q[k - (i - 1)] /\ k - (i - 1) \in 1..(Len(s) - i)
      BY <1>0, <1>1, <1>2, <1>3, <2>2
    <3> QED BY <1>0, <1>2, <2>2, <3>1
  <2> QED BY <2>1, <2>2
<1> QED BY <1>0, <1>1, <1>2, <1>3, <1>4, <1>5

\* removeAt( indexOf( e ) ) is a removeAt at a position that holds e.
LEMMA RemoveFirstIsRemoveAt ==
  ASSUME NEW S, NEW s \in Seq(S), NEW e, e \in ToSet(s)
  PROVE  \E i \in 1..Len(s) : s[i] = e /\ RemoveFirst(s, e) = RemoveAt(s, i)
<1> DEFINE I == {i \in 1..Len(s) : s[i] = e}
<1>0. Len(s) \in Nat /\ DOMAIN s = 1..Len(s)
  BY LenProperties
<1>1. I # {} /\ I \subseteq Nat
  BY <1>0 DEF ToSet
<1>2. Min(I) \in I
  <2> HIDE DEF I
  <2> QED BY <1>1, MinOfNaturals
<1>3. \E i \in 1..Len(s) : s[i] = e
  BY <1>1
<1>4. RemoveFirst(s, e) = RemoveAt(s, Min(I))
  BY <1>1, <1>3, Zenon DEF RemoveFirst, SelectInSeq
<1> QED BY <1>2, <1>4

-----------------------------------------------------------------------------
(* The same operations seen as operations on the set of elements.          *)

LEMMA InsertAtSet ==
  ASSUME NEW S, NEW s \in Seq(S), NEW e \in S, NEW i \in 1..(Len(s) + 1)
  PROVE  /\ ToSet(InsertAt(s, i, e)) = ToSet(s) \cup {e}
         /\ IsInjective(s) /\ e \notin ToSet(s) => IsInjective(InsertAt(s, i, e))
<1> DEFINE t == InsertAt(s, i, e)
<1>1. /\ Len(s) \in Nat /\ DOMAIN s = 1..Len(s)
      /\ t \in Seq(S) /\ Len(t) = Len(s) + 1 /\ DOMAIN t = 1..(Len(s) + 1)
      /\ \A k \in 1..(Len(s) + 1) :
           t[k] = IF k < i THEN s[k] ELSE IF k = i THEN e ELSE s[k - 1]
  BY InsertAtFacts, LenProperties
<1> HIDE DEF t
<1>2. ASSUME NEW x \in ToSet(t) PROVE x \in ToSet(s) \cup {e}
  <2>1. PICK k \in 1..(Len(s) + 1) : t[k] = x
    BY <1>1 DEF ToSet
  <2>2. CASE k = i
    BY <1>1, <2>1, <2>2
  <2>3. CASE k # i
    <3>1. PICK n \in 1..Len(s) : s[n] = x
      BY <1>1, <2>1, <2>3
    <3> QED BY <1>1, <3>1 DEF ToSet
  <2> QED BY <2>2, <2>3
<1>3. ASSUME NEW x \in ToSet(s) PROVE x \in ToSet(t)
  <2>1. PICK k \in 1..Len(s) : s[k] = x
    BY <1>1 DEF ToSet
  <2>2. CASE k < i
    <3>1. k \in DOMAIN t /\ t[k] = x
      BY <1>1, <2>1, <2>2
    <3> QED BY <3>1 DEF ToSet
  <2>3. CASE ~(k < i)
    <3>1. k + 1 \in DOMAIN t /\ t[k + 1] = x
      BY <1>1, <2>1, <2>3
    <3> QED BY <3>1 DEF ToSet
  <2> QED BY <2>2, <2>3
<1>4. e \in ToSet(t)
  <2>1. i \in DOMAIN t /\ t[i] = e
    BY <1>1
  <2> QED BY <2>1 DEF ToSet
<1>5. ASSUME IsInjective(s), e \notin ToSet(s) PROVE IsInjective(t)
  <2>1. \A k \in 1..Len(s) : s[k] # e
    BY <1>1, <1>5 DEF ToSet
  <2>2. \A m, n \in 1..Len(s) : s[m] = s[n] => m = n
    BY <1>1, <1>5 DEF IsInjective
  <2>3. ASSUME NEW m \in DOMAIN t, NEW n \in DOMAIN t, t[m] = t[n], m < n
        PROVE  FALSE
    <3>1. CASE n < i
      BY <1>1, <2>2, <2>3, <3>1
    <3>2. CASE n = i
      BY <1>1, <2>1, <2>3, <3>2
    <3>3. CASE n > i /\ m < i
      BY <1>1, <2>2, <2>3, <3>3
    <3>4. CASE n > i /\ m = i
      BY <1>1, <2>1, <2>3, <3>4
    <3>5. CASE n > i /\ m > i
      BY <1>1, <2>2, <2>3, <3>5
    <3> QED BY <1>1, <3>1, <3>2, <3>3, <3>4, <3>5
  <2> QED BY <1>1, <2>3 DEF IsInjective
<1> QED BY <1>2, <1>3, <1>4, <1>5 DEF t

LEMMA RemoveAtSet ==
  ASSUME NEW S, NEW s \in Seq(S), NEW i \in 1..Len(s), IsInjective(s)
  PROVE  /\ IsInjective(RemoveAt(s, i))
         /\ ToSet(RemoveAt(s, i)) = ToSet(s) \ {s[i]}
<1> DEFINE t == RemoveAt(s, i)
<1>1. /\ Len(s) \in Nat /\ DOMAIN s = 1..Len(s)
      /\ t \in Seq(S) /\ Len(t) = Len(s) - 1 /\ DOMAIN t = 1..(Len(s) - 1)
      /\ \A k \in 1..(Len(s) - 1) : t[k] = IF k < i THEN s[k] ELSE s[k + 1]
  BY RemoveAtFacts, LenProperties
<1>2. \A m, n \in 1..Len(s) : s[m] = s[n] => m = n
  BY <1>1 DEF IsInjective
<1> HIDE DEF t
<1>3. ASSUME NEW x \in ToSet(t) PROVE x \in ToSet(s) \ {s[i]}
  <2>1. PICK k \in 1..(Len(s) - 1) : t[k] = x
    BY <1>1 DEF ToSet
  <2>2. \E n \in 1..Len(s) : n # i /\ s[n] = x
    BY <1>1, <2>1
  <2> QED BY <1>1, <1>2, <2>2 DEF ToSet
<1>4. ASSUME NEW x \in ToSet(s) \ {s[i]} PROVE x \in ToSet(t)
  <2>1. PICK k \in 1..Len(s) : s[k] = x /\ k # i
    BY <1>1 DEF ToSet
  <2>2. CASE k < i
    <3>1. k \in DOMAIN t /\ t[k] = x
      BY <1>1, <2>1, <2>2
    <3> QED BY <3>1 DEF ToSet
  <2>3. CASE k > i
    <3>1. k - 1 \in DOMAIN t /\ t[k - 1] = x
      BY <1>1, <2>1, <2>3
    <3> QED BY <3>1 DEF ToSet
  <2> QED BY <1>1, <2>1, <2>2, <2>3
<1>5. IsInjective(t)
  <2>1. ASSUME NEW m \in DOMAIN t, NEW n \in DOMAIN t, t[m] = t[n], m < n
        PROVE  FALSE
    <3>1. CASE n < i
      BY <1>1, <1>2, <2>1, <3>1
    <3>2. CASE ~(n < i) /\ m < i
      BY <1>1, <1>2, <2>1, <3>2
    <3>3. CASE ~(n < i) /\ ~(m < i)
      BY <1>1, <1>2, <2>1, <3>3
    <3> QED BY <1>1, <3>1, <3>2, <3>3
  <2> QED BY <1>1, <2>1 DEF IsInjective
<1> QED BY <1>3, <1>4, <1>5 DEF t

LEMMA RemoveFirstSet ==
  ASSUME NEW S, NEW s \in Seq(S), NEW e
  PROVE  /\ RemoveFirst(s, e) \in Seq(S)
         /\ IsInjective(s) => /\ IsInjective(RemoveFirst(s, e))
                              /\ ToSet(RemoveFirst(s, e)) = ToSet(s) \ {e}
<1>1. CASE e \in ToSet(s)
  <2>1. PICK i \in 1..Len(s) : s[i] = e /\ RemoveFirst(s, e) = RemoveAt(s, i)
    BY <1>1, RemoveFirstIsRemoveAt
  <2>2. RemoveAt(s, i) \in Seq(S)
    BY RemoveAtFacts
  <2>3. IsInjective(s) => /\ IsInjective(RemoveAt(s, i))
                          /\ ToSet(RemoveAt(s, i)) = ToSet(s) \ {s[i]}
    BY RemoveAtSet
  <2> QED BY <2>1, <2>2, <2>3
<1>2. CASE e \notin ToSet(s)
  <2>1. DOMAIN s = 1..Len(s)
    BY LenProperties
  <2>2. ~ \E i \in 1..Len(s) : s[i] = e
    BY <1>2, <2>1 DEF ToSet
  <2>3. RemoveFirst(s, e) = s
    BY <2>2, Zenon DEF RemoveFirst
  <2> QED BY <1>2, <2>3
<1> QED BY <1>1, <1>2

LEMMA AppendSet ==
  ASSUME NEW S, NEW s \in Seq(S), NEW e \in S
  PROVE  /\ Append(s, e) \in Seq(S)
         /\ ToSet(Append(s, e)) = ToSet(s) \cup {e}
         /\ IsInjective(s) /\ e \notin ToSet(s) => IsInjective(Append(s, e))
<1> DEFINE t == Append(s, e)
<1>1. /\ Len(s) \in Nat /\ DOMAIN s = 1..Len(s)
      /\ t \in Seq(S) /\ DOMAIN t = 1..(Len(s) + 1)
      /\ \A k \in 1..(Len(s) + 1) : t[k] = IF k <= Len(s) THEN s[k] ELSE e
  BY AppendProperties, LenProperties
<1> HIDE DEF t
<1>2. ToSet(t) = ToSet(s) \cup {e}
  <2>1. Len(s) + 1 \in DOMAIN t /\ t[Len(s) + 1] = e
    BY <1>1
  <2>2. ASSUME NEW x \in ToSet(s) PROVE x \in ToSet(t)
    BY <1>1 DEF ToSet
  <2>3. ASSUME NEW x \in ToSet(t) PROVE x \in ToSet(s) \cup {e}
    BY <1>1 DEF ToSet
  <2> QED BY <2>1, <2>2, <2>3 DEF ToSet
<1>3. ASSUME IsInjective(s), e \notin ToSet(s) PROVE IsInjective(t)
  BY <1>1, <1>3 DEF IsInjective, ToSet
<1> QED BY <1>1, <1>2, <1>3 DEF t

\* The recursion of Without, up to the entry n.
Kept(list, E, n, f) ==
  f = [i \in 0..n |->
        IF i = 0 THEN <<>>
        ELSE IF list[i] \in E THEN f[i - 1] ELSE Append(f[i - 1], list[i])]

LEMMA KeptExists ==
  ASSUME NEW S, NEW list \in Seq(S), NEW E, NEW n \in 0..Len(list)
  PROVE  \E f : Kept(list, E, n, f)
<1> DEFINE Bad == {k \in 0..Len(list) : ~ \E f : Kept(list, E, k, f)}
<1>0. Len(list) \in Nat
  OBVIOUS
<1>1. SUFFICES ASSUME Bad # {} PROVE FALSE
  BY <1>0, Zenon
<1>2. PICK m \in Bad : \A k \in Bad : m <= k
  <2>1. Bad \subseteq Nat
    BY <1>0
  <2> HIDE DEF Bad
  <2> QED BY <1>1, <2>1, LeastNatural
<1>3. m \in 0..Len(list) /\ ~ \E f : Kept(list, E, m, f)
  BY <1>2
<1>4. m # 0
  <2>1. Kept(list, E, 0, [i \in 0..0 |-> <<>>])
    BY DEF Kept
  <2> QED BY <1>3, <2>1
<1>5. m - 1 \in 0..Len(list) /\ m - 1 \notin Bad
  BY <1>0, <1>2, <1>3, <1>4
<1>6. PICK f : Kept(list, E, m - 1, f)
  BY <1>5
<1> DEFINE e(i) == IF list[i] \in E THEN f[i - 1] ELSE Append(f[i - 1], list[i])
           g == [i \in 0..m |-> IF i = 0 THEN <<>> ELSE e(i)]
<1>7. ASSUME NEW i \in 0..(m - 1) PROVE g[i] = f[i]
  <2>1. f[i] = IF i = 0 THEN <<>> ELSE e(i)
    BY <1>6, <1>7 DEF Kept
  <2>2. i \in 0..m
    BY <1>0, <1>3
  <2> HIDE DEF e
  <2> QED BY <2>1, <2>2
<1>8. Kept(list, E, m, g)
  <2>1. ASSUME NEW i \in 0..m, i # 0 PROVE g[i - 1] = f[i - 1]
    <3>1. i - 1 \in 0..(m - 1)
      BY <1>0, <1>3, <2>1
    <3> HIDE DEF g
    <3> QED BY <3>1, <1>7
  <2>2. ASSUME NEW i \in 0..m
        PROVE  (IF i = 0 THEN <<>> ELSE e(i)) =
               (IF i = 0 THEN <<>>
                ELSE IF list[i] \in E THEN g[i - 1] ELSE Append(g[i - 1], list[i]))
    <3> HIDE DEF g
    <3> QED BY <2>1, <2>2
  <2>3. g = [i \in 0..m |->
              IF i = 0 THEN <<>>
              ELSE IF list[i] \in E THEN g[i - 1] ELSE Append(g[i - 1], list[i])]
    BY <2>2, Zenon
  <2> HIDE DEF g
  <2> QED BY <2>3 DEF Kept
<1> HIDE DEF g
<1> QED BY <1>3, <1>8

LEMMA WithoutIs ==
  ASSUME NEW S, NEW list \in Seq(S), NEW E
  PROVE  \E f : Kept(list, E, Len(list), f) /\ Without(list, E) = f[Len(list)]
<1> DEFINE F == CHOOSE f : Kept(list, E, Len(list), f)
<1>1. Kept(list, E, Len(list), F)
  BY KeptExists
<1>2. Without(list, E) = F[Len(list)]
  BY DEF Without, Kept
<1> QED BY <1>1, <1>2

\* QList::removeAll.
LEMMA WithoutSet ==
  ASSUME NEW S, NEW s \in Seq(S), NEW E
  PROVE  /\ Without(s, E) \in Seq(S)
         /\ ToSet(Without(s, E)) = ToSet(s) \ E
         /\ IsInjective(s) => IsInjective(Without(s, E))
<1>0. Len(s) \in Nat /\ DOMAIN s = 1..Len(s) /\ \A k \in 1..Len(s) : s[k] \in S
  OBVIOUS
<1>1. PICK f : Kept(s, E, Len(s), f) /\ Without(s, E) = f[Len(s)]
  BY WithoutIs, Zenon
<1>2. f[0] = <<>>
  BY <1>0, <1>1 DEF Kept
<1>3. ASSUME NEW i \in 1..Len(s)
      PROVE  f[i] = IF s[i] \in E THEN f[i - 1] ELSE Append(f[i - 1], s[i])
  <2>1. i \in 0..Len(s) /\ i # 0
    BY <1>0
  <2>2. \A k \in 0..Len(s) :
          f[k] = IF k = 0 THEN <<>>
                 ELSE IF s[k] \in E THEN f[k - 1] ELSE Append(f[k - 1], s[k])
    BY <1>1, Zenon DEF Kept
  <2> QED BY <2>1, <2>2
<1> DEFINE First(n) == {s[k] : k \in 1..n}
           Good(n) == /\ f[n] \in Seq(S) /\ ToSet(f[n]) = First(n) \ E
                      /\ IsInjective(s) => IsInjective(f[n])
           Bad == {n \in 0..Len(s) : ~Good(n)}
<1>4. Bad = {}
  <2>1. SUFFICES ASSUME Bad # {} PROVE FALSE
    OBVIOUS
  <2>2. PICK m \in Bad : \A k \in Bad : m <= k
    <3>1. Bad \subseteq Nat
      BY <1>0
    <3> HIDE DEF Bad
    <3> QED BY <2>1, <3>1, LeastNatural
  <2>3. m \in 0..Len(s) /\ ~Good(m)
    BY <2>2
  <2>4. Good(0)
    <3>1. ToSet(<<>>) = {} /\ IsInjective(<<>>) /\ <<>> \in Seq(S)
      BY DEF ToSet, IsInjective
    <3>2. First(0) = {}
      BY <1>0
    <3> HIDE DEF First
    <3> QED BY <1>2, <3>1, <3>2
  <2>5. m \in 1..Len(s) /\ m - 1 \in 0..Len(s) /\ m - 1 \notin Bad
    <3> HIDE DEF Good
    <3> QED BY <1>0, <2>2, <2>3, <2>4
  <2>6. Good(m - 1)
    <3> HIDE DEF Good
    <3> QED BY <2>5
  <2>7. First(m) = First(m - 1) \cup {s[m]}
    BY <1>0, <2>5
  <2>8. CASE s[m] \in E
    <3>1. f[m] = f[m - 1]
      BY <1>3, <2>5, <2>8
    <3> HIDE DEF First
    <3> QED BY <2>3, <2>6, <2>7, <2>8, <3>1
  <2>9. CASE s[m] \notin E
    <3>1. f[m] = Append(f[m - 1], s[m]) /\ s[m] \in S
      BY <1>0, <1>3, <2>5, <2>9
    <3>2. IsInjective(s) => s[m] \notin First(m - 1)
      BY <1>0, <2>5 DEF IsInjective
    <3> HIDE DEF First
    <3>3. /\ f[m] \in Seq(S) /\ ToSet(f[m]) = ToSet(f[m - 1]) \cup {s[m]}
          /\ IsInjective(f[m - 1]) /\ s[m] \notin ToSet(f[m - 1]) => IsInjective(f[m])
      BY <2>6, <3>1, AppendSet
    <3> QED BY <2>3, <2>6, <2>7, <2>9, <3>2, <3>3
  <2> QED BY <2>8, <2>9
<1>5. Good(Len(s))
  <2> HIDE DEF Good
  <2> QED BY <1>0, <1>4
<1>6. First(Len(s)) = ToSet(s)
  BY <1>0 DEF ToSet
<1> HIDE DEF First
<1> QED BY <1>1, <1>5, <1>6

\* QList::takeFirst.
LEMMA TailSet ==
  ASSUME NEW S, NEW s \in Seq(S), s # <<>>
  PROVE  /\ Tail(s) \in Seq(S) /\ Head(s) \in ToSet(s)
         /\ IsInjective(s) => /\ ToSet(Tail(s)) = ToSet(s) \ {Head(s)}
                              /\ IsInjective(Tail(s))
<1>1. /\ Len(s) \in Nat \ {0} /\ DOMAIN s = 1..Len(s)
      /\ Tail(s) \in Seq(S) /\ Head(s) = s[1]
      /\ DOMAIN Tail(s) = 1..(Len(s) - 1)
      /\ \A k \in 1..(Len(s) - 1) : Tail(s)[k] = s[k + 1]
  OBVIOUS
<1>2. Head(s) \in ToSet(s)
  BY <1>1 DEF ToSet
<1>3. ASSUME IsInjective(s)
      PROVE  ToSet(Tail(s)) = ToSet(s) \ {Head(s)} /\ IsInjective(Tail(s))
  <2> DEFINE t == Tail(s)
  <2>1. /\ DOMAIN t = 1..(Len(s) - 1)
        /\ \A k \in 1..(Len(s) - 1) : t[k] = s[k + 1]
    BY <1>1
  <2> HIDE DEF t
  <2>2. \A m, n \in 1..Len(s) : s[m] = s[n] => m = n
    BY <1>1, <1>3 DEF IsInjective
  <2>3. IsInjective(t)
    BY <1>1, <2>1, <2>2 DEF IsInjective
  <2>4. ASSUME NEW x \in ToSet(t) PROVE x \in ToSet(s) /\ x # s[1]
    <3>1. PICK k \in 1..(Len(s) - 1) : x = s[k + 1]
      BY <2>1 DEF ToSet
    <3> QED BY <1>1, <2>2, <3>1 DEF ToSet
  <2>5. ASSUME NEW x \in ToSet(s), x # s[1] PROVE x \in ToSet(t)
    <3>1. PICK k \in 1..Len(s) : x = s[k]
      BY <1>1 DEF ToSet
    <3>2. k - 1 \in DOMAIN t /\ t[k - 1] = x
      BY <1>1, <2>1, <2>5, <3>1
    <3> QED BY <3>2 DEF ToSet
  <2> QED BY <1>1, <2>3, <2>4, <2>5 DEF t
<1> QED BY <1>1, <1>2, <1>3

\* QList::contains.
LEMMA ContainsIsIn ==
  ASSUME NEW S, NEW s \in Seq(S), NEW e
  PROVE  Contains(s, e) <=> e \in ToSet(s)
<1>1. DOMAIN s = 1..Len(s)
  OBVIOUS
<1> QED BY <1>1 DEF Contains, ToSet

-----------------------------------------------------------------------------
(* Sums over a finite set                                                   *)

\* The recursion of FoldFunction (+, 0, f) over the elements of T.
AnyOf(U) == CHOOSE x \in U : TRUE

Sums(f, T, it) ==
  it = [U \in SUBSET T |-> IF U = {} THEN 0 ELSE f[AnyOf(U)] + it[U \ {AnyOf(U)}]]

Sum(f, T) == (CHOOSE it : Sums(f, T, it))[T]

LEMMA SmallestSet ==
  ASSUME NEW T, IsFiniteSet(T), NEW Bad, Bad \subseteq SUBSET T, Bad # {}
  PROVE  \E U \in Bad : /\ IsFiniteSet(U)
                        /\ \A x \in U : U \ {x} \notin Bad
<1> DEFINE N == {Cardinality(U) : U \in Bad}
<1>1. \A U \in Bad : IsFiniteSet(U) /\ Cardinality(U) \in Nat
  BY FS_Subset, FS_CardinalityType
<1>2. N \subseteq Nat /\ N # {}
  BY <1>1
<1>3. PICK m \in N : \A k \in N : m <= k
  <2> HIDE DEF N
  <2> QED BY <1>2, LeastNatural
<1>4. PICK U \in Bad : Cardinality(U) = m
  OBVIOUS
<1>5. ASSUME NEW x \in U PROVE U \ {x} \notin Bad
  <2>1. Cardinality(U \ {x}) = Cardinality(U) - 1
    BY <1>1, FS_RemoveElement
  <2>2. U \ {x} \in Bad => Cardinality(U \ {x}) \in N
    OBVIOUS
  <2> HIDE DEF N
  <2> QED BY <1>1, <1>3, <1>4, <2>1, <2>2
<1> QED BY <1>1, <1>5

LEMMA AnyIsIn ==
  ASSUME NEW U, U # {}
  PROVE  AnyOf(U) \in U
BY DEF AnyOf

LEMMA SumsUnique ==
  ASSUME NEW f, NEW T, IsFiniteSet(T), NEW a, NEW b, Sums(f, T, a), Sums(f, T, b)
  PROVE  a = b
<1> DEFINE Bad == {U \in SUBSET T : a[U] # b[U]}
<1>1. /\ a = [U \in SUBSET T |-> IF U = {} THEN 0 ELSE f[AnyOf(U)] + a[U \ {AnyOf(U)}]]
      /\ b = [U \in SUBSET T |-> IF U = {} THEN 0 ELSE f[AnyOf(U)] + b[U \ {AnyOf(U)}]]
  BY DEF Sums
<1>2. \A U \in SUBSET T :
        /\ a[U] = IF U = {} THEN 0 ELSE f[AnyOf(U)] + a[U \ {AnyOf(U)}]
        /\ b[U] = IF U = {} THEN 0 ELSE f[AnyOf(U)] + b[U \ {AnyOf(U)}]
  BY <1>1, Zenon
<1>3. Bad = {}
  <2>1. SUFFICES ASSUME Bad # {} PROVE FALSE
    OBVIOUS
  <2>2. PICK U \in Bad : \A x \in U : U \ {x} \notin Bad
    <3>1. Bad \subseteq SUBSET T
      OBVIOUS
    <3> HIDE DEF Bad
    <3> QED BY <2>1, <3>1, SmallestSet
  <2>3. U \subseteq T /\ a[U] # b[U]
    OBVIOUS
  <2>4. CASE U = {}
    BY <1>2, <2>3, <2>4
  <2>5. CASE U # {}
    <3>1. AnyOf(U) \in U
      BY <2>5, AnyIsIn
    <3>2. a[U \ {AnyOf(U)}] = b[U \ {AnyOf(U)}]
      BY <2>2, <2>3, <3>1
    <3> QED BY <1>2, <2>3, <2>5, <3>2
  <2> QED BY <2>4, <2>5
<1>4. \A U \in SUBSET T : a[U] = b[U]
  BY <1>3
<1>5. /\ a = [U \in SUBSET T |-> a[U]]
      /\ b = [U \in SUBSET T |-> b[U]]
  BY <1>1, <1>2, Zenon
<1> QED BY <1>4, <1>5, Zenon

LEMMA SumsOfPart ==
  ASSUME NEW f, NEW T, NEW it, Sums(f, T, it), NEW V, V \subseteq T
  PROVE  Sums(f, V, [U \in SUBSET V |-> it[U]])
<1> DEFINE g == [U \in SUBSET V |-> it[U]]
<1>1. it = [U \in SUBSET T |-> IF U = {} THEN 0 ELSE f[AnyOf(U)] + it[U \ {AnyOf(U)}]]
  BY DEF Sums
<1>2. \A U \in SUBSET T : it[U] = IF U = {} THEN 0 ELSE f[AnyOf(U)] + it[U \ {AnyOf(U)}]
  BY <1>1, Zenon
<1>3. ASSUME NEW U \in SUBSET V
      PROVE  it[U] = IF U = {} THEN 0 ELSE f[AnyOf(U)] + g[U \ {AnyOf(U)}]
  <2>1. U \in SUBSET T /\ U \ {AnyOf(U)} \in SUBSET V
    OBVIOUS
  <2>2. g[U \ {AnyOf(U)}] = it[U \ {AnyOf(U)}]
    BY <2>1, Zenon
  <2> HIDE DEF g
  <2> QED BY <1>2, <2>1, <2>2
<1>4. g = [U \in SUBSET V |-> IF U = {} THEN 0 ELSE f[AnyOf(U)] + g[U \ {AnyOf(U)}]]
  BY <1>3, Zenon
<1> HIDE DEF g
<1>5. Sums(f, V, g)
  BY <1>4 DEF Sums
<1> QED BY <1>5 DEF g

LEMMA SumsExist ==
  ASSUME NEW f, NEW T, IsFiniteSet(T)
  PROVE  \E it : Sums(f, T, it)
<1> DEFINE Bad == {U \in SUBSET T : ~ \E it : Sums(f, U, it)}
<1>1. SUFFICES ASSUME Bad # {} PROVE FALSE
  OBVIOUS
<1>2. PICK W \in Bad : IsFiniteSet(W) /\ \A x \in W : W \ {x} \notin Bad
  <2>1. Bad \subseteq SUBSET T
    OBVIOUS
  <2> HIDE DEF Bad
  <2> QED BY <1>1, <2>1, SmallestSet
<1>3. W \subseteq T /\ ~ \E it : Sums(f, W, it)
  OBVIOUS
<1> DEFINE of(V) == CHOOSE it : Sums(f, V, it)
           h(V) == of(V)[V]
           g == [U \in SUBSET W |-> IF U = {} THEN 0 ELSE f[AnyOf(U)] + h(U \ {AnyOf(U)})]
<1>4. ASSUME NEW V \in SUBSET W, V # W PROVE Sums(f, V, of(V)) /\ IsFiniteSet(V)
  <2>1. PICK x \in W : V \subseteq W \ {x}
    BY <1>4
  <2>2. \E it : Sums(f, W \ {x}, it)
    BY <1>2, <1>3
  <2>3. \E it : Sums(f, V, it)
    BY <2>1, <2>2, SumsOfPart
  <2>4. IsFiniteSet(V)
    BY <1>2, FS_Subset
  <2> QED BY <2>3, <2>4
<1>5. ASSUME NEW V \in SUBSET W, V # W
      PROVE  h(V) = IF V = {} THEN 0 ELSE f[AnyOf(V)] + h(V \ {AnyOf(V)})
  <2> DEFINE it == of(V)
             P == V \ {AnyOf(V)}
  <2>1. Sums(f, V, it)
    BY <1>4, <1>5
  <2>2. it[V] = IF V = {} THEN 0 ELSE f[AnyOf(V)] + it[V \ {AnyOf(V)}]
    <3> HIDE DEF it
    <3>1. it = [U \in SUBSET V |-> IF U = {} THEN 0 ELSE f[AnyOf(U)] + it[U \ {AnyOf(U)}]]
      BY <2>1 DEF Sums
    <3>2. V \in SUBSET V
      OBVIOUS
    <3> QED BY <3>1, <3>2, Zenon
  <2>3. CASE V = {}
    BY <2>2, <2>3
  <2>4. CASE V # {}
    <3>1. P \in SUBSET W /\ P # W /\ P \subseteq V
      BY <1>5
    <3>2. Sums(f, P, of(P)) /\ IsFiniteSet(P)
      BY <1>4, <3>1
    <3>3. Sums(f, P, [U \in SUBSET P |-> it[U]])
      <4> HIDE DEF it, P
      <4> QED BY <2>1, <3>1, SumsOfPart
    <3>4. of(P) = [U \in SUBSET P |-> it[U]]
      <4> HIDE DEF it, of, P
      <4> QED BY <3>2, <3>3, SumsUnique
    <3>5. of(P)[P] = it[P]
      <4> HIDE DEF it, of
      <4>1. P \in SUBSET P
        OBVIOUS
      <4> HIDE DEF P
      <4> QED BY <3>4, <4>1, Zenon
    <3> QED BY <2>2, <2>4, <3>5
  <2> QED BY <2>3, <2>4
<1>6. ASSUME NEW U \in SUBSET W, U # {}
      PROVE  g[U \ {AnyOf(U)}] = h(U \ {AnyOf(U)})
  <2> DEFINE V == U \ {AnyOf(U)}
  <2>1. V \in SUBSET W /\ V # W
    BY <1>6, AnyIsIn
  <2>2. g[V] = IF V = {} THEN 0 ELSE f[AnyOf(V)] + h(V \ {AnyOf(V)})
    <3> HIDE DEF h, V
    <3> QED BY <2>1, Zenon
  <2>3. h(V) = IF V = {} THEN 0 ELSE f[AnyOf(V)] + h(V \ {AnyOf(V)})
    <3> HIDE DEF h, V
    <3> QED BY <1>5, <2>1
  <2> QED BY <2>2, <2>3, Zenon
<1>7. g = [U \in SUBSET W |-> IF U = {} THEN 0 ELSE f[AnyOf(U)] + g[U \ {AnyOf(U)}]]
  <2>1. \A U \in SUBSET W :
          (IF U = {} THEN 0 ELSE f[AnyOf(U)] + h(U \ {AnyOf(U)})) =
          (IF U = {} THEN 0 ELSE f[AnyOf(U)] + g[U \ {AnyOf(U)}])
    <3> HIDE DEF g, h
    <3> QED BY <1>6
  <2> HIDE DEF h
  <2> QED BY <2>1, Zenon
<1> HIDE DEF g
<1>8. Sums(f, W, g)
  BY <1>7 DEF Sums
<1> QED BY <1>3, <1>8

LEMMA SumIs ==
  ASSUME NEW f, NEW T, IsFiniteSet(T)
  PROVE  Sum(f, T) = IF T = {} THEN 0 ELSE f[AnyOf(T)] + Sum(f, T \ {AnyOf(T)})
<1> DEFINE it == CHOOSE i : Sums(f, T, i)
           P == T \ {AnyOf(T)}
           p == CHOOSE i : Sums(f, P, i)
<1>1. Sums(f, T, it)
  BY SumsExist
<1>2. IsFiniteSet(P) /\ P \subseteq T /\ P \in SUBSET P /\ T \in SUBSET T
  BY FS_Subset
<1>3. Sums(f, P, p)
  <2> HIDE DEF P
  <2> QED BY <1>2, SumsExist
<1>4. Sums(f, P, [U \in SUBSET P |-> it[U]])
  <2> HIDE DEF it, P
  <2> QED BY <1>1, <1>2, SumsOfPart
<1>5. p = [U \in SUBSET P |-> it[U]]
  <2> HIDE DEF it, p, P
  <2> QED BY <1>2, <1>3, <1>4, SumsUnique
<1>6. p[P] = it[P]
  <2> HIDE DEF it, p, P
  <2> QED BY <1>2, <1>5, Zenon
<1>7. it[T] = IF T = {} THEN 0 ELSE f[AnyOf(T)] + it[T \ {AnyOf(T)}]
  <2> HIDE DEF it
  <2>1. it = [U \in SUBSET T |-> IF U = {} THEN 0 ELSE f[AnyOf(U)] + it[U \ {AnyOf(U)}]]
    BY <1>1 DEF Sums
  <2> QED BY <1>2, <2>1, Zenon
<1>8. Sum(f, T) = it[T] /\ Sum(f, P) = p[P]
  BY DEF Sum
<1> HIDE DEF it, p
<1> QED BY <1>6, <1>7, <1>8

LEMMA SumOfPositives ==
  ASSUME NEW T, IsFiniteSet(T), NEW f \in [T -> Nat]
  PROVE  /\ Sum(f, T) \in Nat
         /\ Cardinality({x \in T : f[x] > 0}) <= Sum(f, T)
<1> DEFINE Pos(U) == {x \in U : f[x] > 0}
           Good(U) == Sum(f, U) \in Nat /\ Cardinality(Pos(U)) <= Sum(f, U)
           Bad == {U \in SUBSET T : ~Good(U)}
<1>1. SUFFICES ASSUME Bad # {} PROVE FALSE
  <2>1. T \in SUBSET T
    OBVIOUS
  <2> QED BY <2>1
<1>2. PICK U \in Bad : IsFiniteSet(U) /\ \A x \in U : U \ {x} \notin Bad
  <2>1. Bad \subseteq SUBSET T
    OBVIOUS
  <2> HIDE DEF Bad
  <2> QED BY <1>1, <2>1, SmallestSet
<1>3. U \subseteq T /\ ~Good(U)
  <2> HIDE DEF Good
  <2> QED OBVIOUS
<1>4. CASE U = {}
  <2>1. Sum(f, U) = 0
    BY <1>2, <1>4, SumIs
  <2>2. Pos(U) = {}
    BY <1>4
  <2>3. Cardinality({}) = 0
    BY FS_EmptySet
  <2> QED BY <1>3, <2>1, <2>2, <2>3
<1>5. CASE U # {}
  <2>1. PICK x : x = AnyOf(U) /\ x \in U
    BY <1>5, AnyIsIn
  <2> DEFINE V == U \ {x}
  <2>2. Good(V)
    <3> HIDE DEF Good
    <3>1. V \in SUBSET T /\ V \notin Bad
      BY <1>2, <1>3, <2>1
    <3> QED BY <3>1
  <2>3. Sum(f, U) = f[x] + Sum(f, V)
    BY <1>2, <1>5, <2>1, SumIs
  <2>4. f[x] \in Nat
    BY <1>3, <2>1
  <2>5. IsFiniteSet(Pos(V)) /\ IsFiniteSet(Pos(U)) /\ x \notin Pos(V)
    BY <1>2, FS_Subset
  <2>6. /\ f[x] > 0 => Pos(U) = Pos(V) \union {x}
        /\ ~(f[x] > 0) => Pos(U) = Pos(V)
    BY <2>1
  <2>7. f[x] > 0 => Cardinality(Pos(U)) = Cardinality(Pos(V)) + 1
    <3> HIDE DEF Pos, V
    <3> QED BY <2>5, <2>6, FS_AddElement
  <2>8. Cardinality(Pos(V)) \in Nat
    <3> HIDE DEF Pos, V
    <3> QED BY <2>5, FS_CardinalityType
  <2> HIDE DEF V
  <2>9. Sum(f, V) \in Nat /\ Cardinality(Pos(V)) <= Sum(f, V)
    BY <2>2
  <2>10. Sum(f, U) \in Nat /\ Cardinality(Pos(U)) <= Sum(f, U)
    <3> HIDE DEF Pos
    <3> QED BY <2>3, <2>4, <2>6, <2>7, <2>8, <2>9
  <2> QED BY <1>3, <2>10
<1> QED BY <1>4, <1>5
=============================================================================
