----------------------------- MODULE FoldLemmas -----------------------------
(***************************************************************************)
(* What FoldSet keeps: if Inv holds of the base and every step that Op     *)
(* makes with one more element keeps it, it holds of the result.  The      *)
(* library's theorems about folds have operators as parameters, which the  *)
(* provers cannot instantiate; here they are constants of the module,      *)
(* which an INSTANCE gives their values.  p and q stand for whatever else   *)
(* the two depend on.  The module extends no more than it must, since each *)
(* INSTANCE of it repeats all that it extends.                             *)
(***************************************************************************)
EXTENDS Folds

CONSTANTS
  Op(_, _, _),      \* Op(p, x, t): the result for the element x after t
  Inv(_, _, _)      \* Inv(q, D, t): t may be the result for the elements of D

\* FoldSet(LAMBDA x, t : Op(p, x, t), base, S)
Fold(p, base, S) ==
  MapThenFoldSet(LAMBDA x, t : Op(p, x, t), base, LAMBDA x : x,
                 LAMBDA U : CHOOSE x \in U : TRUE, S)

\* Of the parts of S there are no infinite descents: what induction over the
\* elements of S needs, and what a finite set has.
Grounded(S) ==
  \A Bad \in SUBSET SUBSET S :
    Bad # {} => \E U \in Bad : \A x \in U : U \ {x} \notin Bad

AnyOf(U) == CHOOSE x \in U : TRUE

-----------------------------------------------------------------------------
\* it is the function that FoldSet goes through.
Iterates(p, base, S, it) ==
  it = [U \in SUBSET S |-> IF U = {} THEN base
                           ELSE Op(p, AnyOf(U), it[U \ {AnyOf(U)}])]

LEMMA AnyIsIn ==
  ASSUME NEW U, U # {}
  PROVE  AnyOf(U) \in U
BY DEF AnyOf

LEMMA PartGrounded ==
  ASSUME NEW S, Grounded(S), NEW V, V \subseteq S
  PROVE  Grounded(V)
BY DEF Grounded

LEMMA FoldIs ==
  ASSUME NEW p, NEW base, NEW S
  PROVE  Fold(p, base, S) = (CHOOSE it : Iterates(p, base, S, it))[S]
BY DEF Fold, MapThenFoldSet, Iterates, AnyOf

LEMMA IteratesUnique ==
  ASSUME NEW p, NEW base, NEW S, Grounded(S), NEW a, NEW b,
         Iterates(p, base, S, a), Iterates(p, base, S, b)
  PROVE  a = b
<1> DEFINE Bad == {U \in SUBSET S : a[U] # b[U]}
<1>1. /\ a = [U \in SUBSET S |-> IF U = {} THEN base
                                 ELSE Op(p, AnyOf(U), a[U \ {AnyOf(U)}])]
      /\ b = [U \in SUBSET S |-> IF U = {} THEN base
                                 ELSE Op(p, AnyOf(U), b[U \ {AnyOf(U)}])]
  BY DEF Iterates
<1>2. \A U \in SUBSET S :
        /\ a[U] = IF U = {} THEN base ELSE Op(p, AnyOf(U), a[U \ {AnyOf(U)}])
        /\ b[U] = IF U = {} THEN base ELSE Op(p, AnyOf(U), b[U \ {AnyOf(U)}])
  BY <1>1
<1>3. Bad = {}
  <2>1. SUFFICES ASSUME Bad # {} PROVE FALSE
    OBVIOUS
  <2>2. PICK U \in Bad : \A x \in U : U \ {x} \notin Bad
    <3>1. Bad \subseteq SUBSET S
      OBVIOUS
    <3> HIDE DEF Bad
    <3> QED BY <2>1, <3>1 DEF Grounded
  <2>3. U \subseteq S /\ a[U] # b[U]
    OBVIOUS
  <2>4. CASE U = {}
    BY <1>2, <2>3, <2>4
  <2>5. CASE U # {}
    <3>1. AnyOf(U) \in U
      BY <2>5, AnyIsIn
    <3>2. a[U \ {AnyOf(U)}] = b[U \ {AnyOf(U)}]
      BY <2>2, <2>3, <3>1
    <3> QED BY <1>2, <2>3, <2>5, <3>2
  <2> QED BY <2>4, <2>5
<1>4. \A U \in SUBSET S : a[U] = b[U]
  BY <1>3
<1>5. /\ a = [U \in SUBSET S |-> a[U]]
      /\ b = [U \in SUBSET S |-> b[U]]
  BY <1>1, <1>2
<1> QED BY <1>4, <1>5

LEMMA IteratesPart ==
  ASSUME NEW p, NEW base, NEW S, NEW it, Iterates(p, base, S, it),
         NEW V, V \subseteq S
  PROVE  Iterates(p, base, V, [U \in SUBSET V |-> it[U]])
<1> DEFINE g == [U \in SUBSET V |-> it[U]]
<1>1. it = [U \in SUBSET S |-> IF U = {} THEN base
                               ELSE Op(p, AnyOf(U), it[U \ {AnyOf(U)}])]
  BY DEF Iterates
<1>2. \A U \in SUBSET S :
        it[U] = IF U = {} THEN base ELSE Op(p, AnyOf(U), it[U \ {AnyOf(U)}])
  BY <1>1
<1>3. ASSUME NEW U \in SUBSET V
      PROVE  it[U] = IF U = {} THEN base ELSE Op(p, AnyOf(U), g[U \ {AnyOf(U)}])
  <2>1. U \in SUBSET S /\ U \ {AnyOf(U)} \in SUBSET V
    OBVIOUS
  <2>2. g[U \ {AnyOf(U)}] = it[U \ {AnyOf(U)}]
    BY <2>1
  <2> HIDE DEF g
  <2> QED BY <1>2, <2>1, <2>2
<1>4. g = [U \in SUBSET V |-> IF U = {} THEN base
                              ELSE Op(p, AnyOf(U), g[U \ {AnyOf(U)}])]
  BY <1>3
<1> HIDE DEF g
<1>5. Iterates(p, base, V, g)
  BY <1>4 DEF Iterates
<1> QED BY <1>5 DEF g

LEMMA IteratesExist ==
  ASSUME NEW p, NEW base, NEW S, Grounded(S)
  PROVE  \E it : Iterates(p, base, S, it)
<1> DEFINE Bad == {U \in SUBSET S : ~ \E it : Iterates(p, base, U, it)}
<1>1. SUFFICES ASSUME Bad # {} PROVE FALSE
  OBVIOUS
<1>2. PICK W \in Bad : \A x \in W : W \ {x} \notin Bad
  <2>1. Bad \subseteq SUBSET S
    OBVIOUS
  <2> HIDE DEF Bad
  <2> QED BY <1>1, <2>1 DEF Grounded
<1>3. W \subseteq S /\ ~ \E it : Iterates(p, base, W, it)
  OBVIOUS
<1> DEFINE of(V) == CHOOSE it : Iterates(p, base, V, it)
           h(V) == of(V)[V]
           g == [U \in SUBSET W |-> IF U = {} THEN base
                                    ELSE Op(p, AnyOf(U), h(U \ {AnyOf(U)}))]
<1>4. ASSUME NEW V \in SUBSET W, V # W
      PROVE  Iterates(p, base, V, of(V)) /\ Grounded(V)
  <2>1. PICK x \in W : V \subseteq W \ {x}
    BY <1>4
  <2>2. \E it : Iterates(p, base, W \ {x}, it)
    BY <1>2, <1>3
  <2>3. \E it : Iterates(p, base, V, it)
    BY <2>1, <2>2, IteratesPart
  <2>4. Grounded(V)
    BY <1>3, PartGrounded
  <2> QED BY <2>3, <2>4
<1>5. ASSUME NEW V \in SUBSET W, V # W
      PROVE  h(V) = IF V = {} THEN base ELSE Op(p, AnyOf(V), h(V \ {AnyOf(V)}))
  <2> DEFINE it == of(V)
             P == V \ {AnyOf(V)}
  <2>1. Iterates(p, base, V, it)
    BY <1>4, <1>5
  <2>2. it[V] = IF V = {} THEN base ELSE Op(p, AnyOf(V), it[V \ {AnyOf(V)}])
    <3> HIDE DEF it
    <3>1. it = [U \in SUBSET V |-> IF U = {} THEN base
                                   ELSE Op(p, AnyOf(U), it[U \ {AnyOf(U)}])]
      BY <2>1 DEF Iterates
    <3>2. V \in SUBSET V
      OBVIOUS
    <3> QED BY <3>1, <3>2
  <2>3. CASE V = {}
    BY <2>2, <2>3
  <2>4. CASE V # {}
    <3>1. P \in SUBSET W /\ P # W /\ P \subseteq V
      BY <1>5, <2>4, AnyIsIn
    <3>2. Iterates(p, base, P, of(P)) /\ Grounded(P)
      BY <1>4, <3>1
    <3>3. Iterates(p, base, P, [U \in SUBSET P |-> it[U]])
      <4> HIDE DEF it, P
      <4> QED BY <2>1, <3>1, IteratesPart
    <3>4. of(P) = [U \in SUBSET P |-> it[U]]
      <4> HIDE DEF it, of, P
      <4> QED BY <3>2, <3>3, IteratesUnique
    <3>5. of(P)[P] = it[P]
      <4> HIDE DEF it, of
      <4>1. P \in SUBSET P
        OBVIOUS
      <4> HIDE DEF P
      <4> QED BY <3>4, <4>1
    <3> QED BY <2>2, <2>4, <3>5
  <2> QED BY <2>3, <2>4
<1>6. ASSUME NEW U \in SUBSET W, U # {}
      PROVE  g[U \ {AnyOf(U)}] = h(U \ {AnyOf(U)})
  <2> DEFINE V == U \ {AnyOf(U)}
  <2>1. V \in SUBSET W /\ V # W
    BY <1>6, AnyIsIn
  <2>2. g[V] = IF V = {} THEN base ELSE Op(p, AnyOf(V), h(V \ {AnyOf(V)}))
    <3> HIDE DEF h, V
    <3> QED BY <2>1
  <2>3. h(V) = IF V = {} THEN base ELSE Op(p, AnyOf(V), h(V \ {AnyOf(V)}))
    <3> HIDE DEF h, V
    <3> QED BY <1>5, <2>1
  <2> QED BY <2>2, <2>3
<1>7. g = [U \in SUBSET W |-> IF U = {} THEN base
                              ELSE Op(p, AnyOf(U), g[U \ {AnyOf(U)}])]
  <2>1. \A U \in SUBSET W :
          (IF U = {} THEN base ELSE Op(p, AnyOf(U), h(U \ {AnyOf(U)}))) =
          (IF U = {} THEN base ELSE Op(p, AnyOf(U), g[U \ {AnyOf(U)}]))
    <3> HIDE DEF g, h
    <3> QED BY <1>6
  <2> HIDE DEF h
  <2> QED BY <2>1
<1> HIDE DEF g
<1>8. Iterates(p, base, W, g)
  BY <1>7 DEF Iterates
<1> QED BY <1>3, <1>8

\* Induction over the elements.
LEMMA FoldKeeps ==
  ASSUME NEW p, NEW q, NEW base, NEW S, Grounded(S),
         Inv(q, {}, base),
         \A D \in SUBSET S : \A x \in S \ D : \A t :
           Inv(q, D, t) => Inv(q, D \union {x}, Op(p, x, t))
  PROVE  Inv(q, S, Fold(p, base, S))
<1> DEFINE it == CHOOSE i : Iterates(p, base, S, i)
           Bad == {U \in SUBSET S : ~Inv(q, U, it[U])}
<1>1. it = [U \in SUBSET S |-> IF U = {} THEN base
                               ELSE Op(p, AnyOf(U), it[U \ {AnyOf(U)}])]
  <2>1. Iterates(p, base, S, it)
    BY IteratesExist
  <2> HIDE DEF it
  <2> QED BY <2>1 DEF Iterates
<1> HIDE DEF it
<1>2. \A U \in SUBSET S :
        it[U] = IF U = {} THEN base ELSE Op(p, AnyOf(U), it[U \ {AnyOf(U)}])
  BY <1>1
<1>3. Bad = {}
  <2>1. SUFFICES ASSUME Bad # {} PROVE FALSE
    OBVIOUS
  <2>2. PICK U \in Bad : \A x \in U : U \ {x} \notin Bad
    <3>1. Bad \subseteq SUBSET S
      OBVIOUS
    <3> HIDE DEF Bad
    <3> QED BY <2>1, <3>1 DEF Grounded
  <2>3. U \subseteq S /\ ~Inv(q, U, it[U])
    OBVIOUS
  <2>4. CASE U = {}
    BY <1>2, <2>3, <2>4
  <2>5. CASE U # {}
    <3>1. PICK x : x = AnyOf(U) /\ x \in U
      BY <2>5, AnyIsIn
    <3>2. Inv(q, U \ {x}, it[U \ {x}])
      BY <2>2, <2>3, <3>1
    <3>3. it[U] = Op(p, x, it[U \ {x}])
      BY <1>2, <2>3, <2>5, <3>1
    <3>4. (U \ {x}) \union {x} = U /\ U \ {x} \in SUBSET S /\ x \in S \ (U \ {x})
      BY <2>3, <3>1
    <3>5. Inv(q, (U \ {x}) \union {x}, Op(p, x, it[U \ {x}]))
      BY <3>2, <3>4
    <3> QED BY <2>3, <3>3, <3>4, <3>5
  <2> QED BY <2>4, <2>5
<1>4. Inv(q, S, it[S])
  BY <1>3
<1>5. Fold(p, base, S) = it[S]
  BY FoldIs DEF it
<1> QED BY <1>4, <1>5
=============================================================================
