------------------------- MODULE RecursionTheorems -------------------------
(***************************************************************************)
(* Induction and recursion, stated about sets and functions so that they   *)
(* can be cited without an operator for a parameter: induction over an     *)
(* interval, the existence and the uniqueness of a function defined by     *)
(* recursion over an interval, and the fold of a function over a sequence. *)
(***************************************************************************)
EXTENDS Integers, Sequences, SequenceTheorems, WellFoundedInduction, TLAPS

LEMMA SetInduction ==
  ASSUME NEW S, 0 \in S, \A n \in Nat : n \in S => n + 1 \in S
  PROVE  Nat \subseteq S
<1> DEFINE Less == {p \in Nat \X Nat : p[1] < p[2]}
<1>1. IsWellFoundedOn(Less, Nat)
  BY NatLessThanWellFounded DEF OpToRel
<1>2. SUFFICES ASSUME Nat \ S # {} PROVE FALSE
  OBVIOUS
<1>3. PICK m \in Nat \ S : \A y \in Nat \ S : <<y, m>> \notin Less
  <2> DEFINE T == Nat \ S
  <2>1. T \subseteq Nat /\ T # {}
    BY <1>2
  <2> HIDE DEF T, Less
  <2>2. \E x \in T : \A y \in T : ~ (<<y, x>> \in Less)
    BY <1>1, <2>1, WFMin
  <2> QED BY <2>2 DEF T
<1>4. m # 0 /\ m - 1 \in Nat
  BY <1>3
<1>5. <<m - 1, m>> \in Less
  BY <1>4
<1>6. m - 1 \in S
  BY <1>3, <1>4, <1>5
<1>7. (m - 1) + 1 = m
  BY <1>4
<1> QED BY <1>3, <1>4, <1>6, <1>7

LEMMA IntervalInduction ==
  ASSUME NEW n \in Nat, NEW S, 0 \in S, \A i \in 1..n : i - 1 \in S => i \in S
  PROVE  0..n \subseteq S
<1> DEFINE T == {k \in Nat : k <= n => k \in S}
<1>1. 0 \in T
  OBVIOUS
<1>2. ASSUME NEW k \in Nat, k \in T PROVE k + 1 \in T
  <2>1. SUFFICES ASSUME k + 1 <= n PROVE k + 1 \in S
    OBVIOUS
  <2>2. k + 1 \in 1..n /\ (k + 1) - 1 = k /\ k <= n
    BY <2>1
  <2>3. k \in S
    BY <1>2, <2>2
  <2> QED BY <2>2, <2>3
<1> HIDE DEF T
<1>3. Nat \subseteq T
  BY <1>1, <1>2, SetInduction
<1> QED BY <1>3 DEF T

(***************************************************************************)
(* A set of numbers between bounds has a greatest one.                     *)
(***************************************************************************)
LEMMA GreatestExists ==
  ASSUME NEW n \in Nat, NEW S \in SUBSET (0..n), S # {}
  PROVE  \E x \in S : \A y \in S : x >= y
<1> DEFINE T == {k \in Nat : \A R \in SUBSET (0..k) : R # {} => \E x \in R : \A y \in R : x >= y}
<1>1. 0 \in T
  <2>1. ASSUME NEW R \in SUBSET (0..0), R # {} PROVE \E x \in R : \A y \in R : x >= y
    <3>1. PICK x \in R : TRUE
      BY <2>1
    <3>2. \A y \in R : y = 0
      OBVIOUS
    <3> QED BY <3>1, <3>2
  <2> QED BY <2>1
<1>2. ASSUME NEW k \in Nat, k \in T PROVE k + 1 \in T
  <2>1. ASSUME NEW R \in SUBSET (0..(k + 1)), R # {} PROVE \E x \in R : \A y \in R : x >= y
    <3>1. CASE k + 1 \in R
      BY <3>1
    <3>2. CASE k + 1 \notin R
      <4>1. R \in SUBSET (0..k)
        BY <3>2
      <4> QED BY <1>2, <2>1, <4>1
    <3> QED BY <3>1, <3>2
  <2> QED BY <2>1
<1> HIDE DEF T
<1>3. n \in T
  BY <1>1, <1>2, SetInduction
<1> QED BY <1>3 DEF T

----------------------------------------------------------------------------
(***************************************************************************)
(* f starts with a and goes on with F, up to n.                            *)
(***************************************************************************)
Recurs(f, n, a, F) == f[0] = a /\ \A i \in 1..n : f[i] = F[<<f[i - 1], i>>]

LEMMA RecursExists ==
  ASSUME NEW V, NEW n \in Nat, NEW a \in V, NEW F \in [V \X (1..n) -> V]
  PROVE  \E f \in [0..n -> V] : Recurs(f, n, a, F)
<1> DEFINE S == {k \in Nat : k <= n => \E f \in [0..k -> V] : Recurs(f, k, a, F)}
<1>1. 0 \in S
  <2> DEFINE f == [i \in 0..0 |-> a]
  <2>1. f \in [0..0 -> V] /\ f[0] = a
    OBVIOUS
  <2> HIDE DEF f
  <2> QED BY <2>1 DEF Recurs
<1>2. ASSUME NEW k \in Nat, k \in S PROVE k + 1 \in S
  <2>1. SUFFICES ASSUME k + 1 <= n PROVE \E f \in [0..(k + 1) -> V] : Recurs(f, k + 1, a, F)
    OBVIOUS
  <2>2. k <= n
    BY <2>1
  <2>3. PICK f \in [0..k -> V] : Recurs(f, k, a, F)
    BY <1>2, <2>2
  <2> DEFINE g == [i \in 0..(k + 1) |-> IF i \in 0..k THEN f[i] ELSE F[<<f[k], k + 1>>]]
  <2>4. f[k] \in V /\ k + 1 \in 1..n
    BY <2>1, <2>3
  <2>5. F[<<f[k], k + 1>>] \in V
    BY <2>4
  <2>6. g \in [0..(k + 1) -> V]
    <3>1. \A i \in 0..(k + 1) : (IF i \in 0..k THEN f[i] ELSE F[<<f[k], k + 1>>]) \in V
      BY <2>3, <2>5
    <3> QED BY <3>1
  <2>7. /\ \A i \in 0..k : i \in 0..(k + 1) /\ g[i] = f[i]
        /\ g[k + 1] = F[<<f[k], k + 1>>]
    OBVIOUS
  <2> HIDE DEF g
  <2>8. 0 \in 0..k /\ g[0] = a
    BY <2>3, <2>7 DEF Recurs
  <2>9. ASSUME NEW i \in 1..(k + 1) PROVE g[i] = F[<<g[i - 1], i>>]
    <3>1. CASE i <= k
      <4>1. i \in 1..k /\ i \in 0..k /\ i - 1 \in 0..k
        BY <3>1
      <4> QED BY <2>3, <2>7, <4>1 DEF Recurs
    <3>2. CASE i = k + 1
      <4>1. i - 1 = k /\ k \in 0..k
        BY <3>2
      <4> QED BY <2>7, <3>2, <4>1
    <3> QED BY <3>1, <3>2
  <2> QED BY <2>6, <2>8, <2>9 DEF Recurs
<1> HIDE DEF S
<1>3. Nat \subseteq S
  BY <1>1, <1>2, SetInduction
<1> QED BY <1>3 DEF S

----------------------------------------------------------------------------
(***************************************************************************)
(* The fold of F, a function of what there is so far and of an element,    *)
(* over a sequence.                                                        *)
(***************************************************************************)
Folded(F, a, s) ==
  LET f[i \in 0..Len(s)] == IF i = 0 THEN a ELSE F[<<f[i - 1], s[i]>>]
  IN  f[Len(s)]

\* F takes what there is so far, in V, and an element of C.
Combines(F, V, C) == F \in [V \X C -> V]

\* f is the function of the definition of Folded.
DefinesFold(f, F, a, s) ==
  f = [i \in 0..Len(s) |-> IF i = 0 THEN a ELSE F[<<f[i - 1], s[i]>>]]

(* The values the fold goes through.                                       *)
Folding(f, F, a, s) == f[0] = a /\ \A i \in 1..Len(s) : f[i] = F[<<f[i - 1], s[i]>>]

LEMMA FoldingUnique ==
  ASSUME NEW C, NEW s \in Seq(C), NEW a, NEW F, NEW f, NEW g,
         Folding(f, F, a, s), Folding(g, F, a, s)
  PROVE  \A i \in 0..Len(s) : f[i] = g[i]
<1> DEFINE S == {i \in 0..Len(s) : f[i] = g[i]}
<1>1. 0 \in S
  BY DEF Folding
<1>2. ASSUME NEW i \in 1..Len(s), i - 1 \in S PROVE i \in S
  <2>1. i \in 0..Len(s) /\ f[i - 1] = g[i - 1]
    BY <1>2
  <2>2. f[i] = F[<<f[i - 1], s[i]>>] /\ g[i] = F[<<g[i - 1], s[i]>>]
    BY DEF Folding
  <2>3. f[i] = g[i]
    BY <2>1, <2>2, Zenon
  <2> QED BY <2>1, <2>3
<1> HIDE DEF S
<1>3. 0..Len(s) \subseteq S
  <2>1. Len(s) \in Nat
    OBVIOUS
  <2> QED BY <1>1, <1>2, <2>1, IntervalInduction
<1> QED BY <1>3 DEF S

LEMMA FoldingExists ==
  ASSUME NEW V, NEW C, NEW F, Combines(F, V, C), NEW a \in V, NEW s \in Seq(C)
  PROVE  \E f \in [0..Len(s) -> V] :
           Folding(f, F, a, s) /\ DefinesFold(f, F, a, s)
<1> DEFINE n == Len(s)
           G == [x \in V \X (1..n) |-> F[<<x[1], s[x[2]]>>]]
<1>1. n \in Nat /\ \A i \in 1..n : s[i] \in C
  OBVIOUS
<1>2. G \in [V \X (1..n) -> V]
  <2>1. \A x \in V \X (1..n) : F[<<x[1], s[x[2]]>>] \in V
    BY <1>1 DEF Combines
  <2> QED BY <2>1
<1>3. \A v \in V, i \in 1..n : G[<<v, i>>] = F[<<v, s[i]>>]
  OBVIOUS
<1> HIDE DEF G
<1>4. PICK f \in [0..n -> V] : Recurs(f, n, a, G)
  BY <1>1, <1>2, RecursExists
<1>5. Folding(f, F, a, s)
  <2>1. \A i \in 1..n : f[i] = F[<<f[i - 1], s[i]>>]
    <3>1. ASSUME NEW i \in 1..n PROVE f[i] = F[<<f[i - 1], s[i]>>]
      <4>1. i - 1 \in 0..n
        BY <1>1
      <4>2. f[i - 1] \in V /\ f[i] = G[<<f[i - 1], i>>]
        BY <1>4, <4>1 DEF Recurs
      <4> QED BY <1>3, <4>2
    <3> QED BY <3>1
  <2> QED BY <1>4, <2>1 DEF Recurs, Folding
<1>6. ASSUME NEW i \in 0..n PROVE f[i] = IF i = 0 THEN a ELSE F[<<f[i - 1], s[i]>>]
  <2>1. i = 0 \/ i \in 1..n
    BY <1>1
  <2> QED BY <1>5, <2>1 DEF Folding
<1>7. f = [i \in 0..n |-> IF i = 0 THEN a ELSE F[<<f[i - 1], s[i]>>]]
  BY <1>4, <1>6
<1> QED BY <1>4, <1>5, <1>7 DEF DefinesFold

LEMMA FoldedIs ==
  ASSUME NEW V, NEW C, NEW F, Combines(F, V, C), NEW a \in V, NEW s \in Seq(C),
         NEW f, Folding(f, F, a, s)
  PROVE  Folded(F, a, s) = f[Len(s)]
<1> DEFINE h == CHOOSE g : DefinesFold(g, F, a, s)
<1>1. \E g : DefinesFold(g, F, a, s)
  <2>1. PICK g \in [0..Len(s) -> V] :
          Folding(g, F, a, s) /\ DefinesFold(g, F, a, s)
    BY FoldingExists
  <2> QED BY <2>1
<1>2. DefinesFold(h, F, a, s)
  BY <1>1, Zenon
<1>3. Folding(h, F, a, s)
  <2> HIDE DEF h
  <2>1. Len(s) \in Nat
    OBVIOUS
  <2>2. h[0] = a
    BY <1>2, <2>1 DEF DefinesFold
  <2>3. ASSUME NEW i \in 1..Len(s) PROVE h[i] = F[<<h[i - 1], s[i]>>]
    <3>1. i \in 0..Len(s) /\ i # 0
      BY <2>1
    <3> QED BY <1>2, <3>1 DEF DefinesFold
  <2> QED BY <2>2, <2>3 DEF Folding
<1>4. Folded(F, a, s) = h[Len(s)]
  BY DEF Folded, DefinesFold
<1> HIDE DEF h
<1>5. Len(s) \in 0..Len(s)
  OBVIOUS
<1> QED BY <1>3, <1>4, <1>5, FoldingUnique

(***************************************************************************)
(* The value of the empty fold, of a fold that goes on, and its type.      *)
(***************************************************************************)
LEMMA FoldedType ==
  ASSUME NEW V, NEW C, NEW F, Combines(F, V, C), NEW a \in V, NEW s \in Seq(C)
  PROVE  Folded(F, a, s) \in V
<1>1. PICK f \in [0..Len(s) -> V] :
        Folding(f, F, a, s) /\ DefinesFold(f, F, a, s)
  BY FoldingExists
<1>2. Folded(F, a, s) = f[Len(s)]
  BY <1>1, FoldedIs
<1>3. Len(s) \in 0..Len(s)
  OBVIOUS
<1> QED BY <1>1, <1>2, <1>3

LEMMA FoldedEmpty ==
  ASSUME NEW V, NEW C, NEW F, Combines(F, V, C), NEW a \in V
  PROVE  Folded(F, a, <<>>) = a
<1>1. <<>> \in Seq(C) /\ Len(<<>>) = 0
  OBVIOUS
<1>2. PICK f \in [0..Len(<<>>) -> V] :
        Folding(f, F, a, <<>>) /\ DefinesFold(f, F, a, <<>>)
  BY <1>1, FoldingExists
<1>3. Folded(F, a, <<>>) = f[Len(<<>>)]
  BY <1>1, <1>2, FoldedIs
<1> QED BY <1>1, <1>2, <1>3 DEF Folding

LEMMA FoldedAppend ==
  ASSUME NEW V, NEW C, NEW F, Combines(F, V, C), NEW a \in V, NEW s \in Seq(C), NEW x \in C
  PROVE  Folded(F, a, Append(s, x)) = F[<<Folded(F, a, s), x>>]
<1> DEFINE t == Append(s, x)
           n == Len(s)
<1>1. /\ t \in Seq(C) /\ n \in Nat /\ Len(t) = n + 1 /\ t[n + 1] = x
      /\ \A i \in 1..n : t[i] = s[i]
  OBVIOUS
<1> HIDE DEF t
<1>2. PICK f \in [0..Len(t) -> V] :
        Folding(f, F, a, t) /\ DefinesFold(f, F, a, t)
  BY <1>1, FoldingExists
<1>3. Folded(F, a, t) = f[n + 1]
  <2>1. t \in Seq(C) /\ Folding(f, F, a, t)
    BY <1>1, <1>2
  <2>2. Folded(F, a, t) = f[Len(t)]
    BY ONLY <2>1, Combines(F, V, C), a \in V, FoldedIs
  <2> QED BY <1>1, <2>2
<1>4. Folding(f, F, a, s)
  <2>1. ASSUME NEW i \in 1..n PROVE f[i] = F[<<f[i - 1], s[i]>>]
    <3>1. i \in 1..Len(t) /\ t[i] = s[i]
      BY <1>1
    <3>2. f[i] = F[<<f[i - 1], t[i]>>]
      BY <1>2, <3>1 DEF Folding
    <3> QED BY <3>1, <3>2
  <2> QED BY <1>2, <2>1 DEF Folding
<1>5. Folded(F, a, s) = f[n]
  BY <1>4, FoldedIs
<1>6. f[n + 1] = F[<<f[n], x>>]
  <2>1. n + 1 \in 1..Len(t) /\ (n + 1) - 1 = n
    BY <1>1
  <2> QED BY <1>1, <1>2, <2>1 DEF Folding
<1> QED BY <1>3, <1>5, <1>6 DEF t

(***************************************************************************)
(* Folding over two sequences, one after the other.                        *)
(***************************************************************************)
LEMMA FoldedConcat ==
  ASSUME NEW V, NEW C, NEW F, Combines(F, V, C), NEW a \in V, NEW s \in Seq(C), NEW t \in Seq(C)
  PROVE  Folded(F, a, s \o t) = Folded(F, Folded(F, a, s), t)
<1> DEFINE n == Len(s)
           m == Len(t)
           u == s \o t
           b == Folded(F, a, s)
<1>1. /\ u \in Seq(C) /\ n \in Nat /\ m \in Nat /\ Len(u) = n + m
      /\ \A i \in 1..n : u[i] = s[i]
      /\ \A i \in 1..m : u[n + i] = t[i]
  OBVIOUS
<1> HIDE DEF u
<1>2. PICK f \in [0..Len(u) -> V] :
        Folding(f, F, a, u) /\ DefinesFold(f, F, a, u)
  BY <1>1, FoldingExists
<1>3. Folded(F, a, u) = f[n + m]
  <2>1. u \in Seq(C) /\ Folding(f, F, a, u)
    BY <1>1, <1>2
  <2>2. Folded(F, a, u) = f[Len(u)]
    BY ONLY <2>1, Combines(F, V, C), a \in V, FoldedIs
  <2> QED BY <1>1, <2>2
<1>4. Folding(f, F, a, s)
  <2>1. ASSUME NEW i \in 1..n PROVE f[i] = F[<<f[i - 1], s[i]>>]
    <3>1. i \in 1..Len(u) /\ u[i] = s[i]
      BY <1>1
    <3>2. f[i] = F[<<f[i - 1], u[i]>>]
      BY <1>2, <3>1 DEF Folding
    <3> QED BY <3>1, <3>2
  <2> QED BY <1>2, <2>1 DEF Folding
<1>5. b = f[n] /\ b \in V
  <2>1. n \in 0..Len(u)
    BY <1>1
  <2> QED BY <1>2, <1>4, <2>1, FoldedIs
<1> HIDE DEF b
<1> DEFINE g == [i \in 0..m |-> f[n + i]]
<1>6. g[0] = b /\ g[m] = f[n + m] /\ \A i \in 0..m : g[i] = f[n + i]
  BY <1>1, <1>5
<1> HIDE DEF g
<1>7. Folding(g, F, b, t)
  <2>1. ASSUME NEW i \in 1..m PROVE g[i] = F[<<g[i - 1], t[i]>>]
    <3>1. n + i \in 1..Len(u) /\ (n + i) - 1 = n + (i - 1) /\ i \in 0..m /\ i - 1 \in 0..m
      BY <1>1
    <3>2. f[n + i] = F[<<f[n + (i - 1)], u[n + i]>>]
      BY <1>2, <3>1 DEF Folding
    <3> QED BY <1>1, <1>6, <3>1, <3>2
  <2> QED BY <1>6, <2>1 DEF Folding
<1>8. Folded(F, b, t) = g[m]
  BY <1>5, <1>7, FoldedIs
<1> QED BY <1>3, <1>6, <1>8 DEF u, b
============================================================================
