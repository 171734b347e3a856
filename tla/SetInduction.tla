---------------------------- MODULE SetInduction ----------------------------
(***************************************************************************)
(* Induction on the natural numbers for a set: the lemma that cites it     *)
(* chooses what is in the set.  From it least and greatest members of a    *)
(* set, functions given by what follows each of their values, and the      *)
(* members of a set in the order of their numbers.                         *)
(***************************************************************************)
EXTENDS Integers, FiniteSetsExt, WellFoundedInduction, TLAPS

LEMMA LessIsWellFounded == IsWellFoundedOn({ss \in Nat \X Nat : ss[1] < ss[2]}, Nat)
BY NatLessThanWellFounded DEF OpToRel

LEMMA LeastNatural ==
  ASSUME NEW T \in SUBSET Nat, T # {}
  PROVE  \E x \in T : \A y \in T : x <= y
<1> DEFINE R == {ss \in Nat \X Nat : ss[1] < ss[2]}
<1>1. IsWellFoundedOn(R, Nat) BY LessIsWellFounded
<1>2. PICK x \in T : \A y \in T : <<y, x>> \notin R
  <2> HIDE DEF R
  <2> QED BY <1>1, WFMin
<1>3. ASSUME NEW y \in T, ~(x <= y) PROVE FALSE
  <2>1. x \in Nat /\ y \in Nat OBVIOUS
  <2>2. y < x BY <1>3, <2>1
  <2>3. <<y, x>> \in R BY <2>1, <2>2
  <2> QED BY <2>3, <1>2
<1> QED BY <1>3

LEMMA SetInduction ==
  ASSUME NEW T \in SUBSET Nat, 0 \in T, \A n \in T : n + 1 \in T
  PROVE  T = Nat
<1> SUFFICES ASSUME Nat \ T # {} PROVE FALSE
  OBVIOUS
<1>1. PICK x \in Nat \ T : \A y \in Nat \ T : x <= y BY LeastNatural
<1>2. x # 0 /\ x - 1 \in Nat BY <1>1
<1>3. x - 1 \in T BY <1>1, <1>2
<1>4. x \in T BY <1>2, <1>3
<1> QED BY <1>4

\* The smallest and the largest element, as FiniteSetsExt defines them.
LEMMA MinIsLeast ==
  ASSUME NEW T \in SUBSET Nat, T # {}
  PROVE  Min(T) \in T /\ \A y \in T : Min(T) <= y
<1>1. \E x \in T : \A y \in T : x <= y BY LeastNatural
<1> QED BY <1>1 DEF Min

LEMMA MaxIs ==
  ASSUME NEW T \in SUBSET Nat, NEW x \in T, \A y \in T : y <= x
  PROVE  Max(T) = x
<1>1. Max(T) \in T /\ \A y \in T : Max(T) >= y BY DEF Max
<1>2. Max(T) \in Nat /\ x \in Nat BY <1>1
<1> QED BY <1>1, <1>2

LEMMA MinIs ==
  ASSUME NEW T \in SUBSET Nat, NEW x \in T, \A y \in T : x <= y
  PROVE  Min(T) = x
<1>1. Min(T) \in T /\ \A y \in T : Min(T) <= y BY MinIsLeast
<1>2. Min(T) \in Nat /\ x \in Nat BY <1>1
<1> QED BY <1>1, <1>2

\* A step taken n times: f is the function that a definition by
\* f[b \in 0..n] == IF b = 0 THEN a ELSE F[f[b - 1]] chooses.
Iterates(f, a, F, n) == \A b \in 0..n : f[b] = IF b = 0 THEN a ELSE F[f[b - 1]]

LEMMA IteratesExist ==
  ASSUME NEW S, NEW a \in S, NEW F \in [S -> S], NEW n \in Nat
  PROVE  \E f \in [0..n -> S] : Iterates(f, a, F, n)
<1> USE DEF Iterates
<1> DEFINE T == {m \in Nat : \E f \in [0..m -> S] : Iterates(f, a, F, m)}
<1>1. 0 \in T
  <2> DEFINE f == [b \in 0..0 |-> a]
  <2>1. f \in [0..0 -> S] /\ \A b \in 0..0 : f[b] = IF b = 0 THEN a ELSE F[f[b - 1]] OBVIOUS
  <2> HIDE DEF f
  <2> QED BY <2>1
<1>2. ASSUME NEW m \in T PROVE m + 1 \in T
  <2>1. PICK f \in [0..m -> S] : \A b \in 0..m : f[b] = IF b = 0 THEN a ELSE F[f[b - 1]]
    OBVIOUS
  <2>2. m \in Nat /\ f[m] \in S OBVIOUS
  <2> DEFINE g == [b \in 0..(m + 1) |-> IF b <= m THEN f[b] ELSE F[f[m]]]
  <2>3. g \in [0..(m + 1) -> S] BY <2>2
  <2>4. ASSUME NEW b \in 0..(m + 1) PROVE g[b] = IF b = 0 THEN a ELSE F[g[b - 1]]
    <3>1. CASE b <= m
      <4>1. b \in 0..m BY <3>1, <2>2
      <4>2. b # 0 => b - 1 \in 0..(m + 1) /\ b - 1 <= m BY <2>2, <4>1
      <4> QED BY <2>1, <3>1, <4>1, <4>2
    <3>2. CASE b = m + 1
      <4>1. b # 0 /\ b - 1 = m /\ ~(b <= m) /\ m \in 0..(m + 1) /\ m <= m BY <2>2, <3>2
      <4> QED BY <4>1
    <3> QED BY <2>2, <3>1, <3>2
  <2>5. m + 1 \in Nat BY <2>2
  <2> HIDE DEF g
  <2> QED BY <2>3, <2>4, <2>5
<1>3. T = Nat
  <2> HIDE DEF T
  <2>1. T \subseteq Nat BY DEF T
  <2> QED BY <1>1, <1>2, <2>1, SetInduction
<1> QED BY <1>3

\* Counting in rows of d.
LEMMA RowFacts ==
  ASSUME NEW n \in Nat, NEW d \in Nat \ {0}
  PROVE  /\ n \div d \in Nat /\ n % d \in 0..(d - 1) /\ n = d * (n \div d) + (n % d)
         /\ n \div d <= n
         /\ 0 \div d = 0 /\ 0 % d = 0
<1>1. /\ n \div d \in Nat /\ n % d \in 0..(d - 1) /\ n = d * (n \div d) + (n % d)
      /\ 0 \div d = 0 /\ 0 % d = 0
  OBVIOUS
<1>2. PICK q \in Nat : q = n \div d BY <1>1
<1>3. d * q >= q OBVIOUS
<1> QED BY <1>1, <1>2, <1>3

LEMMA RowUnique ==
  ASSUME NEW n \in Nat, NEW d \in Nat \ {0}, NEW q \in Nat, NEW r \in 0..(d - 1),
         n = d * q + r
  PROVE  n \div d = q /\ n % d = r
<1>1. PICK x \in Nat, y \in 0..(d - 1) : /\ x = n \div d /\ y = n % d
                                        /\ n = d * x + y
  BY RowFacts
<1>2. ~(x > q)
  <2> SUFFICES ASSUME x > q PROVE FALSE
    OBVIOUS
  <2>1. PICK e \in Nat : x = q + 1 + e
    <3>1. x - q - 1 \in Nat /\ x = q + 1 + (x - q - 1) OBVIOUS
    <3> QED BY <3>1
  <2>2. d * x = d * q + d + d * e BY <2>1
  <2>3. d * e >= 0 /\ d * q \in Nat /\ d * x \in Nat OBVIOUS
  <2> QED BY <1>1, <2>2, <2>3
<1>3. ~(q > x)
  <2> SUFFICES ASSUME q > x PROVE FALSE
    OBVIOUS
  <2>1. PICK e \in Nat : q = x + 1 + e
    <3>1. q - x - 1 \in Nat /\ q = x + 1 + (q - x - 1) OBVIOUS
    <3> QED BY <3>1
  <2>2. d * q = d * x + d + d * e BY <2>1
  <2>3. d * e >= 0 /\ d * q \in Nat /\ d * x \in Nat OBVIOUS
  <2> QED BY <1>1, <2>2, <2>3
<1>4. x = q BY <1>2, <1>3
<1>5. y = r BY <1>1, <1>4
<1> QED BY <1>1, <1>4, <1>5

LEMMA NextInRow ==
  ASSUME NEW n \in Nat, NEW d \in Nat \ {0}
  PROVE  /\ (n % d) < d - 1 => (n + 1) \div d = n \div d /\ (n + 1) % d = (n % d) + 1
         /\ (n % d) = d - 1 => (n + 1) \div d = n \div d + 1 /\ (n + 1) % d = 0
<1>1. PICK q \in Nat, r \in 0..(d - 1) : q = n \div d /\ r = n % d /\ n = d * q + r
  BY RowFacts
<1>2. n + 1 \in Nat OBVIOUS
<1>3. CASE r < d - 1
  <2>1. r + 1 \in 0..(d - 1) /\ n + 1 = d * q + (r + 1) BY <1>1, <1>3
  <2>2. (n + 1) \div d = q /\ (n + 1) % d = r + 1 BY <1>2, <2>1, RowUnique
  <2> QED BY <1>1, <1>3, <2>2
<1>4. CASE r = d - 1
  <2>1. q + 1 \in Nat /\ 0 \in 0..(d - 1) /\ n + 1 = d * (q + 1) + 0 BY <1>1, <1>4
  <2>2. (n + 1) \div d = q + 1 /\ (n + 1) % d = 0 BY <1>2, <2>1, RowUnique
  <2> QED BY <1>1, <1>4, <2>2
<1> QED BY <1>3, <1>4
===============================================================================
