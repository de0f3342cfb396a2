------------------------------- MODULE Iteration -------------------------------
(***************************************************************************)
(* Lemmas about natural numbers and about functions defined by recursion   *)
(* on them, for the proofs about chains of links.  They rest on the        *)
(* well-foundedness of < rather than on an induction scheme.               *)
(***************************************************************************)
EXTENDS Integers, WellFoundedInduction, TLAPS

(* A nonempty set of naturals has a least element. *)
LEMMA LeastNat ==
  ASSUME NEW T, T \subseteq Nat, T # {}
  PROVE  \E x \in T : \A y \in T : x <= y
PROOF
<1> DEFINE R == OpToRel(<, Nat)
<1>1. IsWellFoundedOn(R, Nat)
  BY NatLessThanWellFounded
<1>2. \A x, y \in Nat : <<y, x>> \in R <=> y < x
  BY DEF OpToRel
<1> HIDE DEF R
<1>3. PICK x \in T : \A y \in T : ~ (<<y, x>> \in R)
  BY <1>1, WFMin
<1>4. ASSUME NEW y \in T PROVE x <= y
  <2>1. x \in Nat /\ y \in Nat
    OBVIOUS
  <2>2. ~ (y < x)
    BY <2>1, <1>2, <1>3
  <2> QED BY <2>1, <2>2
<1> QED BY <1>4

(* A nonempty set of naturals below N has a greatest element. *)
LEMMA GreatestNat ==
  ASSUME NEW N \in Nat, NEW T, T \subseteq 0 .. N, T # {}
  PROVE  \E x \in T : \A y \in T : y <= x
PROOF
<1> DEFINE U == {n \in Nat : \A y \in T : y <= n}
<1>1. U \subseteq Nat /\ N \in U
  OBVIOUS
<1>2. PICK n \in U : \A m \in U : n <= m
  BY <1>1, LeastNat
<1>3. n \in T
  <2> SUFFICES ASSUME n \notin T PROVE FALSE
    OBVIOUS
  <2>1. PICK y \in T : TRUE
    OBVIOUS
  <2>2. y \in Nat /\ n \in Nat /\ y <= n /\ n # 0
    BY <2>1, <1>2
  <2>3. n - 1 \in U
    BY <2>2, <1>2
  <2> QED BY <2>2, <2>3, <1>2
<1> QED BY <1>2, <1>3

(* A property of 0 that passes from each number to the next holds up to N. *)
LEMMA UpTo ==
  ASSUME NEW N \in Nat, NEW T, 0 \in T, \A n \in 0 .. N - 1 : n \in T => n + 1 \in T
  PROVE  \A n \in 0 .. N : n \in T
PROOF
<1> DEFINE Bad == {n \in 0 .. N : n \notin T}
<1> SUFFICES ASSUME Bad # {} PROVE FALSE
  OBVIOUS
<1>1. Bad \subseteq Nat
  OBVIOUS
<1>2. PICK n \in Bad : \A m \in Bad : n <= m
  BY <1>1, LeastNat
<1>3. n \in 0 .. N /\ n \notin T /\ n # 0
  OBVIOUS
<1>4. n - 1 \in 0 .. N - 1 /\ n - 1 \notin Bad
  BY <1>2, <1>3
<1>5. n - 1 \in T /\ n - 1 + 1 = n
  BY <1>3, <1>4
<1> QED BY <1>3, <1>4, <1>5

(* The functions on 0 .. N that start at a and take step G[m] to reach m. *)
Iterations(X, N, G, a) ==
  {f \in [0 .. N -> X] : f[0] = a /\ \A m \in 1 .. N : f[m] = G[m][f[m - 1]]}

(* There is one, so a definition by such a recursion has a value. *)
LEMMA Iterated ==
  ASSUME NEW X, NEW N \in Nat, NEW G, G \in [1 .. N -> [X -> X]], NEW a \in X
  PROVE  Iterations(X, N, G, a) # {}
PROOF
<1> DEFINE T == {n \in 0 .. N : \E f \in [0 .. n -> X] :
                                 f[0] = a /\ \A m \in 1 .. n : f[m] = G[m][f[m - 1]]}
<1>1. 0 \in T
  <2> DEFINE f == [i \in 0 .. 0 |-> a]
  <2>1. f \in [0 .. 0 -> X] /\ f[0] = a /\ \A m \in 1 .. 0 : f[m] = G[m][f[m - 1]]
    OBVIOUS
  <2> HIDE DEF f
  <2>2. \E e \in [0 .. 0 -> X] : e[0] = a /\ \A m \in 1 .. 0 : e[m] = G[m][e[m - 1]]
    BY <2>1
  <2>3. 0 \in 0 .. N
    OBVIOUS
  <2> QED BY <2>2, <2>3
<1>2. ASSUME NEW n \in 0 .. N - 1, n \in T PROVE n + 1 \in T
  <2>1. PICK f \in [0 .. n -> X] : f[0] = a /\ \A m \in 1 .. n : f[m] = G[m][f[m - 1]]
    BY <1>2
  <2>2. n \in Nat /\ n + 1 \in 1 .. N /\ n + 1 \in 0 .. N /\ n \in 0 .. n /\ 0 \in 0 .. n
        /\ 0 # n + 1
    OBVIOUS
  <2>3. PICK x \in X : x = G[n + 1][f[n]]
    <3>1. G[n + 1] \in [X -> X] /\ f[n] \in X
      BY <2>2
    <3> QED BY <3>1
  <2> DEFINE g == [i \in 0 .. n + 1 |-> IF i = n + 1 THEN x ELSE f[i]]
  <2> HIDE <1>2
  <2>4. g \in [0 .. n + 1 -> X]
    <3>1. \A i \in 0 .. n + 1 : i # n + 1 => i \in 0 .. n
      BY <2>2
    <3> QED BY <3>1
  <2>5. g[n + 1] = x /\ \A i \in 0 .. n : g[i] = f[i]
    BY <2>2
  <2> HIDE DEF g
  <2>6. ASSUME NEW m \in 1 .. n + 1 PROVE g[m] = G[m][g[m - 1]]
    <3>1. CASE m = n + 1
      <4>1. m - 1 = n
        BY <3>1, <2>2
      <4>2. g[m - 1] = f[n] /\ g[m] = x
        BY <3>1, <4>1, <2>2, <2>5
      <4> QED BY <3>1, <4>2, <2>3
    <3>2. CASE m # n + 1
      <4>1. m \in 1 .. n /\ m \in 0 .. n /\ m - 1 \in 0 .. n
        BY <3>2, <2>2
      <4>2. g[m] = f[m] /\ g[m - 1] = f[m - 1] /\ f[m] = G[m][f[m - 1]]
        BY <4>1, <2>1, <2>5
      <4> QED BY <4>2
    <3> QED BY <3>1, <3>2
  <2>7. g[0] = a
    BY <2>1, <2>2, <2>5
  <2> QED BY <2>2, <2>4, <2>6, <2>7
<1> HIDE DEF T
<1>3. N \in T
  <2>1. N \in 0 .. N
    OBVIOUS
  <2> QED BY <2>1, <1>1, <1>2, UpTo
<1> QED BY <1>3 DEF T, Iterations
==============================================================================
