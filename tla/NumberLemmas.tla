--------------------------- MODULE NumberLemmas -----------------------------
(***************************************************************************)
(* What the proofs need of numbers: the code's unsigned counters and ring  *)
(* indices, which wrap at a width M; least elements, induction and         *)
(* recursion for the scans and loops over its arrays.  Induction is stated *)
(* over sets and recursion over functions, which the provers instantiate.  *)
(***************************************************************************)
EXTENDS Integers, WellFoundedInduction, TLAPS

(* Numbers in range, and one width above or below it. *)
LEMMA ModSmall ==
    ASSUME NEW M \in Nat \ {0}, NEW x \in Int, 0 <= x, x < M
    PROVE  x % M = x /\ (x + M) % M = x /\ (x - M) % M = x
<1>1. x % M = x
  OBVIOUS
<1>2. (x + M) % M = x
  OBVIOUS
<1>3. (x - M) % M = x
  OBVIOUS
<1> QED
  BY <1>1, <1>2, <1>3

(* A remainder lies below the width. *)
LEMMA ModRange ==
    ASSUME NEW M \in Nat \ {0}, NEW x \in Int
    PROVE  x % M \in 0 .. M - 1
OBVIOUS

(* Division with remainder is unique. *)
LEMMA ModUnique ==
    ASSUME NEW M \in Nat \ {0}, NEW x \in Int, NEW q \in Int, NEW r \in 0 .. M - 1, x = q * M + r
    PROVE  x % M = r
OBVIOUS

(* A counter that wraps at every step shows the count modulo its width. *)
LEMMA ModSucc ==
    ASSUME NEW M \in Nat \ {0}, NEW c \in Int
    PROVE  ((c % M) + 1) % M = (c + 1) % M
<1> DEFINE q == c \div M
           r == c % M
<1>1. q \in Int /\ r \in 0 .. M - 1 /\ c = q * M + r
  OBVIOUS
<1> HIDE DEF q, r
<1>2. CASE r + 1 < M
  <2>1. r + 1 \in 0 .. M - 1 /\ c + 1 = q * M + (r + 1)
    BY <1>1, <1>2
  <2>2. (c + 1) % M = r + 1
    BY <1>1, <2>1, ModUnique
  <2>3. (r + 1) % M = r + 1
    BY <2>1, ModSmall
  <2> QED
    BY <2>2, <2>3 DEF r
<1>3. CASE r + 1 = M
  <2>1. c + 1 = (q + 1) * M + 0 /\ q + 1 \in Int /\ 0 \in 0 .. M - 1
    BY <1>1, <1>3
  <2>2. (c + 1) % M = 0
    BY <1>1, <2>1, ModUnique
  <2>3. (r + 1) % M = 0
    BY <1>3
  <2> QED
    BY <2>2, <2>3 DEF r
<1> QED
  BY <1>1, <1>2, <1>3

(* The distance between two readings of a wrapping counter. *)
LEMMA Distance ==
    ASSUME NEW M \in Nat \ {0}, NEW x \in 0 .. M - 1, NEW y \in 0 .. M - 1
    PROVE  (x - y) % M = IF y <= x THEN x - y ELSE x - y + M
<1>1. CASE y <= x
  BY <1>1, ModSmall
<1>2. CASE x < y
  <2>1. x - y + M \in Int /\ 0 <= x - y + M /\ x - y + M < M
    BY <1>2
  <2>2. ((x - y + M) - M) % M = x - y + M
    BY <2>1, ModSmall
  <2>3. (x - y + M) - M = x - y
    OBVIOUS
  <2> QED
    BY <1>2, <2>2, <2>3
<1> QED
  BY <1>1, <1>2

----------------------------------------------------------------------------
(* A nonempty set of numbers has a least one. *)
LEMMA LeastNumber ==
    ASSUME NEW T \in SUBSET Nat, T # {}
    PROVE  \E x \in T : \A y \in T : x <= y
<1> DEFINE R == OpToRel(<, Nat)
<1>1. IsWellFoundedOn(R, Nat)
  BY NatLessThanWellFounded
<1>2. \A x, y \in Nat : y < x => <<y, x>> \in R
  BY DEF OpToRel
<1> HIDE DEF R
<1>3. PICK x \in T : \A y \in T : ~ (<<y, x>> \in R)
  BY <1>1, WFMin
<1>4. \A y \in T : x <= y
  <2> TAKE y \in T
  <2>1. x \in Nat /\ y \in Nat /\ ~ (y < x)
    BY <1>2, <1>3
  <2> QED
    BY <2>1
<1> QED
  BY <1>4

(* A set that holds the first number and with each number the next one,     *)
(* holds them all.                                                          *)
LEMMA Induction ==
    ASSUME NEW T, 0 \in T, \A n \in Nat : n \in T => n + 1 \in T
    PROVE  \A n \in Nat : n \in T
<1> DEFINE U == {n \in Nat : n \notin T}
<1> SUFFICES ASSUME U # {}
             PROVE  FALSE
  OBVIOUS
<1>1. PICK x \in U : \A y \in U : x <= y
  BY LeastNumber
<1>2. x \in Nat /\ x # 0
  BY <1>1
<1>3. x - 1 \in Nat /\ x - 1 + 1 = x /\ ~(x <= x - 1)
  BY <1>2
<1>4. x - 1 \in T
  BY <1>1, <1>3
<1> QED
  BY <1>1, <1>3, <1>4

(* f holds what a loop has computed after each of its n steps. *)
Iterates(f, n, V, start, step) ==
    /\ f \in [0 .. n -> V]
    /\ f[0] = start
    /\ \A i \in 1 .. n : f[i] = step[i][f[i - 1]]

LEMMA Recursion ==
    ASSUME NEW N \in Nat, NEW V, NEW start \in V, NEW step \in [1 .. N -> [V -> V]]
    PROVE  \E f : Iterates(f, N, V, start, step)
<1> DEFINE T == {n \in Nat : n <= N => \E f : Iterates(f, n, V, start, step)}
<1>1. 0 \in T
  <2> DEFINE f == [i \in 0 .. 0 |-> start]
  <2>1. Iterates(f, 0, V, start, step)
    BY DEF Iterates
  <2> HIDE DEF f
  <2> QED
    BY <2>1, Zenon
<1>2. ASSUME NEW n \in Nat, n \in T
      PROVE  n + 1 \in T
  <2> SUFFICES ASSUME n + 1 <= N
               PROVE  \E f : Iterates(f, n + 1, V, start, step)
    OBVIOUS
  <2>1. PICK f : Iterates(f, n, V, start, step)
    BY <1>2
  <2> DEFINE g == [i \in 0 .. n + 1 |-> IF i = n + 1 THEN step[n + 1][f[n]] ELSE f[i]]
  <2>2. step[n + 1][f[n]] \in V
    <3>1. f[n] \in V /\ n + 1 \in 1 .. N
      BY <2>1 DEF Iterates
    <3> QED
      BY <3>1
  <2>3. g \in [0 .. n + 1 -> V]
    BY <2>1, <2>2 DEF Iterates
  <2>4. g[0] = start
    BY <2>1 DEF Iterates
  <2>5. ASSUME NEW i \in 1 .. n + 1
        PROVE  g[i] = step[i][g[i - 1]]
    <3>1. CASE i = n + 1
      <4>1. g[i] = step[i][f[n]]
        BY <3>1
      <4>2. i - 1 = n /\ n # n + 1 /\ n \in 0 .. n + 1
        BY <3>1
      <4>3. g[n] = f[n]
        BY <4>2
      <4> HIDE DEF g
      <4> QED
        BY <4>1, <4>2, <4>3
    <3>2. CASE i \in 1 .. n
      <4>1. g[i] = f[i] /\ g[i - 1] = f[i - 1]
        BY <3>2
      <4>2. f[i] = step[i][f[i - 1]]
        BY <2>1, <3>2 DEF Iterates
      <4> HIDE DEF g
      <4> QED
        BY <4>1, <4>2
    <3> QED
      BY <3>1, <3>2
  <2> HIDE DEF g
  <2>6. Iterates(g, n + 1, V, start, step)
    BY <2>3, <2>4, <2>5 DEF Iterates
  <2> QED
    BY <2>6, Zenon
<1> HIDE DEF T
<1>3. N \in T
  BY <1>1, <1>2, Induction
<1> QED
  BY <1>3 DEF T
=============================================================================
