--------------------------- MODULE DatapoolProofs ---------------------------
(* The datapool for every parameter table, every sequence of firmwares and  *)
(* every width of a byte.  First the codec, whose loops are proved by        *)
(* induction; then the store, the requests and the record on flash.          *)
EXTENDS Datapool, NumberLemmas, SequenceTheorems

----------------------------------------------------------------------------
(* The codec *)

LEMMA RadixType == Radix \in Nat \ {0} /\ Radix % 2 = 0
BY DatapoolAssumption

(* Shifting by one more byte multiplies by the values of a byte. *)
Weights(f) ==
    /\ f \in [0 .. 4 -> Nat \ {0}] /\ f[0] = 1
    /\ \A k \in 1 .. 4 : f[k] = Radix * f[k - 1]

LEMMA PlaceDef == Weights(Place)
<1> DEFINE V == Nat \ {0}
           step == [i \in 1 .. 4 |-> [v \in V |-> Radix * v]]
           P(f) == f = [k \in 0 .. 4 |-> IF k = 0 THEN 1 ELSE Radix * f[k - 1]]
<1>1. Radix \in V
  BY RadixType
<1>2. \A v \in V : Radix * v \in V
  <2> TAKE v \in V
  <2>1. Radix * v \in Nat /\ Radix * v # 0
    BY <1>1
  <2> QED
    BY <2>1
<1>3. step \in [1 .. 4 -> [V -> V]] /\ 1 \in V
  BY <1>2
<1>4. PICK f : Iterates(f, 4, V, 1, step)
  <2> HIDE DEF V, step
  <2> QED
    BY <1>3, Recursion
<1>5. /\ f \in [0 .. 4 -> V] /\ f[0] = 1
      /\ \A k \in 1 .. 4 : f[k] = Radix * f[k - 1]
  <2>1. f \in [0 .. 4 -> V] /\ f[0] = 1 /\ \A k \in 1 .. 4 : f[k] = step[k][f[k - 1]]
    BY <1>4 DEF Iterates
  <2>2. ASSUME NEW k \in 1 .. 4
        PROVE  f[k] = Radix * f[k - 1]
    <3>1. k - 1 \in 0 .. 4
      OBVIOUS
    <3>2. f[k - 1] \in V
      BY <2>1, <3>1
    <3>3. step[k][f[k - 1]] = Radix * f[k - 1]
      BY <3>2
    <3> QED
      BY <2>1, <3>3
  <2> QED
    BY <2>1, <2>2
<1>6. P(f)
  <2>1. \A k \in 0 .. 4 : f[k] = IF k = 0 THEN 1 ELSE Radix * f[k - 1]
    BY <1>5
  <2> QED
    BY <1>5, <2>1
<1>7. Place = CHOOSE g : P(g)
  BY Zenon DEF Place
<1> HIDE DEF P
<1>8. P(Place)
  BY <1>6, <1>7, Zenon
<1> DEFINE pl == Place
<1>9. pl = [k \in 0 .. 4 |-> IF k = 0 THEN 1 ELSE Radix * pl[k - 1]]
  BY <1>8 DEF P
<1> HIDE DEF pl
<1>10. /\ DOMAIN pl = 0 .. 4 /\ pl[0] = 1
       /\ \A k \in 1 .. 4 : pl[k] = Radix * pl[k - 1]
  BY <1>9
<1>11. pl[0] \in V /\ pl[1] \in V
  BY <1>1, <1>2, <1>10
<1>12. pl[2] \in V
  BY <1>2, <1>10, <1>11
<1>13. pl[3] \in V
  BY <1>2, <1>10, <1>12
<1>14. pl[4] \in V
  BY <1>2, <1>10, <1>13
<1>15. pl \in [0 .. 4 -> V]
  <2>1. \A k \in 0 .. 4 : pl[k] \in V
    BY <1>11, <1>12, <1>13, <1>14
  <2>2. pl = [k \in 0 .. 4 |-> pl[k]]
    BY <1>9
  <2> HIDE DEF V
  <2> QED
    BY <2>1, <2>2
<1> QED
  BY <1>10, <1>15 DEF Weights, pl

(* A type holds an even number of values. *)
LEMMA SpanEven ==
    ASSUME NEW type \in Types
    PROVE  /\ Width(type) \in 1 .. 4
           /\ Span(type) \in Nat \ {0}
           /\ \E h \in Nat \ {0} : Span(type) = 2 * h /\ Span(type) \div 2 = h
<1>1. Width(type) \in 1 .. 4
  BY DEF Types, Width
<1> DEFINE w == Width(type)
           x == Place[w - 1]
<1>2. x \in Nat \ {0} /\ Place[w] = Radix * x
  BY <1>1, PlaceDef DEF Weights
<1>3. PICK r \in Nat \ {0} : Radix = 2 * r
  <2>1. Radix \div 2 \in Nat \ {0} /\ Radix = 2 * (Radix \div 2)
    BY RadixType
  <2> QED
    BY <2>1
<1> DEFINE h == r * x
<1> HIDE DEF x
<1>4. h \in Nat \ {0}
  BY <1>2, <1>3
<1>5. Radix * x = 2 * h
  BY <1>2, <1>3
<1> HIDE DEF h
<1>6. Span(type) = 2 * h /\ Span(type) \in Nat \ {0}
  BY <1>2, <1>4, <1>5 DEF Span
<1>7. (2 * h) \div 2 = h
  BY <1>4
<1> QED
  BY <1>1, <1>4, <1>6, <1>7

LEMMA ValueFields ==
    ASSUME NEW v
    PROVE  v \in Value <=> /\ v = [type |-> v.type, number |-> v.number]
                           /\ v.type \in Types /\ v.number \in Numbers(v.type)
<1>1. ASSUME v \in Value
      PROVE  v = [type |-> v.type, number |-> v.number] /\ v.type \in Types /\ v.number \in Numbers(v.type)
  <2>1. PICK t \in Types : v \in [type : {t}, number : Numbers(t)]
    BY <1>1 DEF Value
  <2> QED
    BY <2>1
<1>2. ASSUME v = [type |-> v.type, number |-> v.number], v.type \in Types, v.number \in Numbers(v.type)
      PROVE  v \in Value
  <2>1. v \in [type : {v.type}, number : Numbers(v.type)]
    BY <1>2
  <2> QED
    BY <1>2, <2>1 DEF Value
<1> QED
  BY <1>1, <1>2

(* dp_value_bits and dp_value_from_bits are inverse, both ways. *)
LEMMA BitsInverse ==
    ASSUME NEW v \in Value
    PROVE  Bits(v) \in 0 .. Span(v.type) - 1 /\ FromBits(v.type, Bits(v)) = v
<1> DEFINE t == v.type
           n == v.number
           S == Span(t)
<1>1. t \in Types /\ n \in Numbers(t) /\ v = [type |-> t, number |-> n]
  BY ValueFields
<1>2. PICK h \in Nat \ {0} : S = 2 * h /\ S \div 2 = h /\ S \in Nat \ {0}
  BY <1>1, SpanEven
<1>3. Bits(v) = n % S
  BY DEF Bits
<1>4. CASE Signed(t)
  <2>1. n \in -h .. h - 1
    BY <1>1, <1>2, <1>4 DEF Numbers
  <2> HIDE DEF S, n
  <2>2. CASE 0 <= n
    <3>1. n % S = n /\ n \in 0 .. S - 1 /\ ~(n >= h)
      BY <1>2, <2>1, <2>2, ModSmall
    <3>2. FromBits(t, n).number = n /\ FromBits(t, n).type = t /\ FromBits(t, n) = [type |-> t, number |-> n]
      BY <1>2, <3>1 DEF FromBits, S
    <3> QED
      BY <1>1, <1>3, <3>1, <3>2 DEF S
  <2>3. CASE n < 0
    <3> DEFINE m == n + S
    <3>1. m \in Int /\ 0 <= m /\ m < S /\ m >= h /\ m - S = n /\ m \in 0 .. S - 1
      BY <1>2, <2>1, <2>3
    <3> HIDE DEF m
    <3>2. (m - S) % S = m
      BY <1>2, <3>1, ModSmall
    <3>3. n % S = m
      BY <3>1, <3>2
    <3>4. Span(t) = S /\ Span(t) \div 2 = h
      BY <1>2 DEF S
    <3>5. FromBits(t, m) = [type |-> t, number |-> n]
      BY <1>4, <3>1, <3>4 DEF FromBits
    <3> QED
      BY <1>1, <1>3, <3>1, <3>3, <3>5 DEF S
  <2> QED
    BY <2>1, <2>2, <2>3
<1>5. CASE ~ Signed(t)
  <2>1. n \in 0 .. S - 1
    BY <1>1, <1>5 DEF Numbers
  <2> HIDE DEF S, n
  <2>2. n % S = n
    BY <1>2, <2>1, ModSmall
  <2>3. FromBits(t, n) = [type |-> t, number |-> n]
    BY <1>5 DEF FromBits
  <2> QED
    BY <1>1, <1>3, <2>1, <2>2, <2>3 DEF S
<1> QED
  BY <1>4, <1>5

LEMMA FromBitsInverse ==
    ASSUME NEW type \in Types, NEW b \in 0 .. Span(type) - 1
    PROVE  /\ FromBits(type, b) \in Value /\ FromBits(type, b).type = type
           /\ Bits(FromBits(type, b)) = b
<1> DEFINE S == Span(type)
           v == FromBits(type, b)
<1>1. PICK h \in Nat \ {0} : S = 2 * h /\ S \div 2 = h /\ S \in Nat \ {0}
  BY SpanEven
<1>2. v.type = type /\ v = [type |-> v.type, number |-> v.number]
  BY DEF FromBits
<1>3. Bits(v) = v.number % S
  BY <1>2 DEF Bits
<1>4. CASE Signed(type) /\ b >= h
  <2>1. v.number = b - S
    BY <1>1, <1>4 DEF FromBits
  <2> HIDE DEF v, S
  <2>2. (b - S) % S = b
    BY <1>1, <1>4, ModSmall DEF S
  <2>3. b - S \in -h .. h - 1
    BY <1>1, <1>4 DEF S
  <2>4. v.number \in Numbers(type)
    BY <1>1, <1>4, <2>1, <2>3 DEF Numbers, S
  <2> QED
    BY <1>2, <1>3, <2>1, <2>2, <2>4, ValueFields DEF v
<1>5. CASE ~(Signed(type) /\ b >= h)
  <2>1. v.number = b
    BY <1>1, <1>5 DEF FromBits
  <2> HIDE DEF v, S
  <2>2. b % S = b
    BY <1>1, ModSmall DEF S
  <2>3. Signed(type) => b \in -h .. h - 1
    BY <1>1, <1>5 DEF S
  <2>4. v.number \in Numbers(type)
    BY <1>1, <2>1, <2>3 DEF Numbers, S
  <2> QED
    BY <1>2, <1>3, <2>1, <2>2, <2>4, ValueFields DEF v
<1> QED
  BY <1>4, <1>5


(* The loop of migris_dp_value_decode. *)
Strings(w) == [1 .. w -> Byte]

Shifts(f, bytes, w) ==
    /\ f \in [0 .. w -> Nat] /\ f[0] = 0
    /\ \A k \in 1 .. w : f[k] = f[k - 1] * Radix + bytes[k]

LEMMA ByteString ==
    ASSUME NEW w \in Nat, NEW bytes \in Strings(w)
    PROVE  bytes \in Seq(Byte) /\ Len(bytes) = w
BY SeqDef, LenProperties DEF Strings

LEMMA ShiftedDef ==
    ASSUME NEW w \in Nat, NEW bytes \in Strings(w)
    PROVE  Shifts(Shifted(bytes), bytes, w)
<1> DEFINE step == [i \in 1 .. w |-> [v \in Nat |-> v * Radix + bytes[i]]]
           P(f) == f = [k \in 0 .. w |-> IF k = 0 THEN 0 ELSE f[k - 1] * Radix + bytes[k]]
<1>1. Len(bytes) = w
  BY ByteString
<1>2. \A i \in 1 .. w : bytes[i] \in Nat
  BY RadixType DEF Strings, Byte
<1>3. \A i \in 1 .. w, v \in Nat : v * Radix + bytes[i] \in Nat
  <2> TAKE i \in 1 .. w, v \in Nat
  <2>1. v * Radix \in Nat
    BY RadixType
  <2> QED
    BY <1>2, <2>1
<1>4. step \in [1 .. w -> [Nat -> Nat]]
  BY <1>3
<1>5. PICK f : Iterates(f, w, Nat, 0, step)
  <2> HIDE DEF step
  <2> QED
    BY <1>4, Recursion
<1>6. Shifts(f, bytes, w)
  <2>1. f \in [0 .. w -> Nat] /\ f[0] = 0 /\ \A k \in 1 .. w : f[k] = step[k][f[k - 1]]
    BY <1>5 DEF Iterates
  <2>2. ASSUME NEW k \in 1 .. w
        PROVE  f[k] = f[k - 1] * Radix + bytes[k]
    <3>1. k - 1 \in 0 .. w
      OBVIOUS
    <3>2. f[k - 1] \in Nat
      BY <2>1, <3>1
    <3>3. step[k][f[k - 1]] = f[k - 1] * Radix + bytes[k]
      BY <3>2
    <3> QED
      BY <2>1, <3>3
  <2> QED
    BY <2>1, <2>2 DEF Shifts
<1>7. P(f)
  <2>1. \A k \in 0 .. w : f[k] = IF k = 0 THEN 0 ELSE f[k - 1] * Radix + bytes[k]
    BY <1>6 DEF Shifts
  <2> QED
    BY <1>6, <2>1 DEF Shifts
<1>8. Shifted(bytes) = CHOOSE g : P(g)
  BY <1>1, Zenon DEF Shifted
<1> HIDE DEF P
<1>9. P(Shifted(bytes))
  BY <1>7, <1>8, Zenon
<1> DEFINE sh == Shifted(bytes)
<1>10. sh = [k \in 0 .. w |-> IF k = 0 THEN 0 ELSE sh[k - 1] * Radix + bytes[k]]
  BY <1>9 DEF P
<1> HIDE DEF sh
<1>11. /\ DOMAIN sh = 0 .. w /\ sh[0] = 0 /\ sh = [k \in 0 .. w |-> sh[k]]
       /\ \A k \in 1 .. w : sh[k] = sh[k - 1] * Radix + bytes[k]
  BY <1>10
<1> DEFINE T == {n \in Nat : n <= w => sh[n] \in Nat}
<1>12. 0 \in T
  BY <1>11
<1>13. ASSUME NEW n \in Nat, n \in T
       PROVE  n + 1 \in T
  <2> SUFFICES ASSUME n + 1 <= w
               PROVE  sh[n + 1] \in Nat
    OBVIOUS
  <2>1. n + 1 \in 1 .. w /\ n + 1 - 1 = n /\ sh[n] \in Nat
    BY <1>13
  <2>2. sh[n + 1] = sh[n] * Radix + bytes[n + 1]
    <3> DEFINE i == n + 1
    <3>1. i \in 1 .. w /\ i - 1 = n
      BY <2>1
    <3> HIDE DEF i
    <3>2. sh[i] = sh[i - 1] * Radix + bytes[i]
      BY <1>11, <3>1
    <3>3. sh[i] = sh[n] * Radix + bytes[i]
      BY <3>1, <3>2, Zenon
    <3> QED
      BY <3>3, Zenon DEF i
  <2> QED
    BY <1>3, <2>1, <2>2
<1> HIDE DEF T
<1>14. \A n \in Nat : n \in T
  BY <1>12, <1>13, Induction
<1>15. \A k \in 0 .. w : sh[k] \in Nat
  BY <1>14 DEF T
<1>16. sh \in [0 .. w -> Nat]
  BY <1>11, <1>15
<1> QED
  BY <1>11, <1>16 DEF Shifts, sh

LEMMA NextShift ==
    ASSUME NEW w \in Nat, NEW bytes, NEW f, Shifts(f, bytes, w), NEW n \in Nat, n + 1 <= w
    PROVE  f[n + 1] = f[n] * Radix + bytes[n + 1]
<1> DEFINE i == n + 1
<1>1. i \in 1 .. w /\ i - 1 = n
  OBVIOUS
<1> HIDE DEF i
<1>2. f[i] = f[i - 1] * Radix + bytes[i]
  BY <1>1 DEF Shifts
<1>3. f[i] = f[n] * Radix + bytes[i]
  BY <1>1, <1>2, Zenon
<1> QED
  BY <1>3, Zenon DEF i

LEMMA NextPlace ==
    ASSUME NEW n \in Nat, n + 1 <= 4
    PROVE  Place[n + 1] = Radix * Place[n]
<1> DEFINE i == n + 1
<1>1. i \in 1 .. 4 /\ i - 1 = n
  OBVIOUS
<1> HIDE DEF i
<1>2. Place[i] = Radix * Place[i - 1]
  BY <1>1, PlaceDef DEF Weights
<1>3. Place[i] = Radix * Place[n]
  BY <1>1, <1>2, Zenon
<1> QED
  BY <1>3, Zenon DEF i

(* After k bytes the loop has a number of k bytes. *)
LEMMA ShiftedRange ==
    ASSUME NEW w \in 0 .. 4, NEW bytes \in Strings(w), NEW k \in 0 .. w
    PROVE  Shifted(bytes)[k] \in 0 .. Place[k] - 1
<1> DEFINE f == Shifted(bytes)
           T == {n \in Nat : n <= w => f[n] < Place[n]}
<1>1. Shifts(f, bytes, w)
  BY ShiftedDef
<1> HIDE DEF f
<1>2. 0 \in T
  BY <1>1, PlaceDef DEF Shifts, Weights
<1>3. ASSUME NEW n \in Nat, n \in T
      PROVE  n + 1 \in T
  <2> SUFFICES ASSUME n + 1 <= w
               PROVE  f[n + 1] < Place[n + 1]
    OBVIOUS
  <2> DEFINE x == f[n]
             p == Place[n]
             b == bytes[n + 1]
             R == Radix
  <2>1. n + 1 \in 1 .. w /\ n \in 0 .. w /\ n + 1 - 1 = n /\ n \in 0 .. 4 /\ n + 1 \in 1 .. 4
    OBVIOUS
  <2>2. x \in Nat /\ p \in Nat /\ x < p /\ b \in 0 .. R - 1 /\ R \in Nat \ {0}
    <3>1. f[n] \in Nat
      BY <1>1, <2>1 DEF Shifts
    <3>2. Place[n] \in Nat
      BY <2>1, PlaceDef DEF Weights
    <3>3. b \in 0 .. R - 1
      BY <2>1 DEF Strings, Byte
    <3>4. f[n] < Place[n]
      BY <1>3, <2>1
    <3> QED
      BY <3>1, <3>2, <3>3, <3>4, RadixType
  <2>3. f[n + 1] = x * R + b /\ Place[n + 1] = R * p
    <3>1. f[n + 1] = f[n] * Radix + bytes[n + 1]
      BY <1>1, <2>1, NextShift
    <3>2. Place[n + 1] = Radix * Place[n]
      BY <2>1, NextPlace
    <3> QED
      BY <3>1, <3>2, Zenon
  <2> HIDE DEF x, p, b, R
  <2>4. x * R + R <= R * p
    <3>1. PICK d \in Nat : p = x + 1 + d
      <4>1. p - x - 1 \in Nat /\ p = x + 1 + (p - x - 1)
        BY <2>2
      <4> QED
        BY <4>1
    <3>2. R * (x + 1 + d) = x * R + R + R * d /\ R * d \in Nat /\ x * R \in Nat
      BY <2>2
    <3> QED
      BY <2>2, <3>1, <3>2
  <2>5. x * R \in Nat /\ R * p \in Nat
    BY <2>2
  <2> DEFINE y == x * R
             z == R * p
  <2>6. y + b < z
    <3>1. y + R <= z /\ y \in Nat /\ z \in Nat
      BY <2>4, <2>5
    <3> HIDE DEF y, z
    <3> QED
      BY <2>2, <3>1
  <2> QED
    BY <2>3, <2>6
<1> HIDE DEF T
<1>4. k \in Nat /\ k \in T
  BY <1>2, <1>3, Induction
<1>5. f[k] < Place[k]
  BY <1>4 DEF T
<1>6. f[k] \in Nat
  BY <1>1 DEF Shifts
<1>7. Place[k] \in Nat
  BY PlaceDef DEF Weights
<1> QED
  BY <1>5, <1>6, <1>7 DEF f


(* Division by a product, and of a number by the radix it ends in. *)
LEMMA DivProduct ==
    ASSUME NEW b \in Nat, NEW p \in Nat \ {0}, NEW r \in Nat \ {0}
    PROVE  b \div (r * p) = (b \div p) \div r
<1>1. b \div (p * r) = (b \div p) \div r
  OBVIOUS
<1>2. p * r = r * p
  OBVIOUS
<1> QED
  BY <1>1, <1>2

LEMMA DivMod ==
    ASSUME NEW q \in Nat, NEW r \in Nat \ {0}
    PROVE  /\ q \div r \in Nat /\ q % r \in 0 .. r - 1
           /\ (q \div r) * r + (q % r) = q
<1>1. q \div r \in Int /\ q % r \in 0 .. r - 1 /\ q = r * (q \div r) + (q % r)
  OBVIOUS
<1>2. q \div r \in Nat
  OBVIOUS
<1>3. r * (q \div r) = (q \div r) * r
  BY <1>1
<1> QED
  BY <1>1, <1>2, <1>3

LEMMA LastDigit ==
    ASSUME NEW x \in Nat, NEW r \in Nat \ {0}, NEW b \in 0 .. r - 1
    PROVE  (x * r + b) \div r = x /\ (x * r + b) % r = b
<1> DEFINE y == x * r + b
<1>1. y \in Nat /\ y = x * r + b
  OBVIOUS
<1> HIDE DEF y
<1>2. y % r = b
  BY <1>1, ModUnique
<1>3. y \div r = x
  BY <1>1
<1> QED
  BY <1>2, <1>3 DEF y

(* The bytes of a value. *)
LEMMA EncodeType ==
    ASSUME NEW v \in Value
    PROVE  /\ Encode(v) \in Strings(Width(v.type)) /\ v.type \in Types
           /\ \A i \in 1 .. Width(v.type) : Encode(v)[i] = (Bits(v) \div Place[Width(v.type) - i]) % Radix
<1> DEFINE w == Width(v.type)
<1>1. v.type \in Types
  BY ValueFields
<1>2. w \in 1 .. 4 /\ Bits(v) \in Nat
  BY <1>1, SpanEven, BitsInverse
<1> HIDE DEF w
<1>3. ASSUME NEW i \in 1 .. w
      PROVE  (Bits(v) \div Place[w - i]) % Radix \in Byte
  <2>1. w - i \in 0 .. 4
    BY <1>2
  <2>2. Place[w - i] \in Nat \ {0}
    BY <2>1, PlaceDef DEF Weights
  <2> DEFINE q == Bits(v) \div Place[w - i]
  <2>3. q \in Nat
    BY <1>2, <2>2, DivMod
  <2> HIDE DEF q
  <2>4. q % Radix \in Byte
    BY <2>3, RadixType, ModRange DEF Byte
  <2> QED
    BY <2>4 DEF q
<1> QED
  BY <1>1, <1>3 DEF Encode, Strings, w

(* What migris_dp_value_encode wrote, migris_dp_value_decode reads back. *)
LEMMA DecodeOfEncode ==
    ASSUME NEW v \in Value
    PROVE  Decode(v.type, Encode(v)) = v
<1> DEFINE w == Width(v.type)
           B == Bits(v)
           e == Encode(v)
           f == Shifted(e)
           T == {n \in Nat : n <= w => f[n] = B \div Place[w - n]}
<1>1. v.type \in Types /\ e \in Strings(w) /\ \A i \in 1 .. w : e[i] = (B \div Place[w - i]) % Radix
  BY EncodeType
<1>2. w \in 1 .. 4 /\ w \in Nat /\ B \in Nat /\ B < Place[w] /\ Place[w] \in Nat
  <2>1. w \in 1 .. 4
    BY <1>1, SpanEven
  <2>2. B \in 0 .. Place[w] - 1
    BY BitsInverse DEF Span
  <2>3. Place[w] \in Nat
    BY <2>1, PlaceDef DEF Weights
  <2> QED
    BY <2>1, <2>2, <2>3
<1>3. Shifts(f, e, w)
  BY <1>1, <1>2, ShiftedDef
<1> HIDE DEF w, B, e, f
<1>4. 0 \in T
  <2>1. w - 0 = w /\ B \div Place[w] = 0
    BY <1>2
  <2> QED
    BY <1>3, <2>1 DEF Shifts
<1>5. ASSUME NEW n \in Nat, n \in T
      PROVE  n + 1 \in T
  <2> SUFFICES ASSUME n + 1 <= w
               PROVE  f[n + 1] = B \div Place[w - (n + 1)]
    OBVIOUS
  <2> DEFINE m == w - (n + 1)
             p == Place[m]
             q == B \div p
  <2>1. m \in Nat /\ m \in 0 .. 4 /\ m + 1 <= 4 /\ m + 1 = w - n /\ n + 1 \in 1 .. w /\ n <= w
    BY <1>2
  <2>2. p \in Nat \ {0}
    <3> HIDE DEF m
    <3> QED
      BY <2>1, PlaceDef DEF Weights
  <2>3. Place[w - n] = Radix * p
    <3>1. Place[m + 1] = Radix * p
      BY <2>1, NextPlace
    <3> QED
      BY <2>1, <3>1, Zenon
  <2>4. e[n + 1] = q % Radix
    BY <1>1, <2>1
  <2>5. f[n + 1] = f[n] * Radix + e[n + 1]
    BY <1>2, <1>3, NextShift
  <2>6. f[n] = B \div (Radix * p)
    <3>1. f[n] = B \div Place[w - n]
      BY <1>5, <2>1
    <3> QED
      BY <2>3, <3>1, Zenon
  <2> HIDE DEF m, p
  <2>7. f[n] = q \div Radix /\ q \in Nat
    BY <1>2, <2>2, <2>6, RadixType, DivProduct, DivMod
  <2> HIDE DEF q
  <2>8. f[n + 1] = (q \div Radix) * Radix + (q % Radix)
    BY <2>4, <2>5, <2>7, Zenon
  <2>9. f[n + 1] = q
    BY <2>7, <2>8, RadixType, DivMod
  <2> QED
    BY <2>9 DEF m, p, q
<1> HIDE DEF T
<1>6. w \in T
  BY <1>2, <1>4, <1>5, Induction
<1>7. f[w] = B
  <2>1. f[w] = B \div Place[w - w] /\ w - w = 0 /\ Place[0] = 1
    BY <1>2, <1>6, PlaceDef DEF T, Weights
  <2>2. f[w] = B \div 1
    BY <2>1, Zenon
  <2> QED
    BY <1>2, <2>2
<1>8. Len(e) = w
  BY <1>1, <1>2, ByteString
<1>9. Decode(v.type, e) = FromBits(v.type, B)
  BY <1>7, <1>8 DEF Decode, f
<1> QED
  BY <1>9, BitsInverse DEF e, B

(* And what it read, migris_dp_value_encode writes again. *)
LEMMA EncodeOfDecode ==
    ASSUME NEW type \in Types, NEW bytes \in Strings(Width(type))
    PROVE  /\ Decode(type, bytes) \in Value /\ Decode(type, bytes).type = type
           /\ Encode(Decode(type, bytes)) = bytes
<1> DEFINE w == Width(type)
           f == Shifted(bytes)
           X == f[w]
           v == Decode(type, bytes)
           T == {n \in Nat : n <= w => X \div Place[n] = f[w - n]}
<1>1. w \in 1 .. 4 /\ w \in Nat
  BY SpanEven
<1>2. Shifts(f, bytes, w)
  BY <1>1, ShiftedDef
<1>3. X \in 0 .. Span(type) - 1
  <2>1. w \in 0 .. 4 /\ w \in 0 .. w
    BY <1>1
  <2>2. X \in 0 .. Place[w] - 1
    BY <2>1, ShiftedRange
  <2> QED
    BY <2>2 DEF Span
<1>4. v = FromBits(type, X)
  BY <1>1, ByteString DEF Decode
<1> HIDE DEF w, f, X, v
<1>5. v \in Value /\ v.type = type /\ Bits(v) = X
  BY <1>3, <1>4, FromBitsInverse
<1>6. X \in Nat
  BY <1>3
<1>7. 0 \in T
  <2>1. w - 0 = w /\ Place[0] = 1 /\ X \div 1 = X
    BY <1>1, <1>6, PlaceDef DEF Weights
  <2>2. X \div Place[0] = X /\ f[w - 0] = X
    BY <2>1, Zenon DEF X
  <2> QED
    BY <2>2
<1>8. ASSUME NEW n \in Nat, n \in T
      PROVE  n + 1 \in T
  <2> SUFFICES ASSUME n + 1 <= w
               PROVE  X \div Place[n + 1] = f[w - (n + 1)]
    OBVIOUS
  <2> DEFINE m == w - (n + 1)
             p == Place[n]
             x == f[m]
             b == bytes[m + 1]
  <2>1. m \in Nat /\ m \in 0 .. w /\ m + 1 <= w /\ m + 1 = w - n /\ m + 1 \in 1 .. w /\ n <= w
        /\ n \in 0 .. 4 /\ n + 1 <= 4
    BY <1>1
  <2>2. X \div p = f[w - n]
    BY <1>8, <2>1
  <2>3. p \in Nat \ {0}
    BY <2>1, PlaceDef DEF Weights
  <2>4. Place[n + 1] = Radix * p
    BY <2>1, NextPlace
  <2> HIDE DEF m
  <2>5. x \in Nat /\ f[m + 1] = x * Radix + b
    <3>1. x \in Nat
      BY <1>2, <2>1 DEF Shifts
    <3>2. f[m + 1] = x * Radix + b
      BY <1>1, <1>2, <2>1, NextShift
    <3> QED
      BY <3>1, <3>2
  <2>6. b \in 0 .. Radix - 1
    BY <2>1 DEF Strings, Byte, w
  <2>7. X \div p = x * Radix + b
    BY <2>1, <2>2, <2>5, Zenon
  <2> HIDE DEF p, x, b
  <2>8. X \div (Radix * p) = (X \div p) \div Radix
    BY <1>6, <2>3, RadixType, DivProduct
  <2>9. X \div (Radix * p) = x
    BY <2>5, <2>6, <2>7, <2>8, RadixType, LastDigit
  <2>10. X \div Place[n + 1] = x
    BY <2>4, <2>9, Zenon
  <2> QED
    BY <2>10 DEF x, m
<1> HIDE DEF T
<1>9. \A n \in Nat : n \in T
  BY <1>7, <1>8, Induction
<1>10. ASSUME NEW i \in 1 .. w
       PROVE  Encode(v)[i] = bytes[i]
  <2>1. w - i \in Nat /\ w - i <= w /\ w - (w - i) = i /\ i - 1 \in Nat /\ i - 1 + 1 = i /\ i - 1 + 1 <= w
    BY <1>1
  <2>2. X \div Place[w - i] = f[i]
    <3>1. X \div Place[w - i] = f[w - (w - i)]
      BY <1>9, <2>1 DEF T
    <3> QED
      BY <2>1, <3>1, Zenon
  <2> DEFINE n == i - 1
  <2>3. f[i] = f[n] * Radix + bytes[i] /\ f[n] \in Nat
    <3>1. n \in 0 .. w /\ n \in Nat /\ n + 1 <= w /\ n + 1 = i
      BY <1>1, <2>1
    <3> HIDE DEF n
    <3>2. f[n + 1] = f[n] * Radix + bytes[n + 1]
      BY <1>1, <1>2, <3>1, NextShift
    <3>3. f[n] \in Nat
      BY <1>2, <3>1 DEF Shifts
    <3> QED
      BY <3>1, <3>2, <3>3, Zenon
  <2>4. bytes[i] \in 0 .. Radix - 1
    BY DEF Strings, Byte, w
  <2> HIDE DEF n
  <2>5. (f[n] * Radix + bytes[i]) % Radix = bytes[i]
    BY <2>3, <2>4, RadixType, LastDigit
  <2>6. Encode(v)[i] = (X \div Place[w - i]) % Radix
    BY <1>5, EncodeType DEF w
  <2> QED
    BY <2>2, <2>3, <2>5, <2>6, Zenon
<1>11. Encode(v) \in Strings(w)
  BY <1>5, EncodeType DEF w
<1>12. Encode(v) = bytes
  <2> DEFINE g == Encode(v)
             D == 1 .. w
  <2>1. bytes \in [D -> Byte] /\ g \in [D -> Byte] /\ \A i \in D : g[i] = bytes[i]
    BY <1>10, <1>11 DEF w, Strings
  <2> HIDE DEF g, D
  <2>2. g = bytes
    BY <2>1
  <2> QED
    BY <2>2 DEF g
<1> QED
  BY <1>5, <1>12 DEF v


----------------------------------------------------------------------------
(* The inductive invariant *)

(* A pool over the table d: its parameters with their access and types. *)
Suits(p, d) ==
    /\ p \in [DOMAIN d -> Parameter]
    /\ \A id \in DOMAIN d :
          p[id].id = id /\ p[id].access = d[id].access /\ p[id].value.type = d[id].value.type

(* What is restored of a record; no record is as good as an empty one. *)
Entries(record) == IF record = NoRecord THEN {} ELSE Taken(record[1])
EntriesOf(p)    == {Entry(p, id) : id \in DOMAIN p}
EntriesOK(es) ==
    /\ \A e \in es : e.type \in Types /\ e.bytes \in Strings(Width(e.type))
    /\ \A e1, e2 \in es : e1.id = e2.id => e1 = e2

(* The values g that ground set are in the pool p; and in the record es,    *)
(* with the types they have in p.                                           *)
Holds(p, g) == \A id \in DOMAIN g : id \in DOMAIN p /\ Encode(p[id].value) = g[id]
Stores(es, p, g) ==
    \A id \in DOMAIN g : \E e \in es : e.id = id /\ e.type = p[id].value.type /\ e.bytes = g[id]

(* The items of a request that pass one accepted over the pool q, and what  *)
(* pass two makes of one of them.                                           *)
Accepted(b, q) ==
    /\ b \in Seq([id : Ids, bytes : Seq(Byte)])
    /\ \A k \in 1 .. Len(b) :
          /\ b[k].id \in DOMAIN q /\ q[b[k].id].access = "RW"
          /\ b[k].bytes \in Strings(Width(q[b[k].id].value.type))
Parsed(q, item) == Decode(q[item.id].value.type, item.bytes)

(* The items t are those of b after the first n. *)
Remaining(t, b, q, n) ==
    /\ t \in Seq([id : Ids, value : Value]) /\ n \in Nat /\ Len(b) = n + Len(t)
    /\ \A k \in 1 .. Len(t) : t[k].id = b[n + k].id /\ t[k].value = Parsed(q, b[n + k])

(* The pool p is q with the first n items of b applied: the last one wins.  *)
Applied(p, q, b, n) ==
    /\ \A id \in DOMAIN p : (\A k \in 1 .. n : b[k].id # id) => p[id] = q[id]
    /\ \A k \in 1 .. n :
          (\A i \in k + 1 .. n : b[i].id # b[k].id) =>
              p[b[k].id] = [q[b[k].id] EXCEPT !.value = Parsed(q, b[k])]

Applying ==
    /\ Suits(before, Defaults(Firmware[fw])) /\ Accepted(batch, before)
    /\ Remaining(todo, batch, before, Len(batch) - Len(todo))
    /\ Applied(pool, before, batch, Len(batch) - Len(todo))
    /\ Len(todo) < Len(batch) => dirty
    /\ Holds(before, ground)

DInv ==
    /\ fw \in DOMAIN Firmware /\ Suits(pool, Defaults(Firmware[fw]))
    /\ dirty \in BOOLEAN /\ phase \in {"top", "tc", "apply"}
    /\ EntriesOK(Entries(flash)) /\ CleanMeansSaved
    /\ ~dirty => Stores(Entries(flash), pool, ground)
    /\ phase # "apply" => todo = <<>> /\ batch = <<>> /\ Holds(pool, ground)
    /\ phase = "apply" => Applying
    /\ phase # "top" => report = <<>>
    /\ ReadYourWrites


----------------------------------------------------------------------------
(* The store and its record *)

(* Writing the value of a parameter leaves the rest of it. *)
LEMMA WithValue ==
    ASSUME NEW p \in Parameter, NEW x \in Value
    PROVE  /\ [p EXCEPT !.value = x] \in Parameter
           /\ [p EXCEPT !.value = x].id = p.id /\ [p EXCEPT !.value = x].access = p.access
           /\ [p EXCEPT !.value = x].value = x
BY DEF Parameter

LEMMA SameParameter ==
    ASSUME NEW p \in Parameter, NEW q \in Parameter, p.id = q.id, p.access = q.access
    PROVE  [p EXCEPT !.value = q.value] = q
BY DEF Parameter

LEMMA ParameterFields ==
    ASSUME NEW p \in Parameter
    PROVE  p.id \in Ids /\ p.value \in Value /\ p.value.type \in Types
<1>1. p.id \in Ids /\ p.value \in Value
  BY DEF Parameter
<1> QED
  BY <1>1, ValueFields

LEMMA DefaultsSuit ==
    ASSUME NEW f \in DOMAIN Firmware
    PROVE  Suits(Defaults(Firmware[f]), Defaults(Firmware[f]))
<1> DEFINE table == Firmware[f]
           d == Defaults(table)
<1>1. \A k \in DOMAIN table : table[k] \in Parameter
  <2>1. table \in Seq(Parameter)
    BY DatapoolAssumption
  <2> HIDE DEF table
  <2> QED
    BY <2>1, LenProperties, ElementOfSeq
<1> HIDE DEF table
<1>2. CASE ValidTable(table)
  <2> DEFINE D == {table[k].id : k \in DOMAIN table}
  <2>1. d = [id \in D |-> table[CHOOSE k \in DOMAIN table : table[k].id = id]]
    BY <1>2 DEF Defaults
  <2>2. ASSUME NEW id \in D
        PROVE  d[id] \in Parameter /\ d[id].id = id
    <3> DEFINE k == CHOOSE i \in DOMAIN table : table[i].id = id
    <3>1. \E i \in DOMAIN table : table[i].id = id
      OBVIOUS
    <3>2. k \in DOMAIN table /\ table[k].id = id
      BY <3>1, Zenon
    <3>3. d[id] = table[k]
      BY <2>1
    <3> HIDE DEF k, d
    <3> QED
      BY <1>1, <3>2, <3>3
  <2> HIDE DEF d, D
  <2>3. DOMAIN d = D /\ d \in [D -> Parameter]
    BY <2>1, <2>2
  <2>4. Suits(d, d)
    BY <2>2, <2>3 DEF Suits
  <2> QED
    BY <2>4 DEF d, table
<1>3. CASE ~ ValidTable(table)
  <2>1. d = Empty
    BY <1>3 DEF Defaults
  <2> HIDE DEF d
  <2>2. DOMAIN d = {} /\ d \in [{} -> Parameter]
    BY <2>1 DEF Empty
  <2>3. Suits(d, d)
    BY <2>2 DEF Suits
  <2> QED
    BY <2>3 DEF d, table
<1> QED
  BY <1>2, <1>3

(* Restoring a record over the defaults d. *)
LEMMA Restored ==
    ASSUME NEW d, Suits(d, d), NEW es, EntriesOK(es)
    PROVE  /\ Suits(Restore(d, es), d)
           /\ \A id \in DOMAIN d : \A e \in es :
                 Matches(e, d[id]) => Restore(d, es)[id] = [d[id] EXCEPT !.value = Decode(e.type, e.bytes)]
           /\ \A id \in DOMAIN d : (\A e \in es : ~ Matches(e, d[id])) => Restore(d, es)[id] = d[id]
<1> DEFINE p == Restore(d, es)
           found(id) == {e \in es : Matches(e, d[id])}
           one(id) == CHOOSE e \in found(id) : TRUE
<1>1. p = [id \in DOMAIN d |-> IF found(id) = {} THEN d[id]
                               ELSE [d[id] EXCEPT !.value = Decode(one(id).type, one(id).bytes)]]
  BY DEF Restore
<1>2. DOMAIN p = DOMAIN d
  BY <1>1
<1>3. ASSUME NEW id \in DOMAIN d
      PROVE  p[id] = IF found(id) = {} THEN d[id]
                     ELSE [d[id] EXCEPT !.value = Decode(one(id).type, one(id).bytes)]
  BY <1>1
<1>4. ASSUME NEW id \in DOMAIN d
      PROVE  d[id] \in Parameter /\ d[id].id = id
  BY DEF Suits
<1> HIDE DEF p
<1>5. ASSUME NEW id \in DOMAIN d, NEW e \in es, Matches(e, d[id])
      PROVE  p[id] = [d[id] EXCEPT !.value = Decode(e.type, e.bytes)]
  <2>1. found(id) # {} /\ e \in found(id)
    BY <1>5
  <2>2. one(id) \in found(id)
    BY <2>1, Zenon
  <2>3. one(id) \in es /\ one(id).id = e.id
    BY <1>5, <2>2 DEF Matches
  <2>4. one(id) = e
    BY <2>3 DEF EntriesOK
  <2> QED
    BY <1>3, <2>1, <2>4
<1>6. ASSUME NEW id \in DOMAIN d, \A e \in es : ~ Matches(e, d[id])
      PROVE  p[id] = d[id]
  <2>1. found(id) = {}
    BY <1>6
  <2> QED
    BY <1>3, <2>1
<1>7. ASSUME NEW id \in DOMAIN d
      PROVE  /\ p[id] \in Parameter /\ p[id].id = id /\ p[id].access = d[id].access
             /\ p[id].value.type = d[id].value.type
  <2>1. CASE \A e \in es : ~ Matches(e, d[id])
    BY <1>4, <1>6, <2>1
  <2>2. ASSUME NEW e \in es, Matches(e, d[id])
        PROVE  /\ p[id] \in Parameter /\ p[id].id = id /\ p[id].access = d[id].access
               /\ p[id].value.type = d[id].value.type
    <3> DEFINE x == Decode(e.type, e.bytes)
    <3>1. e.type \in Types /\ e.bytes \in Strings(Width(e.type)) /\ e.type = d[id].value.type
      BY <2>2 DEF EntriesOK, Matches
    <3>2. x \in Value /\ x.type = e.type
      BY <3>1, EncodeOfDecode
    <3>3. p[id] = [d[id] EXCEPT !.value = x]
      BY <1>5, <2>2
    <3> HIDE DEF x
    <3> QED
      BY <1>4, <3>1, <3>2, <3>3, WithValue
  <2> QED
    BY <2>1, <2>2
<1>8. p = [id \in DOMAIN d |-> p[id]]
  BY <1>1 DEF p
<1>9. Suits(p, d)
  BY <1>7, <1>8 DEF Suits
<1> QED
  BY <1>5, <1>6, <1>9 DEF p

(* A boot restores what there is. *)
LEMMA BootRestores ==
    ASSUME NEW f \in DOMAIN Firmware, NEW record, EntriesOK(Entries(record))
    PROVE  Booted(f, record) = Restore(Defaults(Firmware[f]), Entries(record))
<1> DEFINE d == Defaults(Firmware[f])
<1>1. Suits(d, d)
  BY DefaultsSuit
<1>2. CASE record # NoRecord
  BY <1>2 DEF Booted, Entries, Deserialize
<1>3. CASE record = NoRecord
  <2>1. Booted(f, record) = d /\ Entries(record) = {}
    BY <1>3 DEF Booted, Entries
  <2> DEFINE q == Restore(d, {})
  <2> HIDE DEF d
  <2>2. Suits(q, d) /\ \A id \in DOMAIN d : q[id] = d[id]
    BY <1>1, <1>3, <2>1, Restored
  <2> HIDE DEF q
  <2>3. q = d
    BY <1>1, <2>2 DEF Suits
  <2> QED
    BY <2>1, <2>3 DEF q, d
<1> QED
  BY <1>2, <1>3

(* The entries of a record are restored in full if they can all be read.    *)
LEMMA ReadableIsTaken ==
    ASSUME NEW r, Len(r.entries) \in Nat, r.count = Len(r.entries),
           \A k \in 1 .. Len(r.entries) : Readable(r.entries[k])
    PROVE  Taken(r) = {r.entries[k] : k \in 1 .. Len(r.entries)}
<1> DEFINE n == Len(r.entries)
           I == {i \in 1 .. n : i <= r.count /\ \A j \in 1 .. i : Readable(r.entries[j])}
<1>1. I = 1 .. n
  OBVIOUS
<1>2. Taken(r) = {r.entries[k] : k \in I}
  BY DEF Taken
<1> HIDE DEF I
<1> QED
  BY <1>1, <1>2

(* What is taken of a record of another firmware. *)
LEMMA ForeignTaken ==
    ASSUME NEW r, Foreign(r)
    PROVE  EntriesOK(Taken(r))
<1> DEFINE n == Len(r.entries)
           I == {i \in 1 .. n : i <= r.count /\ \A j \in 1 .. i : Readable(r.entries[j])}
<1>1. Taken(r) = {r.entries[k] : k \in I} /\ I \subseteq 1 .. n /\ n \in Nat
  BY DEF Taken, Foreign
<1>2. ASSUME NEW k \in I
      PROVE  /\ r.entries[k].type \in Types
             /\ r.entries[k].bytes \in Strings(Width(r.entries[k].type))
  <2> DEFINE e == r.entries[k]
             w == Len(e.bytes)
  <2>1. k \in 1 .. k
    BY <1>1
  <2>2. Readable(e)
    BY <2>1
  <2>3. e.bytes \in Seq(Byte)
    BY <1>1 DEF Foreign
  <2>4. e.bytes \in [1 .. w -> Byte]
    BY <2>3, LenProperties
  <2> HIDE DEF e
  <2>5. e.type \in Types /\ e.bytes \in Strings(Width(e.type))
    BY <2>2, <2>4 DEF Readable, Strings
  <2> QED
    BY <2>5 DEF e
<1>3. \A j, k \in I : r.entries[j].id = r.entries[k].id => j = k
  BY <1>1 DEF Foreign
<1> HIDE DEF I
<1> QED
  BY <1>1, <1>2, <1>3 DEF EntriesOK

(* What the save tick writes brings the pool back. *)
LEMMA SavedIsRestored ==
    ASSUME NEW d, Suits(d, d), NEW p, Suits(p, d)
    PROVE  /\ EntriesOK(EntriesOf(p))
           /\ Restore(d, EntriesOf(p)) = p
           /\ \A id \in DOMAIN p : \E e \in EntriesOf(p) :
                 e.id = id /\ e.type = p[id].value.type /\ e.bytes = Encode(p[id].value)
<1> DEFINE entry(id) == Entry(p, id)
           es == EntriesOf(p)
<1>1. es = {entry(id) : id \in DOMAIN p}
  BY DEF EntriesOf
<1>2. DOMAIN p = DOMAIN d /\ p \in [DOMAIN d -> Parameter] /\ d \in [DOMAIN d -> Parameter]
  BY DEF Suits
<1>3. ASSUME NEW id \in DOMAIN p
      PROVE  /\ entry(id) \in es /\ entry(id).id = id /\ entry(id).type = p[id].value.type
             /\ entry(id).bytes = Encode(p[id].value)
             /\ p[id].value \in Value /\ p[id].value.type \in Types
             /\ Encode(p[id].value) \in Strings(Width(p[id].value.type))
  <2>1. p[id].value \in Value
    BY <1>2, ParameterFields
  <2> QED
    BY <1>1, <2>1, EncodeType DEF Entry
<1>4. ASSUME NEW e \in es
      PROVE  \E id \in DOMAIN p : e = entry(id)
  BY <1>1
<1> HIDE DEF es, entry
<1>5. EntriesOK(es)
  <2>1. ASSUME NEW e \in es
        PROVE  e.type \in Types /\ e.bytes \in Strings(Width(e.type))
    <3>1. PICK id \in DOMAIN p : e = entry(id)
      BY <1>4
    <3> QED
      BY <1>3, <3>1
  <2>2. ASSUME NEW e1 \in es, NEW e2 \in es, e1.id = e2.id
        PROVE  e1 = e2
    <3>1. PICK i1 \in DOMAIN p : e1 = entry(i1)
      BY <1>4
    <3>2. PICK i2 \in DOMAIN p : e2 = entry(i2)
      BY <1>4
    <3> QED
      BY <1>3, <2>2, <3>1, <3>2
  <2> QED
    BY <2>1, <2>2 DEF EntriesOK
<1>6. ASSUME NEW id \in DOMAIN d
      PROVE  Restore(d, es)[id] = p[id]
  <2> DEFINE e == entry(id)
             x == p[id].value
  <2>1. e \in es /\ e.id = id /\ e.type = x.type /\ e.bytes = Encode(x) /\ x \in Value
    BY <1>2, <1>3
  <2>2. d[id].id = id /\ x.type = d[id].value.type /\ p[id].id = id /\ p[id].access = d[id].access
        /\ p[id] \in Parameter /\ d[id] \in Parameter
    BY <1>2 DEF Suits
  <2> HIDE DEF e
  <2>3. Matches(e, d[id])
    BY <2>1, <2>2 DEF Matches
  <2>4. Restore(d, es)[id] = [d[id] EXCEPT !.value = Decode(e.type, e.bytes)]
    BY <1>5, <2>1, <2>3, Restored
  <2>5. Decode(e.type, e.bytes) = x
    BY <2>1, DecodeOfEncode
  <2>6. [d[id] EXCEPT !.value = x] = p[id]
    BY <2>2, SameParameter
  <2> HIDE DEF x
  <2> QED
    BY <2>4, <2>5, <2>6
<1>7. Restore(d, es) = p
  <2> DEFINE q == Restore(d, es)
             D == DOMAIN d
  <2>1. q \in [D -> Parameter] /\ p \in [D -> Parameter] /\ \A id \in D : q[id] = p[id]
    BY <1>2, <1>5, <1>6, Restored DEF Suits
  <2> HIDE DEF q, D
  <2>2. q = p
    BY <2>1
  <2> QED
    BY <2>2 DEF q
<1>8. \A id \in DOMAIN p : \E e \in es :
                 e.id = id /\ e.type = p[id].value.type /\ e.bytes = Encode(p[id].value)
  BY <1>3
<1> QED
  BY <1>5, <1>7, <1>8 DEF es


(* All of what the save tick writes is taken. *)
LEMMA SerializeTaken ==
    ASSUME NEW f \in DOMAIN Firmware, NEW p, Suits(p, Defaults(Firmware[f]))
    PROVE  Taken(Serialize(f, p)) = EntriesOf(p)
<1> DEFINE table == Firmware[f]
           d == Defaults(table)
           r == Serialize(f, p)
<1>1. DOMAIN p = DOMAIN d /\ p \in [DOMAIN d -> Parameter]
  BY DEF Suits
<1>2. CASE ~ ValidTable(table)
  <2>1. r = [count |-> 0, entries |-> <<>>] /\ DOMAIN p = {}
    BY <1>1, <1>2 DEF Serialize, Defaults, Empty
  <2>2. Taken(r) = {}
    BY <2>1 DEF Taken
  <2> QED
    BY <2>1, <2>2 DEF EntriesOf
<1>3. CASE ValidTable(table)
  <2> DEFINE n == Len(table)
             e == [k \in 1 .. n |-> Entry(p, table[k].id)]
  <2>1. table \in Seq(Parameter) /\ n \in Nat /\ DOMAIN table = 1 .. n
    BY DatapoolAssumption, LenProperties
  <2>2. r = [count |-> n, entries |-> e]
    BY <1>3, <2>1 DEF Serialize
  <2>3. DOMAIN d = {table[k].id : k \in 1 .. n}
    BY <1>3, <2>1 DEF Defaults
  <2>4. Len(e) = n
    BY <2>1
  <2>5. ASSUME NEW k \in 1 .. n
        PROVE  Readable(Entry(p, table[k].id))
    <3> DEFINE id == table[k].id
    <3>1. id \in DOMAIN d
      BY <2>3
    <3>2. p[id].value \in Value
      BY <1>1, <3>1, ParameterFields
    <3> HIDE DEF id
    <3>3. p[id].value.type \in Types /\ Encode(p[id].value) \in Strings(Width(p[id].value.type))
      BY <3>2, EncodeType
    <3>4. Len(Encode(p[id].value)) = Width(p[id].value.type)
      BY <3>3 DEF Strings, Width, Types
    <3>5. Readable(Entry(p, id))
      BY <3>3, <3>4 DEF Readable, Entry
    <3> QED
      BY <3>5 DEF id
  <2>6. \A k \in 1 .. n : e[k] = Entry(p, table[k].id)
    OBVIOUS
  <2> HIDE DEF e, n
  <2>7. Taken(r) = {e[k] : k \in 1 .. n}
    <3>1. r.entries = e /\ r.count = n
      BY <2>2
    <3> HIDE DEF r
    <3> QED
      BY <2>1, <2>4, <2>5, <2>6, <3>1, ReadableIsTaken
  <2>8. {e[k] : k \in 1 .. n} = {Entry(p, id) : id \in DOMAIN d}
    BY <2>3, <2>6
  <2> QED
    BY <1>1, <2>7, <2>8 DEF EntriesOf
<1> QED
  BY <1>2, <1>3


----------------------------------------------------------------------------
(* The invariant is inductive *)

LEMMA DInitInv == DInit => DInv
<1> SUFFICES ASSUME DInit
             PROVE  DInv
  OBVIOUS
<1> DEFINE d == Defaults(Firmware[fw])
<1>1. /\ fw \in DOMAIN Firmware /\ pool = Booted(fw, flash) /\ dirty = FALSE /\ flash \in OldRecords
      /\ phase = "top" /\ todo = <<>> /\ report = <<>> /\ batch = <<>> /\ ground = Empty
  BY DEF DInit
<1>2. EntriesOK(Entries(flash))
  <2>1. CASE flash = NoRecord
    BY <2>1 DEF Entries, EntriesOK
  <2>2. CASE flash # NoRecord
    BY <1>1, <2>2, RecordAssumption, ForeignTaken DEF Entries
  <2> QED
    BY <2>1, <2>2
<1>3. Suits(pool, d)
  BY <1>1, <1>2, BootRestores, DefaultsSuit, Restored
<1>4. DOMAIN ground = {} /\ DOMAIN report = {}
  BY <1>1 DEF Empty
<1>5. Stores(Entries(flash), pool, ground) /\ Holds(pool, ground) /\ ReadYourWrites
  BY <1>4 DEF Stores, Holds, ReadYourWrites
<1>6. CleanMeansSaved
  BY <1>1 DEF CleanMeansSaved
<1> QED
  BY <1>1, <1>2, <1>3, <1>5, <1>6 DEF DInv

(* The save tick. *)
LEMMA SaveStep ==
    ASSUME DInv, SaveTick
    PROVE  DInv'
<1> DEFINE d == Defaults(Firmware[fw])
<1>1. /\ fw \in DOMAIN Firmware /\ Suits(pool, d) /\ Suits(d, d) /\ Holds(pool, ground)
      /\ todo = <<>> /\ batch = <<>> /\ EntriesOK(Entries(flash))
  BY DefaultsSuit DEF DInv, SaveTick
<1>2. /\ dirty' = FALSE /\ phase' = "tc" /\ report' = <<>>
      /\ fw' = fw /\ pool' = pool /\ todo' = todo /\ batch' = batch /\ ground' = ground
  BY DEF SaveTick
<1>3. /\ EntriesOK(Entries(flash')) /\ Booted(fw, flash') = pool
      /\ Stores(Entries(flash'), pool, ground)
  <2>1. CASE ~ dirty
    BY <2>1 DEF DInv, SaveTick, CleanMeansSaved
  <2>2. CASE dirty
    <3> DEFINE es == EntriesOf(pool)
    <3>1. flash' = Record(Serialize(fw, pool))
      BY <2>2 DEF SaveTick
    <3>2. Entries(flash') = es
      BY <1>1, <3>1, SerializeTaken DEF Entries, Record, NoRecord
    <3>3. /\ EntriesOK(es) /\ Restore(d, es) = pool
          /\ \A id \in DOMAIN pool : \E e \in es :
                 e.id = id /\ e.type = pool[id].value.type /\ e.bytes = Encode(pool[id].value)
      BY <1>1, SavedIsRestored
    <3> HIDE DEF es
    <3>4. Booted(fw, flash') = pool
      BY <1>1, <3>2, <3>3, BootRestores
    <3>5. Stores(es, pool, ground)
      BY <1>1, <3>3 DEF Stores, Holds
    <3> QED
      BY <3>2, <3>3, <3>4, <3>5
  <2> QED
    BY <2>1, <2>2 DEF DInv
<1>4. CleanMeansSaved'
  BY <1>2, <1>3 DEF CleanMeansSaved
<1>5. ReadYourWrites'
  BY <1>2 DEF ReadYourWrites
<1> QED
  BY <1>1, <1>2, <1>3, <1>4, <1>5 DEF DInv

(* A telecommand that leaves the pool alone. *)
LEMMA QuietStep ==
    ASSUME DInv, OtherTc \/ (\E ids \in IdLists : ReportValues(ids)) \/ UNCHANGED dvars
    PROVE  DInv'
<1>1. /\ UNCHANGED <<fw, pool, dirty, flash, todo, batch, before, ground>>
      /\ (phase' = "top" /\ phase = "tc") \/ (phase' = phase /\ report' = report)
  BY DEF OtherTc, ReportValues, dvars
<1>2. ReadYourWrites'
  <2>1. CASE OtherTc \/ UNCHANGED dvars
    BY <2>1 DEF OtherTc, dvars, DInv, ReadYourWrites
  <2>2. ASSUME NEW ids \in IdLists, ReportValues(ids)
        PROVE  ReadYourWrites'
    <3>1. CASE report' = report
      BY <2>2, <3>1 DEF ReportValues, DInv, ReadYourWrites
    <3>2. CASE report' = [k \in DOMAIN ids |-> [id |-> ids[k], bytes |-> Encode(pool[ids[k]].value)]]
      <4>1. Holds(pool, ground) /\ ground' = ground
        BY <2>2 DEF ReportValues, DInv
      <4> QED
        BY <3>2, <4>1 DEF ReadYourWrites, Holds
    <3> QED
      BY <2>2, <3>1, <3>2 DEF ReportValues
  <2> QED
    BY <2>1, <2>2
<1>3. CleanMeansSaved'
  BY <1>1 DEF DInv, CleanMeansSaved
<1>4. phase' # "top" => report' = <<>>
  BY <1>1 DEF DInv
<1>5. phase' = "apply" => Applying'
  BY <1>1 DEF DInv, Applying
<1>6. phase' # "apply" => todo = <<>> /\ batch = <<>> /\ Holds(pool, ground)
  BY <1>1 DEF DInv
<1> QED
  BY <1>1, <1>2, <1>3, <1>4, <1>5, <1>6 DEF DInv

(* Sequences and their elements. *)
LEMMA Sequence ==
    ASSUME NEW S, NEW n \in Nat, NEW s \in [1 .. n -> S]
    PROVE  s \in Seq(S) /\ Len(s) = n
<1>1. s \in Seq(S)
  BY SeqDef
<1>2. DOMAIN s = 1 .. n
  OBVIOUS
<1> QED
  BY <1>1, <1>2, LenProperties

LEMMA Retyped ==
    ASSUME NEW T, NEW S, NEW s \in Seq(T), \A k \in 1 .. Len(s) : s[k] \in S
    PROVE  s \in Seq(S)
<1>1. s \in [1 .. Len(s) -> T] /\ Len(s) \in Nat
  BY LenProperties
<1>2. s \in [1 .. Len(s) -> S]
  BY <1>1
<1> QED
  BY <1>1, <1>2, Sequence

(* Requests are sequences of items. *)
LEMMA RequestType ==
    ASSUME NEW items \in Requests
    PROVE  items \in Seq(Items) /\ \A i \in Items : i.id \in Ids /\ i.bytes \in Seq(Byte)
<1>1. WellSized \subseteq Items /\ MaxPerTc + 1 \in Nat
  BY DatapoolAssumption DEF WellSized
<1>2. items \in Seq(Items)
  <2>1. CASE items = <<>>
    BY <2>1
  <2>2. ASSUME NEW i \in Items, items = <<i>>
        PROVE  items \in Seq(Items)
    BY <2>2
  <2>3. ASSUME NEW i \in WellSized, NEW j \in Items, items = <<i, j>>
        PROVE  items \in Seq(Items)
    BY <1>1, <2>3
  <2>4. ASSUME NEW i \in WellSized, items = [k \in 1 .. MaxPerTc + 1 |-> i]
        PROVE  items \in Seq(Items)
    <3>1. items \in [1 .. MaxPerTc + 1 -> Items]
      BY <1>1, <2>4
    <3> QED
      BY <1>1, <3>1, SeqDef
  <2> QED
    BY <2>1, <2>2, <2>3, <2>4 DEF Requests
<1>3. ASSUME NEW i \in Items
      PROVE  i.id \in Ids /\ i.bytes \in Seq(Byte)
  <2>1. i.id \in Ids /\ i.bytes \in ByteStrings
    BY DEF Items
  <2>2. PICK n \in 0 .. MaxBytes : i.bytes \in [1 .. n -> Byte]
    BY <2>1 DEF ByteStrings
  <2>3. n \in Nat
    BY DatapoolAssumption
  <2> QED
    BY <2>1, <2>2, <2>3, SeqDef
<1> QED
  BY <1>2, <1>3


(* Pass one of a set. *)
LEMMA SetValuesStep ==
    ASSUME DInv, NEW items \in Requests, SetValues(items)
    PROVE  DInv'
<1> DEFINE d == Defaults(Firmware[fw])
<1>1. /\ fw \in DOMAIN Firmware /\ Suits(pool, d) /\ phase = "tc" /\ report = <<>> /\ Holds(pool, ground)
      /\ UNCHANGED <<fw, pool, dirty, flash, report, ground>>
  BY DEF DInv, SetValues
<1>2. CleanMeansSaved' /\ ReadYourWrites'
  BY <1>1 DEF DInv, CleanMeansSaved, ReadYourWrites
<1>3. CASE ~ Settable(items)
  <2>1. phase' = "top" /\ UNCHANGED <<todo, batch, before>>
    BY <1>3 DEF SetValues
  <2> QED
    BY <1>1, <1>2, <2>1 DEF DInv
<1>4. CASE Settable(items)
  <2> DEFINE t == Decoded(items)
  <2>1. phase' = "apply" /\ todo' = t /\ batch' = items /\ before' = pool
    BY <1>4 DEF SetValues
  <2>2. items \in Seq(Items) /\ \A i \in Items : i.id \in Ids /\ i.bytes \in Seq(Byte)
    BY RequestType
  <2>3. /\ DOMAIN items = 1 .. Len(items) /\ Len(items) \in Nat
        /\ \A k \in 1 .. Len(items) : items[k] \in Items
    BY <2>2, LenProperties, ElementOfSeq
  <2>4. ASSUME NEW k \in 1 .. Len(items)
        PROVE  /\ items[k].id \in DOMAIN pool /\ pool[items[k].id].access = "RW"
               /\ items[k].bytes \in Strings(Width(pool[items[k].id].value.type))
               /\ items[k] \in [id : Ids, bytes : Seq(Byte)]
               /\ Parsed(pool, items[k]) \in Value /\ items[k].id \in Ids
    <3> DEFINE i == items[k]
               type == pool[i.id].value.type
    <3>1. i \in Items /\ i.id \in Ids /\ i.bytes \in Seq(Byte) /\ i = [id |-> i.id, bytes |-> i.bytes]
      BY <2>2, <2>3 DEF Items
    <3>2. i.id \in DOMAIN pool /\ pool[i.id].access = "RW" /\ Len(i.bytes) = Width(type)
      BY <1>4, <2>3 DEF Settable
    <3>3. type \in Types
      BY <1>1, <3>2, ParameterFields DEF Suits
    <3> HIDE DEF i, type
    <3>4. i.bytes \in Strings(Width(type))
      BY <3>1, <3>2, LenProperties DEF Strings
    <3>5. Decode(type, i.bytes) \in Value
      BY <3>3, <3>4, EncodeOfDecode
    <3>6. i \in [id : Ids, bytes : Seq(Byte)]
      BY <3>1
    <3> QED
      BY <3>1, <3>2, <3>4, <3>5, <3>6 DEF i, type, Parsed
  <2>5. Accepted(items, pool)
    <3>1. items \in Seq([id : Ids, bytes : Seq(Byte)])
      <4> DEFINE S == [id : Ids, bytes : Seq(Byte)]
      <4>1. \A k \in 1 .. Len(items) : items[k] \in S
        BY <2>4
      <4> HIDE DEF S
      <4>2. items \in Seq(S)
        BY <2>2, <4>1, Retyped
      <4> QED
        BY <4>2 DEF S
    <3> QED
      BY <2>4, <3>1 DEF Accepted
  <2>6. t = [k \in 1 .. Len(items) |-> [id |-> items[k].id, value |-> Parsed(pool, items[k])]]
    BY <2>3 DEF Decoded, Parsed
  <2> HIDE DEF t
  <2>7. t \in Seq([id : Ids, value : Value]) /\ Len(t) = Len(items)
    <3>1. t \in [1 .. Len(items) -> [id : Ids, value : Value]]
      BY <2>4, <2>6
    <3> QED
      BY <2>3, <3>1, Sequence
  <2>8. Remaining(t, items, pool, 0)
    <3>1. \A k \in 1 .. Len(t) : 0 + k = k /\ t[k].id = items[k].id /\ t[k].value = Parsed(pool, items[k])
      BY <2>3, <2>6, <2>7
    <3> QED
      BY <2>3, <2>7, <3>1 DEF Remaining
  <2>9. Applied(pool, pool, items, 0)
    BY DEF Applied
  <2>10. Len(items) - Len(t) = 0 /\ ~(Len(t) < Len(items))
    BY <2>3, <2>7
  <2>11. Applying'
    BY <1>1, <2>1, <2>5, <2>8, <2>9, <2>10 DEF Applying
  <2> QED
    BY <1>1, <1>2, <2>1, <2>11 DEF DInv
<1> QED
  BY <1>3, <1>4

(* In pass two every item is one that migris_datapool_set takes. *)
LEMMA ItemSettable ==
    ASSUME DInv, phase = "apply", NEW k \in 1 .. Len(todo)
    PROVE  /\ SetOk(pool, todo[k].id, todo[k].value) /\ todo[k].value \in Value
           /\ todo[k].value.type = before[todo[k].id].value.type
           /\ todo[k].id \in DOMAIN before
<1> DEFINE n == Len(batch) - Len(todo)
           i == batch[n + k]
           v == todo[k].value
           id == todo[k].id
<1>1. /\ Suits(pool, Defaults(Firmware[fw])) /\ Suits(before, Defaults(Firmware[fw]))
      /\ Accepted(batch, before) /\ Remaining(todo, batch, before, n)
  BY DEF DInv, Applying
<1>2. n \in Nat /\ Len(batch) = n + Len(todo) /\ id = i.id /\ v = Parsed(before, i)
  BY <1>1 DEF Remaining
<1>3. Len(todo) \in Nat /\ n + k \in 1 .. Len(batch)
  <2>1. Len(todo) \in Nat
    BY <1>1, LenProperties DEF Remaining
  <2> HIDE DEF n
  <2> QED
    BY <1>2, <2>1
<1> HIDE DEF n
<1>4. /\ i.id \in DOMAIN before /\ before[i.id].access = "RW"
      /\ i.bytes \in Strings(Width(before[i.id].value.type))
  BY <1>1, <1>3 DEF Accepted
<1>5. before[i.id].value.type \in Types
  BY <1>1, <1>4, ParameterFields DEF Suits
<1> HIDE DEF i, v, id
<1>6. v \in Value /\ v.type = before[i.id].value.type
  BY <1>2, <1>4, <1>5, EncodeOfDecode DEF Parsed
<1>7. i.id \in DOMAIN pool /\ pool[i.id].access = "RW" /\ pool[i.id].value.type = before[i.id].value.type
  BY <1>1, <1>4 DEF Suits
<1>8. SetOk(pool, id, v)
  BY <1>2, <1>6, <1>7 DEF SetOk
<1>9. v.type = before[id].value.type /\ id \in DOMAIN before
  BY <1>2, <1>4, <1>6
<1> QED
  BY <1>6, <1>8, <1>9 DEF v, id

LEMMA SameRest ==
    ASSUME NEW p \in Parameter, NEW q \in Parameter, NEW x, p.id = q.id, p.access = q.access
    PROVE  [p EXCEPT !.value = x] = [q EXCEPT !.value = x]
BY DEF Parameter

(* Pass two writes one item. *)
LEMMA ApplySetStep ==
    ASSUME DInv, ApplySet
    PROVE  DInv'
<1> DEFINE d == Defaults(Firmware[fw])
           n == Len(batch) - Len(todo)
           id == todo[1].id
           v == todo[1].value
           t == Tail(todo)
           p == [pool EXCEPT ![id].value = v]
<1>1. /\ phase = "apply" /\ todo # <<>> /\ fw \in DOMAIN Firmware
      /\ Suits(pool, d) /\ Suits(before, d) /\ Accepted(batch, before)
      /\ Remaining(todo, batch, before, n) /\ Applied(pool, before, batch, n)
      /\ Holds(before, ground) /\ report = <<>>
  BY DEF DInv, Applying, ApplySet
<1>2. /\ todo \in Seq([id : Ids, value : Value]) /\ n \in Nat /\ Len(batch) = n + Len(todo)
      /\ \A k \in 1 .. Len(todo) : todo[k].id = batch[n + k].id /\ todo[k].value = Parsed(before, batch[n + k])
  BY <1>1 DEF Remaining
<1>3. /\ Head(todo) = todo[1] /\ t \in Seq([id : Ids, value : Value]) /\ Len(t) = Len(todo) - 1
      /\ Len(todo) \in Nat /\ 1 \in 1 .. Len(todo) /\ \A k \in 1 .. Len(t) : t[k] = todo[k + 1]
  BY <1>1, <1>2, HeadTailProperties, LenProperties
<1>4. SetOk(pool, id, v) /\ v \in Value /\ v.type = before[id].value.type /\ id \in DOMAIN before
  BY <1>1, <1>3, ItemSettable
<1>5. /\ pool' = p /\ dirty' = TRUE /\ todo' = t
      /\ UNCHANGED <<fw, flash, phase, report, batch, before, ground>>
  BY <1>3, <1>4 DEF ApplySet
<1>6. id = batch[n + 1].id /\ v = Parsed(before, batch[n + 1])
  BY <1>2, <1>3
<1>7. /\ DOMAIN pool = DOMAIN d /\ DOMAIN before = DOMAIN d /\ id \in DOMAIN d
      /\ \A i \in DOMAIN d : pool[i] \in Parameter /\ before[i] \in Parameter
      /\ \A i \in DOMAIN d : pool[i].id = before[i].id /\ pool[i].access = before[i].access
                             /\ pool[i].value.type = before[i].value.type
  BY <1>1, <1>4 DEF Suits
<1>8. /\ DOMAIN p = DOMAIN d /\ p = [i \in DOMAIN d |-> p[i]]
      /\ p[id] = [pool[id] EXCEPT !.value = v] /\ \A i \in DOMAIN d : i # id => p[i] = pool[i]
  BY <1>7
<1> HIDE DEF p, n, id, v, t
<1>9. p[id] \in Parameter /\ p[id].id = pool[id].id /\ p[id].access = pool[id].access /\ p[id].value = v
  <2> DEFINE a == pool[id]
             b == p[id]
  <2>1. a \in Parameter /\ b = [a EXCEPT !.value = v]
    BY <1>7, <1>8
  <2> HIDE DEF a, b
  <2>2. b \in Parameter /\ b.id = a.id /\ b.access = a.access /\ b.value = v
    BY <1>4, <2>1, WithValue
  <2> QED
    BY <2>2 DEF a, b
<1>10. Suits(p, d)
  <2>1. ASSUME NEW i \in DOMAIN d
        PROVE  /\ p[i] \in Parameter /\ p[i].id = i /\ p[i].access = d[i].access
               /\ p[i].value.type = d[i].value.type
    <3>1. pool[i].id = i /\ pool[i].access = d[i].access /\ pool[i].value.type = d[i].value.type
      BY <1>1 DEF Suits
    <3>2. CASE i # id
      BY <1>7, <1>8, <3>1, <3>2
    <3>3. CASE i = id
      BY <1>4, <1>7, <1>9, <3>1, <3>3
    <3> QED
      BY <3>2, <3>3
  <2> HIDE DEF d
  <2> QED
    BY <1>8, <2>1 DEF Suits
<1>11. n + 1 \in Nat /\ Len(batch) - Len(t) = n + 1 /\ Len(batch) = n + 1 + Len(t)
  BY <1>2, <1>3
<1>12. Remaining(t, batch, before, n + 1)
  <2>1. ASSUME NEW k \in 1 .. Len(t)
        PROVE  t[k].id = batch[n + 1 + k].id /\ t[k].value = Parsed(before, batch[n + 1 + k])
    <3>1. k + 1 \in 1 .. Len(todo) /\ n + (k + 1) = n + 1 + k /\ t[k] = todo[k + 1]
      BY <1>2, <1>3
    <3>2. todo[k + 1].id = batch[n + (k + 1)].id /\ todo[k + 1].value = Parsed(before, batch[n + (k + 1)])
      BY <1>2, <3>1
    <3> QED
      BY <3>1, <3>2
  <2> QED
    BY <1>3, <1>11, <2>1 DEF Remaining
<1>13. Applied(p, before, batch, n + 1)
  <2>1. ASSUME NEW i \in DOMAIN p, \A k \in 1 .. n + 1 : batch[k].id # i
        PROVE  p[i] = before[i]
    <3>1. n + 1 \in 1 .. n + 1 /\ \A k \in 1 .. n : k \in 1 .. n + 1
      BY <1>2
    <3>2. i # id /\ \A k \in 1 .. n : batch[k].id # i
      BY <1>6, <2>1, <3>1
    <3> QED
      BY <1>1, <1>7, <1>8, <3>2 DEF Applied
  <2>2. ASSUME NEW k \in 1 .. n + 1, \A i \in k + 1 .. n + 1 : batch[i].id # batch[k].id
        PROVE  p[batch[k].id] = [before[batch[k].id] EXCEPT !.value = Parsed(before, batch[k])]
    <3>1. CASE k = n + 1
      <4>1. [pool[id] EXCEPT !.value = v] = [before[id] EXCEPT !.value = v]
        <5> DEFINE a == pool[id]
                   b == before[id]
        <5>1. a \in Parameter /\ b \in Parameter /\ a.id = b.id /\ a.access = b.access
          BY <1>7
        <5> HIDE DEF a, b
        <5>2. [a EXCEPT !.value = v] = [b EXCEPT !.value = v]
          BY <5>1, SameRest
        <5> QED
          BY <5>2 DEF a, b
      <4> QED
        BY <1>6, <1>8, <3>1, <4>1
    <3>2. CASE k \in 1 .. n
      <4>1. n + 1 \in k + 1 .. n + 1 /\ \A i \in k + 1 .. n : i \in k + 1 .. n + 1
        BY <1>2, <3>2
      <4>2. batch[k].id # id /\ \A i \in k + 1 .. n : batch[i].id # batch[k].id
        BY <1>6, <2>2, <4>1
      <4>3. pool[batch[k].id] = [before[batch[k].id] EXCEPT !.value = Parsed(before, batch[k])]
        BY <1>1, <3>2, <4>2 DEF Applied
      <4>4. batch[k].id \in DOMAIN d
        <5>1. k \in 1 .. Len(batch)
          BY <1>2, <1>3, <3>2
        <5> QED
          BY <1>1, <1>7, <5>1 DEF Accepted
      <4> QED
        BY <1>8, <4>2, <4>3, <4>4
    <3> QED
      BY <1>2, <3>1, <3>2
  <2> QED
    BY <2>1, <2>2 DEF Applied
<1>14. Applying'
  BY <1>1, <1>5, <1>11, <1>12, <1>13 DEF Applying
<1>15. CleanMeansSaved' /\ ReadYourWrites'
  BY <1>1, <1>5 DEF CleanMeansSaved, ReadYourWrites
<1> QED
  BY <1>1, <1>5, <1>10, <1>14, <1>15 DEF DInv


LEMMA Greatest ==
    ASSUME NEW n \in Nat, NEW T \in SUBSET (1 .. n), T # {}
    PROVE  \E x \in T : \A y \in T : y <= x
<1> DEFINE U == {n - y : y \in T}
<1>1. U \in SUBSET Nat /\ U # {}
  <2>1. ASSUME NEW u \in U
        PROVE  u \in Nat
    <3>1. PICK y \in T : u = n - y
      OBVIOUS
    <3>2. y \in 1 .. n
      OBVIOUS
    <3> QED
      BY <3>1, <3>2
  <2>2. U # {}
    OBVIOUS
  <2> QED
    BY <2>1, <2>2
<1>2. PICK u \in U : \A z \in U : u <= z
  BY <1>1, LeastNumber
<1>3. PICK x \in T : u = n - x
  BY <1>2
<1>4. \A y \in T : y <= x
  <2> TAKE y \in T
  <2>1. n - y \in U /\ x \in 1 .. n /\ y \in 1 .. n
    OBVIOUS
  <2>2. n - x <= n - y
    BY <1>2, <1>3, <2>1
  <2> QED
    BY <2>1, <2>2
<1> QED
  BY <1>4

(* At the end of pass two each parameter that the request names holds the   *)
(* value given last for it, and each of the others what it held before.     *)
LEMMA LastGiven ==
    ASSUME DInv, phase = "apply", todo = <<>>, NEW id \in Named
    PROVE  \E k \in 1 .. Len(batch) :
               /\ batch[k].id = id /\ LastBytes(id) = batch[k].bytes
               /\ \A i \in k + 1 .. Len(batch) : batch[i].id # id
<1> DEFINE named == {k \in DOMAIN batch : batch[k].id = id}
           N == Len(batch)
           m == CHOOSE k \in named : \A j \in named : j <= k
<1>1. Accepted(batch, before)
  BY DEF DInv, Applying
<1>2. N \in Nat /\ DOMAIN batch = 1 .. N
  BY <1>1, LenProperties DEF Accepted
<1>3. named \in SUBSET (1 .. N) /\ named # {}
  BY <1>2 DEF Named
<1>4. LastBytes(id) = batch[m].bytes
  BY DEF LastBytes
<1>5. \A k \in 1 .. N : batch[k].id = id => k \in named
  BY <1>2
<1>6. \A k \in named : batch[k].id = id
  OBVIOUS
<1> HIDE DEF named, N
<1>7. \E k \in named : \A j \in named : j <= k
  BY <1>2, <1>3, Greatest
<1>8. m \in named /\ \A j \in named : j <= m
  BY <1>7, Zenon
<1> HIDE DEF m
<1>9. ASSUME NEW i \in m + 1 .. N
      PROVE  batch[i].id # id
  <2>1. i \in 1 .. N /\ ~(i <= m)
    BY <1>2, <1>3, <1>8
  <2> QED
    BY <1>5, <1>8, <2>1
<1> QED
  BY <1>3, <1>4, <1>6, <1>8, <1>9 DEF N

LEMMA SetEnds ==
    ASSUME DInv, phase = "apply", todo = <<>>, NEW id \in DOMAIN pool
    PROVE  /\ id \in Named => /\ pool[id] = [before[id] EXCEPT !.value = Decode(@.type, LastBytes(id))]
                              /\ Encode(pool[id].value) = LastBytes(id)
           /\ id \notin Named => pool[id] = before[id]
<1> DEFINE N == Len(batch)
           d == Defaults(Firmware[fw])
<1>1. /\ Suits(pool, d) /\ Suits(before, d) /\ Accepted(batch, before)
      /\ Remaining(todo, batch, before, N - Len(todo)) /\ Applied(pool, before, batch, N - Len(todo))
  BY DEF DInv, Applying
<1>2. N \in Nat /\ N - Len(todo) = N /\ DOMAIN batch = 1 .. N
  <2>1. N \in Nat /\ DOMAIN batch = 1 .. N
    BY <1>1, LenProperties DEF Accepted
  <2>2. Len(todo) = 0
    OBVIOUS
  <2> HIDE DEF N
  <2> QED
    BY <2>1, <2>2
<1>3. Applied(pool, before, batch, N)
  BY <1>1, <1>2
<1>4. ASSUME id \notin Named
      PROVE  pool[id] = before[id]
  BY <1>2, <1>3, <1>4 DEF Named, Applied
<1>5. ASSUME id \in Named
      PROVE  /\ pool[id] = [before[id] EXCEPT !.value = Decode(@.type, LastBytes(id))]
             /\ Encode(pool[id].value) = LastBytes(id)
  <2>1. PICK k \in 1 .. N :
               /\ batch[k].id = id /\ LastBytes(id) = batch[k].bytes
               /\ \A i \in k + 1 .. N : batch[i].id # id
    BY <1>5, LastGiven
  <2> DEFINE q == before[id]
             v == Decode(q.value.type, LastBytes(id))
  <2>2. /\ q \in Parameter
        /\ LastBytes(id) \in Strings(Width(q.value.type))
    BY <1>1, <2>1 DEF Accepted, Suits
  <2>3. pool[id] = [q EXCEPT !.value = v]
    BY <1>3, <2>1 DEF Applied, Parsed
  <2> HIDE DEF q
  <2>4. q.value.type \in Types
    BY <2>2, ParameterFields
  <2>5. v \in Value /\ Encode(v) = LastBytes(id)
    BY <2>2, <2>4, EncodeOfDecode
  <2>6. [q EXCEPT !.value = v] = [q EXCEPT !.value = Decode(@.type, LastBytes(id))]
    OBVIOUS
  <2>7. [q EXCEPT !.value = v].value = v
    BY <2>2, <2>5, WithValue
  <2> HIDE DEF v
  <2>8. Encode(pool[id].value) = LastBytes(id)
    BY <2>3, <2>5, <2>7
  <2> QED
    BY <2>3, <2>6, <2>8 DEF q
<1> QED
  BY <1>4, <1>5

LEMMA ApplyDoneStep ==
    ASSUME DInv, ApplyDone
    PROVE  DInv'
<1> DEFINE d == Defaults(Firmware[fw])
           g == [id \in DOMAIN ground \cup Named |-> IF id \in Named THEN LastBytes(id) ELSE ground[id]]
<1>1. /\ phase = "apply" /\ todo = <<>> /\ fw \in DOMAIN Firmware /\ Suits(pool, d) /\ report = <<>>
      /\ Suits(before, d) /\ Accepted(batch, before) /\ Holds(before, ground)
      /\ Len(todo) < Len(batch) => dirty
  BY DEF DInv, Applying, ApplyDone
<1>2. /\ phase' = "top" /\ ground' = g /\ batch' = <<>>
      /\ UNCHANGED <<fw, pool, dirty, flash, todo, report>>
  BY DEF ApplyDone
<1>3. DOMAIN pool = DOMAIN before /\ Named \subseteq DOMAIN pool
  <2>1. DOMAIN batch = 1 .. Len(batch)
    BY <1>1, LenProperties DEF Accepted
  <2> QED
    BY <1>1, <2>1 DEF Named, Accepted, Suits
<1>4. Holds(pool, g)
  <2> SUFFICES ASSUME NEW id \in DOMAIN ground \cup Named
               PROVE  id \in DOMAIN pool /\ Encode(pool[id].value) = g[id]
    BY DEF Holds
  <2>1. id \in DOMAIN pool
    BY <1>1, <1>3 DEF Holds
  <2>2. CASE id \in Named
    BY <1>1, <2>1, <2>2, SetEnds
  <2>3. CASE id \notin Named
    BY <1>1, <2>1, <2>3, SetEnds DEF Holds
  <2> QED
    BY <2>1, <2>2, <2>3
<1>5. ~ dirty => Stores(Entries(flash), pool, g)
  <2> SUFFICES ASSUME ~ dirty
               PROVE  Stores(Entries(flash), pool, g)
    OBVIOUS
  <2>1. Len(batch) \in Nat /\ Len(todo) = 0 /\ DOMAIN batch = 1 .. Len(batch)
    BY <1>1, LenProperties DEF Accepted
  <2>2. Len(batch) = 0
    BY <1>1, <2>1
  <2>3. Named = {}
    BY <2>1, <2>2 DEF Named
  <2>4. DOMAIN g = DOMAIN ground /\ \A id \in DOMAIN ground : g[id] = ground[id]
    BY <2>3
  <2> HIDE DEF g
  <2> QED
    BY <2>4 DEF DInv, Stores
<1> HIDE DEF g
<1>6. CleanMeansSaved' /\ ReadYourWrites'
  BY <1>1, <1>2 DEF DInv, CleanMeansSaved, ReadYourWrites
<1> QED
  BY <1>1, <1>2, <1>4, <1>5, <1>6 DEF DInv

(* Power loss, and a boot into any firmware. *)
LEMMA RebootStep ==
    ASSUME DInv, NEW f \in DOMAIN Firmware, Reboot(f)
    PROVE  DInv'
<1> DEFINE table == Defaults(Firmware[f])
           es == Entries(flash)
           q == Restore(table, es)
           kept == {id \in DOMAIN ground \cap DOMAIN table : table[id].value.type = pool[id].value.type}
           g == IF dirty THEN Empty ELSE [id \in kept |-> ground[id]]
<1>1. /\ fw' = f /\ dirty' = FALSE /\ phase' = "top" /\ todo' = <<>> /\ report' = <<>>
      /\ batch' = <<>> /\ flash' = flash /\ ground' = g /\ pool' = Booted(f, flash)
  BY DEF Reboot
<1>2. EntriesOK(es) /\ Suits(table, table)
  BY DefaultsSuit DEF DInv
<1>3. pool' = q
  BY <1>1, <1>2, BootRestores
<1> HIDE DEF table, es
<1>4. /\ Suits(q, table)
      /\ \A id \in DOMAIN table : \A e \in es :
            Matches(e, table[id]) => q[id] = [table[id] EXCEPT !.value = Decode(e.type, e.bytes)]
  BY <1>2, Restored
<1> HIDE DEF q
<1>5. ASSUME NEW id \in DOMAIN g
      PROVE  /\ id \in DOMAIN q /\ Encode(q[id].value) = g[id]
             /\ \E e \in es : e.id = id /\ e.type = q[id].value.type /\ e.bytes = g[id]
  <2>1. ~ dirty /\ id \in kept /\ g[id] = ground[id]
    BY DEF Empty
  <2>2. id \in DOMAIN ground /\ id \in DOMAIN table /\ table[id].value.type = pool[id].value.type
    BY <2>1
  <2>3. Stores(es, pool, ground)
    BY <2>1 DEF DInv, es
  <2>4. PICK e \in es : e.id = id /\ e.type = pool[id].value.type /\ e.bytes = ground[id]
    BY <2>2, <2>3 DEF Stores
  <2>5. table[id] \in Parameter /\ table[id].id = id /\ id \in DOMAIN q /\ q[id].value.type = table[id].value.type
    BY <1>2, <1>4, <2>2 DEF Suits
  <2> DEFINE x == Decode(e.type, e.bytes)
             a == table[id]
  <2>6. Matches(e, table[id])
    BY <2>2, <2>4, <2>5 DEF Matches
  <2>7. q[id] = [a EXCEPT !.value = x]
    BY <1>4, <2>2, <2>6
  <2>8. x \in Value /\ Encode(x) = e.bytes
    BY <1>2, EncodeOfDecode DEF EntriesOK
  <2>9. a \in Parameter
    BY <2>5
  <2> HIDE DEF x, a
  <2>10. q[id].value = x
    BY <2>7, <2>8, <2>9, WithValue
  <2> HIDE DEF g
  <2>11. Encode(q[id].value) = g[id]
    BY <2>1, <2>4, <2>8, <2>10
  <2>12. e.id = id /\ e.type = q[id].value.type /\ e.bytes = g[id]
    BY <2>1, <2>2, <2>4, <2>5
  <2> QED
    BY <2>5, <2>11, <2>12
<1> HIDE DEF g
<1>6. Holds(q, g) /\ Stores(es, q, g)
  BY <1>5 DEF Holds, Stores
<1>7. CleanMeansSaved'
  BY <1>1 DEF CleanMeansSaved
<1>8. ReadYourWrites'
  BY <1>1 DEF ReadYourWrites
<1>9. Suits(pool', Defaults(Firmware[fw'])) /\ EntriesOK(Entries(flash'))
  BY <1>1, <1>2, <1>3, <1>4 DEF table, es
<1>10. Holds(pool', ground') /\ Stores(Entries(flash'), pool', ground')
  BY <1>1, <1>3, <1>6 DEF es
<1> QED
  BY <1>1, <1>7, <1>8, <1>9, <1>10 DEF DInv

LEMMA DStepInv == DInv /\ [DNext]_dvars => DInv'
BY SaveStep, QuietStep, SetValuesStep, ApplySetStep, ApplyDoneStep, RebootStep DEF DNext

----------------------------------------------------------------------------
(* What follows from it *)

(* The invariant the theorems below rest on: the pool is the table's, the    *)
(* record on flash decodes, and what ground set is in the pool and, unless    *)
(* a change is still to be saved, in the record; during pass two, the pool    *)
(* is the earlier one with the items so far applied, the last one winning.    *)
THEOREM DatapoolInvariant == DSpec => []DInv
<1>1. DInit => DInv
  BY DInitInv
<1>2. DInv /\ [DNext]_dvars => DInv'
  BY DStepInv
<1> QED
  BY <1>1, <1>2, PTL DEF DSpec

(* The parameters are those of the running firmware, each with its declared *)
(* access and a value of its declared type, whatever firmware wrote the     *)
(* record that migris_datapool_deserialize restored.                        *)
THEOREM DatapoolTypeCorrect == DSpec => []DTypeOK
<1>1. DInv => DTypeOK
  <2> SUFFICES ASSUME DInv
               PROVE  DTypeOK
    OBVIOUS
  <2>1. /\ fw \in DOMAIN Firmware /\ Suits(pool, Defaults(Firmware[fw]))
        /\ dirty \in BOOLEAN /\ phase \in {"top", "tc", "apply"}
        /\ phase # "apply" => todo = <<>> /\ batch = <<>>
    BY DEF DInv
  <2>2. DOMAIN pool = DOMAIN Defaults(Firmware[fw])
    BY <2>1 DEF Suits
  <2>3. ASSUME NEW id \in DOMAIN pool
        PROVE  /\ pool[id].access = Defaults(Firmware[fw])[id].access
               /\ pool[id].value.type = Defaults(Firmware[fw])[id].value.type
               /\ pool[id].value \in Value
    BY <2>1, <2>2, ParameterFields DEF Suits
  <2> QED
    BY <2>1, <2>2, <2>3 DEF DTypeOK
<1> QED
  BY <1>1, DatapoolInvariant, PTL

(* A set request that pus20_decode_sets accepted is applied in full: no      *)
(* migris_datapool_set of pass two fails, and it ends with the last value    *)
(* of each parameter it names and with every other parameter as it was.      *)
THEOREM SetIsAllOrNothing == DSpec => []AllOrNothing
<1>1. DInv => AllOrNothing
  <2> SUFFICES ASSUME DInv
               PROVE  AllOrNothing
    OBVIOUS
  <2>1. NoSetCanFail
    <3> SUFFICES ASSUME phase = "apply", NEW k \in DOMAIN todo
                 PROVE  SetOk(pool, todo[k].id, todo[k].value)
      BY DEF NoSetCanFail
    <3>1. Remaining(todo, batch, before, Len(batch) - Len(todo))
      BY DEF DInv, Applying
    <3>2. DOMAIN todo = 1 .. Len(todo)
      BY <3>1, LenProperties DEF Remaining
    <3> QED
      BY <3>2, ItemSettable
  <2>2. ASSUME phase = "apply", todo = <<>>, NEW id \in DOMAIN pool
        PROVE  pool[id] = IF id \in Named
                            THEN [before[id] EXCEPT !.value = Decode(@.type, LastBytes(id))]
                            ELSE before[id]
    BY <2>2, SetEnds
  <2> QED
    BY <2>1, <2>2 DEF AllOrNothing
<1> QED
  BY <1>1, DatapoolInvariant, PTL

(* Whenever the save tick has nothing to save, booting the running firmware  *)
(* from the record on flash gives the live pool: the codec, serialize and    *)
(* deserialize are inverse for every table and every value.                  *)
THEOREM CleanPoolIsSaved == DSpec => []CleanMeansSaved
<1>1. DInv => CleanMeansSaved
  BY DEF DInv
<1> QED
  BY <1>1, DatapoolInvariant, PTL

(* A parameter report carries the bytes ground set last, through decoding,   *)
(* the record, reboots and updates to a firmware that still has the          *)
(* parameter with its type.                                                  *)
THEOREM GroundReadsBack == DSpec => []ReadYourWrites
<1>1. DInv => ReadYourWrites
  BY DEF DInv
<1> QED
  BY <1>1, DatapoolInvariant, PTL
============================================================================
