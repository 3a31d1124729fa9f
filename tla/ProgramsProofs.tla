----------------------------- MODULE ProgramsProofs -----------------------------
(***************************************************************************)
(* Theorems about the measurement programs and the sorting exercises, for  *)
(* data files, command lines and arrays of any length: what the programs   *)
(* read and append, which lists and which join they measure, the extremes  *)
(* they report, and that merge_sort sorts the slice it is given.  They     *)
(* rest on lemmas about sorting by counting, elements of a sequence with   *)
(* how often they occur, and the order in which a recursion makes calls.   *)
(***************************************************************************)
EXTENDS Programs, FiniteSetTheorems, WellFoundedInduction, TLAPS

\* The order of the naturals.
NatLess == OpToRel(<, Nat)

\* A set of naturals has a smallest element.
LEMMA NatMin ==
  ASSUME NEW S \in SUBSET Nat, S # {}
  PROVE  \E k \in S : \A m \in S : k <= m
<1>1. IsWellFoundedOn(NatLess, Nat)
  BY NatLessThanWellFounded DEF NatLess
<1>2. \A x, y \in Nat : x < y => <<x, y>> \in NatLess
  BY DEF OpToRel, NatLess
<1>3. PICK x \in S : \A y \in S : ~(<<y, x>> \in NatLess)
  BY <1>1, WFMin
<1>4. \A y \in S : ~(y < x)
  BY <1>2, <1>3
<1>. QED
  BY <1>4

\* Induction: a set that has zero and with each number the next one is all of Nat.
LEMMA NatAll ==
  ASSUME NEW S \in SUBSET Nat, 0 \in S, \A k \in S : k + 1 \in S
  PROVE  S = Nat
<1>. DEFINE D == Nat \ S
<1>. SUFFICES ASSUME D # {} PROVE FALSE
  OBVIOUS
<1>1. PICK k \in D : \A m \in D : k <= m
  BY NatMin
<1>2. k # 0 /\ k \in Nat
  OBVIOUS
<1>3. k - 1 \in Nat /\ ~(k <= k - 1)
  BY <1>2
<1>4. k - 1 \in S
  BY <1>1, <1>3
<1>5. (k - 1) + 1 \in S
  BY <1>4
<1>. QED
  BY <1>1, <1>2, <1>5

---------------------------------------------------------------------------------
(* Reading a number. *)

\* The largest of some of the first numbers.
LEMMA LargestOf ==
  ASSUME NEW m \in Nat, NEW S \in SUBSET (1..m), S # {}
  PROVE  /\ Max(S) \in S /\ \A y \in S : y <= Max(S)
         /\ S \ {Max(S)} \subseteq 1..(Max(S) - 1)
<1>. DEFINE T == {k \in Nat : \E x \in S : k = m - x}
<1>1. T \in SUBSET Nat /\ T # {}
  <2>1. PICK x \in S : TRUE
    OBVIOUS
  <2>2. m - x \in Nat
    BY <2>1
  <2>. QED
    BY <2>2
<1>2. PICK k \in T : \A y \in T : k <= y
  <2>. HIDE DEF T
  <2>. QED
    BY <1>1, NatMin
<1>3. PICK x \in S : k = m - x
  BY <1>2
<1>4. \A y \in S : y <= x
  <2>1. ASSUME NEW y \in S PROVE y <= x
    <3>1. m - y \in T
      BY <2>1
    <3>. QED
      BY <1>2, <1>3, <3>1
  <2>. QED
    BY <2>1
<1>5. Max(S) \in S /\ \A y \in S : y <= Max(S)
  <2>1. \E z \in S : \A y \in S : z >= y
    BY <1>4
  <2>. QED
    BY <2>1 DEF Max
<1>6. PICK z : z = Max(S)
  OBVIOUS
<1>7. \A y \in S : y # z => y \in 1..(z - 1)
  <2>1. z \in 1..m /\ \A y \in S : y \in 1..m /\ y <= z
    BY <1>5, <1>6
  <2>. QED
    BY <2>1
<1>. QED
  BY <1>5, <1>6, <1>7

\* FoldLeft of AddDigit goes over the sets of the first positions, from the largest down.
ReadTurn(text, f, S) ==
  IF S = {} THEN 0 ELSE AddDigit(f[S \ {Max(S)}], text[Max(S)])
IsRead(text, m, f) == f = [S \in SUBSET (1..m) |-> ReadTurn(text, f, S)]

\* It is defined for all of them, one more position after the other.
LEMMA ReadExists ==
  ASSUME NEW text, NEW m \in Nat
  PROVE  \E f : IsRead(text, m, f)
<1>. DEFINE K == {k \in Nat : \E f : IsRead(text, k, f)}
<1>1. 0 \in K
  <2>1. 1..0 = {} /\ SUBSET {} = {{}}
    OBVIOUS
  <2>. DEFINE f == [S \in {{}} |-> 0]
  <2>2. f = [S \in {{}} |-> ReadTurn(text, f, S)]
    BY DEF ReadTurn
  <2>3. IsRead(text, 0, f)
    BY <2>1, <2>2 DEF IsRead
  <2>. QED
    BY <2>3
<1>2. ASSUME NEW k \in K PROVE k + 1 \in K
  <2>1. PICK f : IsRead(text, k, f)
    OBVIOUS
  <2>. DEFINE g == [S \in SUBSET (1..(k + 1)) |-> ReadTurn(text, f, S)]
  <2>2. \A S \in SUBSET (1..k) : f[S] = ReadTurn(text, f, S) /\ g[S] = f[S]
    <3>1. \A S \in SUBSET (1..k) : S \in SUBSET (1..(k + 1))
      BY <1>2
    <3>. QED
      BY <2>1, <3>1 DEF IsRead
  <2>3. ASSUME NEW S \in SUBSET (1..(k + 1)) PROVE ReadTurn(text, g, S) = ReadTurn(text, f, S)
    <3>1. CASE S = {}
      BY <3>1 DEF ReadTurn
    <3>2. CASE S # {}
      <4>1. k + 1 \in Nat
        BY <1>2
      <4>2. Max(S) \in S /\ S \ {Max(S)} \subseteq 1..(Max(S) - 1)
        BY <3>2, <4>1, LargestOf
      <4>3. S \ {Max(S)} \in SUBSET (1..k)
        <5>1. Max(S) \in 1..(k + 1)
          BY <4>2
        <5>2. 1..(Max(S) - 1) \subseteq 1..k
          BY <1>2, <5>1
        <5>. QED
          BY <4>2, <5>2
      <4>4. g[S \ {Max(S)}] = f[S \ {Max(S)}]
        BY <2>2, <4>3
      <4>. QED
        BY <4>4 DEF ReadTurn
    <3>. QED
      BY <3>1, <3>2
  <2>4. IsRead(text, k + 1, g)
    BY <2>3 DEF IsRead
  <2>. QED
    BY <1>2, <2>4
<1>3. K = Nat
  <2>. HIDE DEF K
  <2>1. K \in SUBSET Nat
    BY DEF K
  <2>. QED
    BY <1>1, <1>2, <2>1, NatAll
<1>. QED
  BY <1>3

\* What to_unsigned has after each character.
ReadBy(text, m, u) ==
  /\ u[0] = 0 /\ To_unsigned(text) = u[m]
  /\ \A k \in 1..m : u[k] = AddDigit(u[k - 1], text[k])

\* The numbers that To_unsigned passes through as it reads a text.
LEMMA ReadSteps ==
  ASSUME NEW text, NEW m \in Nat, DOMAIN text = 1..m
  PROVE  \E u : ReadBy(text, m, u)
<1>1. PICK f : f = CHOOSE h : IsRead(text, m, h)
  OBVIOUS
<1>2. IsRead(text, m, f)
  BY <1>1, ReadExists
<1>3. To_unsigned(text) = f[1..m]
  BY <1>1 DEF To_unsigned, FoldLeft, MapThenFoldSet, IsRead, ReadTurn
<1>. DEFINE u == [k \in 0..m |-> f[1..k]]
<1>4. \A S \in SUBSET (1..m) : f[S] = ReadTurn(text, f, S)
  BY <1>2 DEF IsRead
<1>5. u[0] = 0
  <2>1. 1..0 = {}
    OBVIOUS
  <2>2. f[{}] = 0
    BY <1>4 DEF ReadTurn
  <2>3. 0 \in 0..m
    OBVIOUS
  <2>. QED
    BY <2>1, <2>2, <2>3
<1>6. ASSUME NEW k \in 1..m PROVE u[k] = AddDigit(u[k - 1], text[k])
  <2>1. k \in 1..k /\ k - 1 \in 0..m /\ k \in 0..m /\ k \in Nat /\ 1..k \subseteq 1..m
    OBVIOUS
  <2>2. Max(1..k) = k
    <3>1. 1..k \in SUBSET (1..k)
      OBVIOUS
    <3>2. Max(1..k) \in 1..k /\ \A y \in 1..k : y <= Max(1..k)
      BY <2>1, <3>1, LargestOf
    <3>. QED
      BY <2>1, <3>2
  <2>3. (1..k) \ {k} = 1..(k - 1)
    OBVIOUS
  <2>4. f[1..k] = AddDigit(f[1..(k - 1)], text[k])
    BY <1>4, <2>1, <2>2, <2>3 DEF ReadTurn
  <2>. QED
    BY <2>1, <2>4
<1>7. To_unsigned(text) = u[m]
  BY <1>3
<1>. HIDE DEF u
<1>. QED
  BY <1>5, <1>6, <1>7 DEF ReadBy

\* What the digits so far stand for.
ValueTurn(text, v, i) == IF i = 0 THEN 0 ELSE 10 * v[i - 1] + text[i]
IsValue(text, m, v) == v = [i \in 0..m |-> ValueTurn(text, v, i)]

\* It is defined for any number of digits, one after the other.
LEMMA ValueExists ==
  ASSUME NEW text, NEW m \in Nat
  PROVE  \E v : IsValue(text, m, v)
<1>. DEFINE K == {k \in Nat : \E v : IsValue(text, k, v)}
<1>1. 0 \in K
  <2>. DEFINE v == [i \in 0..0 |-> 0]
  <2>1. \A i \in 0..0 : i = 0
    OBVIOUS
  <2>2. v = [i \in 0..0 |-> ValueTurn(text, v, i)]
    BY <2>1 DEF ValueTurn
  <2>3. IsValue(text, 0, v)
    BY <2>2 DEF IsValue
  <2>. QED
    BY <2>3
<1>2. ASSUME NEW k \in K PROVE k + 1 \in K
  <2>1. PICK v : IsValue(text, k, v)
    OBVIOUS
  <2>. DEFINE w == [i \in 0..(k + 1) |-> ValueTurn(text, v, i)]
  <2>2. \A i \in 0..k : v[i] = ValueTurn(text, v, i) /\ w[i] = v[i]
    <3>1. \A i \in 0..k : i \in 0..(k + 1)
      BY <1>2
    <3>. QED
      BY <2>1, <3>1 DEF IsValue
  <2>3. ASSUME NEW i \in 0..(k + 1) PROVE ValueTurn(text, w, i) = ValueTurn(text, v, i)
    <3>1. i # 0 => i - 1 \in 0..k
      BY <1>2
    <3>. HIDE DEF w
    <3>. QED
      BY <2>2, <3>1 DEF ValueTurn
  <2>4. IsValue(text, k + 1, w)
    BY <2>3 DEF IsValue
  <2>. QED
    BY <1>2, <2>4
<1>3. K = Nat
  <2>. HIDE DEF K
  <2>1. K \in SUBSET Nat
    BY DEF K
  <2>. QED
    BY <1>1, <1>2, <2>1, NatAll
<1>. QED
  BY <1>3

\* What Value has after each digit.
ValueBy(text, m, v) ==
  /\ v[0] = 0
  /\ \A k \in 1..m : v[k] = 10 * v[k - 1] + text[k]
  /\ Value(text) = IF ToSet(text) \subseteq 0..9 /\ v[m] <= UIntMax THEN v[m] ELSE Invalid

\* The values of the texts that it starts with.
LEMMA ValueSteps ==
  ASSUME NEW text, NEW m \in Nat, m = Len(text)
  PROVE  \E v : ValueBy(text, m, v)
<1>1. PICK v : v = CHOOSE w : IsValue(text, m, w)
  OBVIOUS
<1>2. IsValue(text, m, v)
  BY <1>1, ValueExists
<1>3. v[0] = 0 /\ \A k \in 1..m : v[k] = 10 * v[k - 1] + text[k]
  <2>1. \A k \in 0..m : v[k] = ValueTurn(text, v, k)
    BY <1>2 DEF IsValue
  <2>2. 0 \in 0..m /\ \A k \in 1..m : k \in 0..m /\ k # 0
    OBVIOUS
  <2>. QED
    BY <2>1, <2>2 DEF ValueTurn
<1>4. Value(text) = IF ToSet(text) \subseteq 0..9 /\ v[m] <= UIntMax THEN v[m] ELSE Invalid
  BY <1>1 DEF Value, IsValue, ValueTurn
<1>. QED
  BY <1>3, <1>4 DEF ValueBy

\* A number below the modulus is its own remainder.
LEMMA Within ==
  ASSUME NEW u \in Nat, NEW x \in 0..u
  PROVE  x % (u + 1) = x
OBVIOUS

\* The test before a digit is added is whether the number fits.
LEMMA DigitFits ==
  ASSUME NEW r \in UInt, NEW d \in 0..9
  PROVE  AddDigit(r, d) = IF 10 * r + d <= UIntMax THEN 10 * r + d ELSE Invalid
<1>1. PICK u \in Nat : u = UIntMax /\ u >= 9
  BY DataSetAssumption
<1>2. r \in 0..u /\ r # Invalid
  BY <1>1 DEF UInt, Invalid
<1>3. (u - d) \div 10 < r <=> ~(10 * r + d <= u)
  BY <1>1, <1>2
<1>4. TooBig(r, d) <=> ~(10 * r + d <= u)
  BY <1>1, <1>3 DEF TooBig
<1>5. ASSUME 10 * r + d <= u PROVE (r * 10 + d) % (u + 1) = 10 * r + d
  <2>1. r * 10 + d = 10 * r + d /\ 10 * r + d \in 0..u
    BY <1>2, <1>5
  <2>. QED
    BY <1>1, <2>1, Within
<1>. QED
  BY <1>1, <1>2, <1>4, <1>5 DEF AddDigit

\* Once a character was thrown out, all are.
LEMMA InvalidStays ==
  ASSUME NEW c
  PROVE  AddDigit(Invalid, c) = Invalid
BY DEF AddDigit

\* For every text, to_unsigned (dataset.hpp:36-60) returns the number that it stands for, or throws.
LEMMA ReadsText ==
  ASSUME NEW text \in Seq(Character)
  PROVE  To_unsigned(text) = Value(text) /\ To_unsigned(text) \in UInt \cup {Invalid}
<1>1. PICK m \in Nat : m = Len(text) /\ DOMAIN text = 1..m /\ \A k \in 1..m : text[k] \in Character
  OBVIOUS
<1>2. PICK u : ReadBy(text, m, u)
  BY <1>1, ReadSteps
<1>3. PICK v : ValueBy(text, m, v)
  BY <1>1, ValueSteps
<1>. DEFINE Digits(k) == \A i \in 1..k : text[i] \in 0..9
            Good(k) == /\ Digits(k) => v[k] \in Nat
                       /\ u[k] = IF Digits(k) /\ v[k] <= UIntMax THEN v[k] ELSE Invalid
            K == {k \in Nat : k <= m => Good(k)}
<1>4. UIntMax \in Nat
  BY DataSetAssumption
<1>5. Good(0)
  <2>1. u[0] = 0 /\ v[0] = 0
    BY <1>2, <1>3 DEF ReadBy, ValueBy
  <2>2. Digits(0)
    OBVIOUS
  <2>. HIDE DEF Digits
  <2>. QED
    BY <1>4, <2>1, <2>2
<1>6. ASSUME NEW k \in Nat, k + 1 <= m, Good(k) PROVE Good(k + 1)
  <2>1. PICK d, r, x : d = text[k + 1] /\ r = u[k] /\ x = v[k]
    OBVIOUS
  <2>2. k + 1 \in 1..m /\ (k + 1) - 1 = k
    BY <1>6
  <2>3. u[k + 1] = AddDigit(r, d) /\ v[k + 1] = 10 * x + d /\ d \in Character
    BY <1>1, <1>2, <1>3, <2>1, <2>2 DEF ReadBy, ValueBy
  <2>4. Digits(k + 1) <=> Digits(k) /\ d \in 0..9
    BY <1>6, <2>1
  <2>5. (Digits(k) => x \in Nat) /\ r = IF Digits(k) /\ x <= UIntMax THEN x ELSE Invalid
    BY <1>6, <2>1
  <2>. HIDE DEF Digits
  <2>6. Digits(k + 1) => v[k + 1] \in Nat
    BY <2>3, <2>4, <2>5
  <2>7. CASE Digits(k + 1) /\ x <= UIntMax
    <3>1. r = x /\ r \in UInt /\ d \in 0..9
      BY <1>4, <2>4, <2>5, <2>7 DEF UInt
    <3>. QED
      BY <2>3, <2>6, <2>7, <3>1, DigitFits
  <2>8. CASE Digits(k + 1) /\ ~(x <= UIntMax)
    <3>1. r = Invalid /\ x \in Nat /\ d \in 0..9
      BY <2>4, <2>5, <2>8
    <3>2. ~(10 * x + d <= UIntMax)
      BY <1>4, <2>8, <3>1
    <3>. QED
      BY <2>3, <2>6, <3>1, <3>2, InvalidStays
  <2>9. CASE ~Digits(k + 1)
    <3>1. r = Invalid \/ d \notin 0..9
      BY <2>4, <2>5, <2>9
    <3>2. AddDigit(r, d) = Invalid
      BY <3>1 DEF AddDigit
    <3>. QED
      BY <2>3, <2>9, <3>2
  <2>. QED
    BY <2>7, <2>8, <2>9
<1>7. K = Nat
  <2>1. 0 \in K
    BY <1>5
  <2>2. ASSUME NEW k \in K PROVE k + 1 \in K
    <3>1. k \in Nat /\ (k <= m => Good(k))
      BY <2>2
    <3>2. k + 1 <= m => Good(k + 1)
      <4>. HIDE DEF Good
      <4>1. k + 1 <= m => k <= m
        BY <3>1
      <4>. QED
        BY <1>6, <3>1, <4>1
    <3>. HIDE DEF Good
    <3>. QED
      BY <3>1, <3>2
  <2>3. K \in SUBSET Nat
    OBVIOUS
  <2>. HIDE DEF K
  <2>. QED
    BY <2>1, <2>2, <2>3, NatAll
<1>8. Good(m)
  <2>. HIDE DEF Good
  <2>. QED
    BY <1>7
<1>9. Digits(m) <=> ToSet(text) \subseteq 0..9
  BY <1>1 DEF ToSet
<1>10. To_unsigned(text) = Value(text)
  <2>1. To_unsigned(text) = u[m]
    BY <1>2 DEF ReadBy
  <2>2. Value(text) = IF ToSet(text) \subseteq 0..9 /\ v[m] <= UIntMax THEN v[m] ELSE Invalid
    BY <1>3 DEF ValueBy
  <2>3. u[m] = IF Digits(m) /\ v[m] <= UIntMax THEN v[m] ELSE Invalid
    BY <1>8
  <2>. HIDE DEF Digits
  <2>. QED
    BY <1>9, <2>1, <2>2, <2>3
<1>11. To_unsigned(text) \in UInt \cup {Invalid}
  <2>1. To_unsigned(text) = u[m]
    BY <1>2 DEF ReadBy
  <2>2. (Digits(m) => v[m] \in Nat) /\ u[m] = IF Digits(m) /\ v[m] <= UIntMax THEN v[m] ELSE Invalid
    BY <1>8
  <2>. HIDE DEF Digits
  <2>. QED
    BY <1>4, <2>1, <2>2 DEF UInt
<1>. QED
  BY <1>10, <1>11

---------------------------------------------------------------------------------
(* Writing a number and reading it again. *)

\* A text with one character more.
LEMMA ReadMore ==
  ASSUME NEW text, NEW m \in Nat, DOMAIN text = 1..m, NEW more, DOMAIN more = 1..(m + 1),
         \A k \in 1..m : more[k] = text[k]
  PROVE  To_unsigned(more) = AddDigit(To_unsigned(text), more[m + 1])
<1>1. PICK u : ReadBy(text, m, u)
  BY ReadSteps
<1>2. PICK w : ReadBy(more, m + 1, w)
  BY ReadSteps
<1>. DEFINE K == {k \in Nat : k <= m => w[k] = u[k]}
<1>3. 0 \in K
  BY <1>1, <1>2 DEF ReadBy
<1>4. ASSUME NEW k \in K PROVE k + 1 \in K
  <2>1. k \in Nat /\ (k <= m => w[k] = u[k])
    OBVIOUS
  <2>2. ASSUME k + 1 <= m PROVE w[k + 1] = u[k + 1]
    <3>1. k + 1 \in 1..m /\ k + 1 \in 1..(m + 1) /\ (k + 1) - 1 = k /\ k <= m
      BY <2>1, <2>2
    <3>. QED
      BY <1>1, <1>2, <2>1, <3>1 DEF ReadBy
  <2>. QED
    BY <2>1, <2>2
<1>5. K = Nat
  <2>1. K \in SUBSET Nat
    OBVIOUS
  <2>. HIDE DEF K
  <2>. QED
    BY <1>3, <1>4, <2>1, NatAll
<1>6. w[m] = u[m]
  BY <1>5
<1>7. m + 1 \in 1..(m + 1) /\ (m + 1) - 1 = m
  OBVIOUS
<1>. QED
  BY <1>1, <1>2, <1>6, <1>7 DEF ReadBy

\* How a number is written.
DecimalTurn(f, u) == IF u < 10 THEN <<u>> ELSE f[u \div 10] \o <<u % 10>>
IsDecimal(S, f) == f = [u \in S |-> DecimalTurn(f, u)]

\* It is defined for each, from those before.
LEMMA DecimalExists ==
  ASSUME NEW m \in Nat
  PROVE  \E f : IsDecimal(0..m, f)
<1>. DEFINE K == {k \in Nat : \E f : IsDecimal(0..k, f)}
<1>1. 0 \in K
  <2>. DEFINE f == [u \in 0..0 |-> <<u>>]
  <2>1. \A u \in 0..0 : u < 10
    OBVIOUS
  <2>2. f = [u \in 0..0 |-> DecimalTurn(f, u)]
    BY <2>1 DEF DecimalTurn
  <2>3. IsDecimal(0..0, f)
    BY <2>2 DEF IsDecimal
  <2>. QED
    BY <2>3
<1>2. ASSUME NEW k \in K PROVE k + 1 \in K
  <2>1. PICK f : IsDecimal(0..k, f)
    OBVIOUS
  <2>. DEFINE g == [u \in 0..(k + 1) |-> DecimalTurn(f, u)]
  <2>2. \A u \in 0..k : f[u] = DecimalTurn(f, u) /\ g[u] = f[u]
    <3>1. \A u \in 0..k : u \in 0..(k + 1)
      BY <1>2
    <3>. QED
      BY <2>1, <3>1 DEF IsDecimal
  <2>3. ASSUME NEW u \in 0..(k + 1) PROVE DecimalTurn(g, u) = DecimalTurn(f, u)
    <3>1. ~(u < 10) => u \div 10 \in 0..k
      BY <1>2
    <3>. HIDE DEF g
    <3>. QED
      BY <2>2, <3>1 DEF DecimalTurn
  <2>4. IsDecimal(0..(k + 1), g)
    BY <2>3 DEF IsDecimal
  <2>. QED
    BY <1>2, <2>4
<1>3. K = Nat
  <2>. HIDE DEF K
  <2>1. K \in SUBSET Nat
    BY DEF K
  <2>. QED
    BY <1>1, <1>2, <2>1, NatAll
<1>. QED
  BY <1>3

\* operator<< and to_unsigned: what is written is read again.
LEMMA ReadsDecimal ==
  ASSUME NEW u \in UInt
  PROVE  Decimal[u] \in Seq(Character) /\ To_unsigned(Decimal[u]) = u
<1>0. UIntMax \in Nat /\ UIntMax >= 9 /\ UInt = 0..UIntMax
  BY DataSetAssumption DEF UInt
<1>1. IsDecimal(UInt, Decimal)
  <2>1. PICK f : f = CHOOSE h : IsDecimal(UInt, h)
    OBVIOUS
  <2>2. IsDecimal(UInt, f)
    BY <1>0, <2>1, DecimalExists
  <2>3. Decimal = f
    BY <2>1 DEF Decimal, IsDecimal, DecimalTurn
  <2>. QED
    BY <2>2, <2>3
<1>2. \A x \in UInt : Decimal[x] = DecimalTurn(Decimal, x)
  BY <1>1 DEF IsDecimal
<1>. DEFINE Good(x) == Decimal[x] \in Seq(Character) /\ To_unsigned(Decimal[x]) = x
            D == {x \in UInt : ~Good(x)}
<1>. SUFFICES ASSUME D # {} PROVE FALSE
  OBVIOUS
<1>3. PICK x \in D : \A y \in D : x <= y
  <2>1. D \in SUBSET Nat
    BY <1>0
  <2>. HIDE DEF D
  <2>. QED
    BY <2>1, NatMin
<1>4. x \in UInt /\ x \in Nat /\ ~Good(x) /\ \A y \in UInt : y < x => Good(y)
  <2>1. x \in UInt /\ ~Good(x)
    OBVIOUS
  <2>2. ASSUME NEW y \in UInt, y < x, ~Good(y) PROVE FALSE
    <3>1. y \in D
      BY <2>2
    <3>. HIDE DEF D
    <3>2. x <= y
      BY <1>3, <3>1
    <3>. QED
      BY <1>0, <2>1, <2>2, <3>2
  <2>. HIDE DEF Good
  <2>. QED
    BY <1>0, <2>1, <2>2
<1>5. CASE x < 10
  <2>0. DecimalTurn(Decimal, x) = <<x>>
    BY <1>5, Zenon DEF DecimalTurn
  <2>1. Decimal[x] = <<x>> /\ x \in 0..9
    BY <1>2, <1>4, <1>5, <2>0
  <2>2. <<x>> \in Seq(Character) /\ DOMAIN <<x>> = 1..1 /\ <<x>>[1] = x
    BY <2>1 DEF Character
  <2>3. To_unsigned(<<>>) = 0
    <3>1. DOMAIN <<>> = 1..0
      OBVIOUS
    <3>2. PICK w : ReadBy(<<>>, 0, w)
      BY <3>1, ReadSteps
    <3>. QED
      BY <3>2 DEF ReadBy
  <2>4. To_unsigned(<<x>>) = AddDigit(To_unsigned(<<>>), <<x>>[0 + 1])
    <3>1. DOMAIN <<>> = 1..0 /\ DOMAIN <<x>> = 1..(0 + 1) /\ \A k \in 1..0 : <<x>>[k] = <<>>[k]
      BY <2>2
    <3>. QED
      BY <3>1, ReadMore
  <2>5. AddDigit(0, x) = x
    <3>1. 0 \in UInt /\ 10 * 0 + x = x /\ x <= UIntMax
      BY <1>0, <2>1
    <3>. QED
      BY <2>1, <3>1, DigitFits
  <2>. QED
    BY <1>4, <2>1, <2>2, <2>3, <2>4, <2>5
<1>6. CASE ~(x < 10)
  <2>1. PICK q, d : q = x \div 10 /\ d = x % 10
    OBVIOUS
  <2>2. q \in Nat /\ d \in 0..9 /\ x = 10 * q + d /\ q < x
    BY <1>4, <1>6, <2>1
  <2>3. q \in UInt
    BY <1>0, <1>4, <2>2
  <2>4. PICK t : t = Decimal[q]
    OBVIOUS
  <2>5. t \in Seq(Character) /\ To_unsigned(t) = q
    BY <1>4, <2>2, <2>3, <2>4
  <2>6. Decimal[x] = t \o <<d>>
    BY <1>2, <1>4, <1>6, <2>1, <2>4 DEF DecimalTurn
  <2>7. PICK m \in Nat : m = Len(t)
    BY <2>5
  <2>8. PICK r : r = t \o <<d>>
    OBVIOUS
  <2>9. d \in Character
    BY <2>2 DEF Character
  <2>10. /\ r \in Seq(Character) /\ DOMAIN t = 1..m /\ DOMAIN r = 1..(m + 1)
         /\ r[m + 1] = d /\ \A k \in 1..m : r[k] = t[k]
    BY <2>5, <2>7, <2>8, <2>9
  <2>11. To_unsigned(r) = AddDigit(q, d)
    BY <2>5, <2>10, ReadMore
  <2>12. AddDigit(q, d) = x
    <3>1. 10 * q + d <= UIntMax
      BY <1>0, <1>4, <2>2
    <3>. QED
      BY <2>2, <2>3, <3>1, DigitFits
  <2>. QED
    BY <1>4, <2>6, <2>8, <2>10, <2>11, <2>12
<1>. QED
  BY <1>5, <1>6

\* FlattenSeq goes from list to list.
FlatTurn(s, f, i) == IF i = 1 THEN s[i] ELSE f[i - 1] \o s[i]
IsFlat(s, m, f) == f = [i \in 1..m |-> FlatTurn(s, f, i)]

\* It is defined for any number of them.
LEMMA FlatExists ==
  ASSUME NEW s, NEW m \in Nat
  PROVE  \E f : IsFlat(s, m, f)
<1>. DEFINE K == {k \in Nat : \E f : IsFlat(s, k, f)}
<1>1. 0 \in K
  <2>. DEFINE f == [i \in 1..0 |-> 0]
  <2>1. f = [i \in 1..0 |-> FlatTurn(s, f, i)]
    OBVIOUS
  <2>2. IsFlat(s, 0, f)
    BY <2>1 DEF IsFlat
  <2>. QED
    BY <2>2
<1>2. ASSUME NEW k \in K PROVE k + 1 \in K
  <2>1. PICK f : IsFlat(s, k, f)
    OBVIOUS
  <2>. DEFINE g == [i \in 1..(k + 1) |-> FlatTurn(s, f, i)]
  <2>2. \A i \in 1..k : f[i] = FlatTurn(s, f, i) /\ g[i] = f[i]
    <3>1. \A i \in 1..k : i \in 1..(k + 1)
      BY <1>2
    <3>. QED
      BY <2>1, <3>1 DEF IsFlat
  <2>3. ASSUME NEW i \in 1..(k + 1) PROVE FlatTurn(s, g, i) = FlatTurn(s, f, i)
    <3>1. i # 1 => i - 1 \in 1..k
      BY <1>2
    <3>. HIDE DEF g
    <3>. QED
      BY <2>2, <3>1 DEF FlatTurn
  <2>4. IsFlat(s, k + 1, g)
    BY <2>3 DEF IsFlat
  <2>. QED
    BY <1>2, <2>4
<1>3. K = Nat
  <2>. HIDE DEF K
  <2>1. K \in SUBSET Nat
    BY DEF K
  <2>. QED
    BY <1>1, <1>2, <2>1, NatAll
<1>. QED
  BY <1>3

\* Pairs one behind the other.
InPairs(w, a, b, m) ==
  /\ w \in Seq(Seq(Character)) /\ Len(w) = 2 * m
  /\ \A i \in 1..m : w[2 * i - 1] = a[i] /\ w[2 * i] = b[i]

\* One pair more.
LEMMA PairMore ==
  ASSUME NEW w, NEW a, NEW b, NEW k \in Nat, InPairs(w, a, b, k),
         a[k + 1] \in Seq(Character), b[k + 1] \in Seq(Character)
  PROVE  InPairs(w \o <<a[k + 1], b[k + 1]>>, a, b, k + 1)
<1>1. PICK x, y, T, v : x = a[k + 1] /\ y = b[k + 1] /\ T = Seq(Character) /\ v = w \o <<x, y>>
  OBVIOUS
<1>2. w \in Seq(T) /\ Len(w) = 2 * k /\ \A i \in 1..k : w[2 * i - 1] = a[i] /\ w[2 * i] = b[i]
  BY <1>1 DEF InPairs
<1>3. v \in Seq(T) /\ Len(v) = 2 * k + 2
  BY <1>1, <1>2
<1>4. \A i \in 1..(2 * k) : v[i] = w[i]
  BY <1>1, <1>2
<1>5. v[2 * k + 1] = x /\ v[2 * k + 2] = y
  BY <1>1, <1>2
<1>6. ASSUME NEW i \in 1..(k + 1) PROVE v[2 * i - 1] = a[i] /\ v[2 * i] = b[i]
  <2>1. CASE i = k + 1
    <3>1. 2 * i - 1 = 2 * k + 1 /\ 2 * i = 2 * k + 2
      BY <2>1
    <3>. QED
      BY <1>1, <1>5, <2>1, <3>1
  <2>2. CASE i # k + 1
    <3>1. i \in 1..k /\ 2 * i - 1 \in 1..(2 * k) /\ 2 * i \in 1..(2 * k)
      BY <2>2
    <3>. QED
      BY <1>2, <1>4, <3>1
  <2>. QED
    BY <2>1, <2>2
<1>7. 2 * k + 2 = 2 * (k + 1)
  OBVIOUS
<1>. QED
  BY <1>1, <1>3, <1>6, <1>7 DEF InPairs

\* A list of pairs is flattened to them.
LEMMA PairsFlat ==
  ASSUME NEW m \in Nat, NEW a, NEW b,
         \A i \in 1..m : a[i] \in Seq(Character) /\ b[i] \in Seq(Character)
  PROVE  InPairs(FlattenSeq([i \in 1..m |-> <<a[i], b[i]>>]), a, b, m)
<1>1. PICK s : s = [i \in 1..m |-> <<a[i], b[i]>>]
  OBVIOUS
<1>2. Len(s) = m
  BY <1>1
<1>3. CASE m = 0
  <2>1. FlattenSeq(s) = s
    BY <1>2, <1>3 DEF FlattenSeq
  <2>2. 1..m = {}
    BY <1>3
  <2>3. s \in Seq(Seq(Character)) /\ Len(s) = 2 * m
    BY <1>1, <1>2, <1>3, <2>2
  <2>. QED
    BY <1>1, <2>1, <2>2, <2>3 DEF InPairs
<1>4. CASE m # 0
  <2>1. PICK f : f = CHOOSE g : IsFlat(s, m, g)
    OBVIOUS
  <2>2. IsFlat(s, m, f)
    BY <2>1, FlatExists
  <2>3. FlattenSeq(s) = f[m]
    BY <1>2, <1>4, <2>1 DEF FlattenSeq, IsFlat, FlatTurn
  <2>4. \A i \in 1..m : f[i] = FlatTurn(s, f, i)
    BY <2>2 DEF IsFlat
  <2>. DEFINE K == {k \in Nat : k + 1 <= m => InPairs(f[k + 1], a, b, k + 1)}
  <2>5. 0 \in K
    <3>1. 1 \in 1..m /\ 0 + 1 = 1
      BY <1>4
    <3>2. f[1] = <<a[1], b[1]>>
      BY <1>1, <2>4, <3>1 DEF FlatTurn
    <3>3. InPairs(<<>>, a, b, 0)
      BY DEF InPairs
    <3>4. InPairs(<<>> \o <<a[1], b[1]>>, a, b, 1)
      BY <3>1, <3>3, PairMore
    <3>5. <<>> \o <<a[1], b[1]>> = <<a[1], b[1]>>
      OBVIOUS
    <3>. QED
      BY <3>1, <3>2, <3>4, <3>5
  <2>6. ASSUME NEW k \in K PROVE k + 1 \in K
    <3>1. k \in Nat /\ (k + 1 <= m => InPairs(f[k + 1], a, b, k + 1))
      OBVIOUS
    <3>2. ASSUME (k + 1) + 1 <= m PROVE InPairs(f[(k + 1) + 1], a, b, (k + 1) + 1)
      <4>1. PICK j \in Nat : j = k + 1 /\ j + 1 \in 1..m /\ (j + 1) - 1 = j /\ j + 1 # 1 /\ j <= m
        BY <3>1, <3>2
      <4>2. f[j + 1] = f[j] \o s[j + 1]
        BY <2>4, <4>1 DEF FlatTurn
      <4>3. InPairs(f[j], a, b, j)
        BY <3>1, <4>1
      <4>4. s[j + 1] = <<a[j + 1], b[j + 1]>>
        BY <1>1, <4>1
      <4>5. InPairs(f[j] \o <<a[j + 1], b[j + 1]>>, a, b, j + 1)
        BY <4>1, <4>3, PairMore
      <4>. QED
        BY <4>1, <4>2, <4>4, <4>5
    <3>. QED
      BY <3>1, <3>2
  <2>7. K = Nat
    <3>1. K \in SUBSET Nat
      OBVIOUS
    <3>. HIDE DEF K
    <3>. QED
      BY <2>5, <2>6, <3>1, NatAll
  <2>8. m - 1 \in Nat /\ (m - 1) + 1 = m
    BY <1>4
  <2>9. m - 1 \in K
    <3>. HIDE DEF K
    <3>. QED
      BY <2>7, <2>8
  <2>10. InPairs(f[m], a, b, m)
    BY <2>8, <2>9
  <2>. QED
    BY <1>1, <2>3, <2>10
<1>. QED
  BY <1>3, <1>4

\* Events as they are read: of two numbers, in any order.
Record == [start : UInt, end : UInt]

\* Two numbers make one.
LEMMA RecordOf ==
  ASSUME NEW e, e = [start |-> e.start, end |-> e.end], e.start \in UInt, e.end \in UInt
  PROVE  e \in Record
BY DEF Record

\* A file of events has two texts for each.
LEMMA WrittenPairs ==
  ASSUME NEW s \in Seq(Record)
  PROVE  /\ Written(s) \in Seq(Seq(Character)) /\ Len(Written(s)) = 2 * Len(s)
         /\ \A i \in 1..Len(s) : /\ Written(s)[2 * i - 1] = Decimal[s[i].start]
                                /\ Written(s)[2 * i] = Decimal[s[i].end]
<1>1. PICK m \in Nat : m = Len(s) /\ DOMAIN s = 1..m /\ \A i \in 1..m : s[i] \in Record
  OBVIOUS
<1>2. PICK a, b : a = [i \in 1..m |-> Decimal[s[i].start]] /\ b = [i \in 1..m |-> Decimal[s[i].end]]
  OBVIOUS
<1>3. \A i \in 1..m : /\ a[i] = Decimal[s[i].start] /\ a[i] \in Seq(Character)
                     /\ b[i] = Decimal[s[i].end] /\ b[i] \in Seq(Character)
  <2>1. \A i \in 1..m : s[i].start \in UInt /\ s[i].end \in UInt
    BY <1>1 DEF Record
  <2>. QED
    BY <1>2, <2>1, ReadsDecimal
<1>4. [i \in 1..m |-> <<a[i], b[i]>>] = [i \in DOMAIN s |-> <<Decimal[s[i].start], Decimal[s[i].end]>>]
  BY <1>1, <1>3
<1>5. InPairs(Written(s), a, b, m)
  <2>1. InPairs(FlattenSeq([i \in 1..m |-> <<a[i], b[i]>>]), a, b, m)
    BY <1>3, PairsFlat
  <2>. QED
    BY <1>4, <2>1 DEF Written
<1>. QED
  BY <1>1, <1>3, <1>5 DEF InPairs

\* What a file of texts is read as.
LEMMA ReadsFile ==
  ASSUME NEW file \in Seq(Seq(Character)), NEW m \in Nat, m = Len(file) \div 2
  PROVE  /\ 2 * m <= Len(file)
         /\ Len(Read_events(file).events) = m
         /\ \A k \in 1..m : /\ Read_events(file).events[k].start = To_unsigned(file[2 * k - 1])
                             /\ Read_events(file).events[k].end = To_unsigned(file[2 * k])
         /\ Read_events(file).failed <=> \E i \in 1..(2 * m) : To_unsigned(file[i]) = Invalid
         /\ ~Read_events(file).failed => Read_events(file).events \in Seq(Record)
<1>1. PICK l \in Nat : l = Len(file) /\ DOMAIN file = 1..l /\ \A i \in 1..l : file[i] \in Seq(Character)
  OBVIOUS
<1>2. 2 * m <= l
  BY <1>1
<1>3. PICK numbers : numbers = [i \in 1..(2 * m) |-> To_unsigned(file[i])]
  OBVIOUS
<1>4. PICK es : es = [k \in 1..m |-> [start |-> numbers[2 * k - 1], end |-> numbers[2 * k]]]
  OBVIOUS
<1>5. Read_events(file) = [failed |-> Invalid \in {numbers[i] : i \in DOMAIN numbers}, events |-> es]
  BY <1>3, <1>4 DEF Read_events
<1>6. \A k \in 1..m : 2 * k - 1 \in 1..(2 * m) /\ 2 * k \in 1..(2 * m)
  OBVIOUS
<1>7. \A k \in 1..m : /\ es[k] = [start |-> es[k].start, end |-> es[k].end]
                     /\ es[k].start = To_unsigned(file[2 * k - 1])
                     /\ es[k].end = To_unsigned(file[2 * k])
  BY <1>3, <1>4, <1>6
<1>8. Invalid \in {numbers[i] : i \in DOMAIN numbers} <=> \E i \in 1..(2 * m) : To_unsigned(file[i]) = Invalid
  BY <1>3
<1>9. Len(es) = m
  BY <1>4
<1>10. ASSUME ~(\E i \in 1..(2 * m) : To_unsigned(file[i]) = Invalid) PROVE es \in Seq(Record)
  <2>1. ASSUME NEW i \in 1..(2 * m) PROVE To_unsigned(file[i]) \in UInt
    <3>1. file[i] \in Seq(Character)
      BY <1>1, <1>2
    <3>. QED
      BY <1>10, <3>1, ReadsText
  <2>2. ASSUME NEW k \in 1..m PROVE es[k] \in Record
    <3>1. To_unsigned(file[2 * k - 1]) \in UInt /\ To_unsigned(file[2 * k]) \in UInt
      BY <1>6, <2>1
    <3>. QED
      BY <1>7, <3>1, RecordOf DEF Record
  <2>. QED
    BY <1>4, <2>2
<1>11. Read_events(file).events = es
  BY <1>5
<1>12. Read_events(file).failed <=> \E i \in 1..(2 * m) : To_unsigned(file[i]) = Invalid
  <2>1. PICK e, P : e = Read_events(file) /\ P = {numbers[i] : i \in DOMAIN numbers}
    OBVIOUS
  <2>2. e = [failed |-> Invalid \in P, events |-> es]
    BY <1>5, <2>1
  <2>3. e.failed <=> Invalid \in P
    BY <2>2
  <2>. QED
    BY <1>8, <2>1, <2>3
<1>. QED
  BY <1>1, <1>2, <1>7, <1>9, <1>10, <1>11, <1>12

\* What is written of events is read as these events.
LEMMA ReadsWritten ==
  ASSUME NEW s \in Seq(Record)
  PROVE  Read_events(Written(s)).events = s /\ ~Read_events(Written(s)).failed
<1>1. PICK m \in Nat : m = Len(s) /\ DOMAIN s = 1..m /\ \A i \in 1..m : s[i] \in Record
  OBVIOUS
<1>2. PICK file : file = Written(s)
  OBVIOUS
<1>3. /\ file \in Seq(Seq(Character)) /\ Len(file) = 2 * m
      /\ \A i \in 1..m : file[2 * i - 1] = Decimal[s[i].start] /\ file[2 * i] = Decimal[s[i].end]
  BY <1>1, <1>2, WrittenPairs
<1>4. m = Len(file) \div 2
  BY <1>3
<1>5. PICK es, failed : es = Read_events(file).events /\ failed = Read_events(file).failed
  OBVIOUS
<1>6. /\ Len(es) = m
      /\ \A k \in 1..m : es[k].start = To_unsigned(file[2 * k - 1]) /\ es[k].end = To_unsigned(file[2 * k])
      /\ failed <=> \E i \in 1..(2 * m) : To_unsigned(file[i]) = Invalid
      /\ ~failed => es \in Seq(Record)
  BY <1>3, <1>4, <1>5, ReadsFile
<1>7. \A k \in 1..m : s[k].start \in UInt /\ s[k].end \in UInt
  BY <1>1 DEF Record
<1>8. \A k \in 1..m : /\ To_unsigned(file[2 * k - 1]) = s[k].start
                     /\ To_unsigned(file[2 * k]) = s[k].end
  BY <1>3, <1>7, ReadsDecimal
<1>9. ASSUME NEW i \in 1..(2 * m) PROVE To_unsigned(file[i]) # Invalid
  <2>1. PICK k \in 1..m : i = 2 * k - 1 \/ i = 2 * k
    <3>1. (i + 1) \div 2 \in 1..m /\ (i = 2 * ((i + 1) \div 2) - 1 \/ i = 2 * ((i + 1) \div 2))
      OBVIOUS
    <3>. QED
      BY <3>1
  <2>2. To_unsigned(file[i]) \in UInt
    BY <1>7, <1>8, <2>1
  <2>. QED
    BY <2>2, DataSetAssumption DEF UInt, Invalid
<1>10. ~failed /\ es \in Seq(Record)
  BY <1>6, <1>9
<1>11. ASSUME NEW k \in 1..m PROVE es[k] = s[k]
  <2>1. es[k] \in Record /\ s[k] \in Record
    BY <1>1, <1>6, <1>10
  <2>2. es[k].start = s[k].start /\ es[k].end = s[k].end
    BY <1>6, <1>8
  <2>. QED
    BY <2>1, <2>2 DEF Record
<1>12. es = s
  BY <1>1, <1>6, <1>10, <1>11
<1>. QED
  BY <1>2, <1>5, <1>10, <1>12

(* Sorting and shuffling. *)

\* A set that another one is mapped onto one to one has as many elements.
LEMMA SameSize ==
  ASSUME NEW A, NEW B, IsFiniteSet(A), NEW g \in [A -> B],
         \A b \in B : \E a \in A : g[a] = b, \A x, y \in A : g[x] = g[y] => x = y
  PROVE  IsFiniteSet(B) /\ Cardinality(B) = Cardinality(A)
<1>1. g \in Surjection(A, B)
  BY DEF Surjection
<1>2. g \in Injection(A, B)
  BY DEF Injection, IsInjective
<1>. QED
  BY <1>1, <1>2, FS_Surjection

\* So many are the first numbers.
LEMMA FirstCount ==
  ASSUME NEW m \in Nat
  PROVE  IsFiniteSet(1..m) /\ Cardinality(1..m) = m
BY FS_Interval

\* The order of the positions of a list: that of their events, and of equal ones as they stand.
Before(s, j, i) == ~Events!AtOrBefore(s[i], s[j]) \/ (s[i] = s[j] /\ j <= i)
UpTo(s, i) == {j \in 1..Len(s) : Before(s, j, i)}

\* It is a total order, and the one of the events.
LEMMA BeforeOrders ==
  ASSUME NEW s \in Seq(Record), NEW i \in 1..Len(s), NEW j \in 1..Len(s)
  PROVE  /\ Before(s, i, i) /\ (Before(s, i, j) \/ Before(s, j, i))
         /\ Before(s, i, j) => Events!AtOrBefore(s[i], s[j])
         /\ Before(s, i, j) /\ i # j => ~Before(s, j, i)
         /\ \A k \in 1..Len(s) : Before(s, k, i) /\ Before(s, i, j) => Before(s, k, j)
<1>1. PICK m \in Nat : m = Len(s) /\ \A k \in 1..m : s[k] \in Record
  OBVIOUS
<1>2. PICK a, b : a = [k \in 1..m |-> s[k].start] /\ b = [k \in 1..m |-> s[k].end]
  OBVIOUS
<1>3. \A k \in 1..m : /\ s[k] = [start |-> a[k], end |-> b[k]] /\ s[k].start = a[k] /\ s[k].end = b[k]
                     /\ a[k] \in Int /\ b[k] \in Int
  BY <1>1, <1>2, DataSetAssumption DEF Record, UInt
<1>4. ASSUME NEW k \in 1..m, NEW l \in 1..m
      PROVE  Before(s, k, l) <=> \/ a[k] < a[l] \/ (a[k] = a[l] /\ b[k] < b[l])
                                 \/ (a[k] = a[l] /\ b[k] = b[l] /\ k <= l)
  <2>1. Events!AtOrBefore(s[l], s[k]) <=> a[l] < a[k] \/ (a[l] = a[k] /\ b[l] <= b[k])
    BY <1>3 DEF Events!AtOrBefore
  <2>2. s[k] = s[l] <=> a[k] = a[l] /\ b[k] = b[l]
    <3>1. /\ s[k] = [start |-> a[k], end |-> b[k]] /\ s[k].start = a[k] /\ s[k].end = b[k]
          /\ s[l] = [start |-> a[l], end |-> b[l]] /\ s[l].start = a[l] /\ s[l].end = b[l]
      BY <1>3
    <3>. QED
      BY <3>1
  <2>3. a[k] \in Int /\ b[k] \in Int /\ a[l] \in Int /\ b[l] \in Int
    BY <1>3
  <2>4. Before(s, k, l) <=> ~(a[l] < a[k] \/ (a[l] = a[k] /\ b[l] <= b[k]))
                            \/ (a[k] = a[l] /\ b[k] = b[l] /\ k <= l)
    BY <2>1, <2>2 DEF Before
  <2>. QED
    BY <2>3, <2>4
<1>5. i \in 1..m /\ j \in 1..m
  BY <1>1
<1>0. \A k \in 1..m : a[k] \in Int /\ b[k] \in Int
  BY <1>3
<1>6. Before(s, i, i) /\ (Before(s, i, j) \/ Before(s, j, i))
  BY <1>0, <1>4, <1>5
<1>7. Before(s, i, j) => Events!AtOrBefore(s[i], s[j])
  <2>1. Before(s, i, j) => a[i] < a[j] \/ (a[i] = a[j] /\ b[i] <= b[j])
    BY <1>0, <1>4, <1>5
  <2>. QED
    BY <1>3, <1>5, <2>1 DEF Events!AtOrBefore
<1>8. Before(s, i, j) /\ i # j => ~Before(s, j, i)
  BY <1>0, <1>4, <1>5
<1>9. ASSUME NEW k \in 1..m PROVE Before(s, k, i) /\ Before(s, i, j) => Before(s, k, j)
  BY <1>0, <1>4, <1>5
<1>. QED
  BY <1>1, <1>6, <1>7, <1>8, <1>9

\* The places q of the events of s in this order.
Places(s, m, q) ==
  /\ \A i \in 1..m : q[i] \in 1..m
  /\ \A i, j \in 1..m : Before(s, i, j) => q[i] <= q[j]
  /\ \A k \in 1..m : \E i \in 1..m : q[i] = k

\* The place of an event is the number of positions up to its own: every place is taken once.
LEMMA PlacesTaken ==
  ASSUME NEW s \in Seq(Record)
  PROVE  \E q : Places(s, Len(s), q)
<1>. DEFINE m == Len(s)
            q == [i \in 1..m |-> Cardinality(UpTo(s, i))]
<1>0. m \in Nat
  OBVIOUS
<1>1. IsFiniteSet(1..m) /\ Cardinality(1..m) = m
  BY <1>0, FirstCount
<1>2. ASSUME NEW i \in 1..m PROVE /\ IsFiniteSet(UpTo(s, i)) /\ Cardinality(UpTo(s, i)) \in 1..m
  <2>1. UpTo(s, i) \in SUBSET (1..m) /\ i \in UpTo(s, i)
    BY BeforeOrders DEF UpTo
  <2>2. IsFiniteSet(UpTo(s, i)) /\ Cardinality(UpTo(s, i)) <= m
    BY <1>1, <2>1, FS_Subset
  <2>3. Cardinality(UpTo(s, i)) # 0
    BY <2>1, <2>2, FS_EmptySet
  <2>. QED
    BY <2>2, <2>3, FS_CardinalityType
<1>3. ASSUME NEW i \in 1..m, NEW j \in 1..m, Before(s, i, j)
      PROVE  q[i] <= q[j] /\ (i # j => q[i] < q[j])
  <2>1. UpTo(s, i) \in SUBSET UpTo(s, j)
    BY <1>3, BeforeOrders DEF UpTo
  <2>2. i # j => j \in UpTo(s, j) /\ j \notin UpTo(s, i)
    BY <1>3, BeforeOrders DEF UpTo
  <2>3. Cardinality(UpTo(s, i)) <= Cardinality(UpTo(s, j))
    BY <1>2, <2>1, FS_Subset
  <2>4. i # j => Cardinality(UpTo(s, i)) # Cardinality(UpTo(s, j))
    BY <1>2, <2>1, <2>2, FS_Subset
  <2>. QED
    BY <1>2, <2>3, <2>4
<1>4. q \in [1..m -> 1..m]
  BY <1>2
<1>5. \A i, j \in 1..m : q[i] = q[j] => i = j
  <2>1. ASSUME NEW i \in 1..m, NEW j \in 1..m, i # j PROVE q[i] # q[j]
    <3>1. Before(s, i, j) \/ Before(s, j, i)
      BY BeforeOrders
    <3>2. q[i] < q[j] \/ q[j] < q[i]
      BY <1>3, <2>1, <3>1
    <3>. QED
      BY <1>4, <3>2
  <2>. QED
    BY <2>1
<1>6. q \in Injection(1..m, 1..m)
  BY <1>4, <1>5 DEF Injection, IsInjective
<1>7. q \in Surjection(1..m, 1..m)
  BY <1>1, <1>6, FS_Injection
<1>. QED
  BY <1>3, <1>4, <1>7 DEF Surjection, Places

\* Every list of events has a sorted order: what Sorted chooses is one.
LEMMA SortedSorts ==
  ASSUME NEW s \in Seq(Record)
  PROVE  Sorted(s) \in Shuffles(s) /\ Events!Ordered(Sorted(s))
<1>. DEFINE m == Len(s)
<1>1. m \in Nat /\ DOMAIN s = 1..m
  OBVIOUS
<1>. HIDE DEF m
<1>2. PICK q : Places(s, m, q)
  BY PlacesTaken DEF m
<1>3. /\ \A i \in 1..m : q[i] \in 1..m
      /\ \A i, j \in 1..m : Before(s, i, j) => q[i] <= q[j]
      /\ \A k \in 1..m : \E i \in 1..m : q[i] = k
  BY <1>2 DEF Places
<1>4. PICK p : p = [k \in 1..m |-> CHOOSE i \in 1..m : q[i] = k]
  OBVIOUS
<1>5. \A k \in 1..m : p[k] \in 1..m /\ q[p[k]] = k
  BY <1>3, <1>4
<1>6. p \in Bijection(1..m, 1..m)
  <2>1. p \in [1..m -> 1..m]
    BY <1>4, <1>5
  <2>2. \A k, l \in 1..m : p[k] = p[l] => k = l
    BY <1>5
  <2>3. p \in Injection(1..m, 1..m)
    BY <2>1, <2>2 DEF Injection, IsInjective
  <2>4. p \in Surjection(1..m, 1..m)
    BY <1>1, <2>3, FS_Injection, FirstCount
  <2>. QED
    BY <2>3, <2>4 DEF Bijection
<1>7. PICK t : t = [k \in 1..m |-> s[p[k]]]
  OBVIOUS
<1>8. t \in Shuffles(s)
  BY <1>1, <1>6, <1>7 DEF Shuffles
<1>9. Events!Ordered(t)
  <2>1. ASSUME NEW k \in 1..m, NEW l \in 1..m, k < l PROVE Events!AtOrBefore(t[k], t[l])
    <3>1. ~Before(s, p[l], p[k])
      <4>1. SUFFICES ASSUME Before(s, p[l], p[k]) PROVE FALSE
        OBVIOUS
      <4>2. q[p[l]] <= q[p[k]]
        BY <1>3, <1>5, <4>1
      <4>. QED
        BY <1>5, <2>1, <4>2
    <3>2. Before(s, p[k], p[l])
      BY <1>1, <1>5, <3>1, BeforeOrders
    <3>3. Events!AtOrBefore(s[p[k]], s[p[l]])
      BY <1>1, <1>5, <3>2, BeforeOrders
    <3>. QED
      BY <1>7, <3>3
  <2>2. DOMAIN t = 1..m
    BY <1>7
  <2>. QED
    BY <2>1, <2>2 DEF Events!Ordered
<1>. QED
  BY <1>8, <1>9 DEF Sorted

\* How often a list holds something.
LEMMA CountNat ==
  ASSUME NEW s \in Seq(Record), NEW x
  PROVE  /\ IsFiniteSet({k \in DOMAIN s : s[k] = x}) /\ Count(s, x) \in Nat
         /\ Count(s, x) = 0 <=> x \notin Range(s)
<1>1. IsFiniteSet(1..Len(s))
  <2>1. Len(s) \in Nat
    OBVIOUS
  <2>. QED
    BY <2>1, FirstCount
<1>2. {k \in DOMAIN s : s[k] = x} \in SUBSET (1..Len(s))
  OBVIOUS
<1>3. IsFiniteSet({k \in DOMAIN s : s[k] = x})
  BY <1>1, <1>2, FS_Subset
<1>4. Count(s, x) \in Nat
  BY <1>3, FS_CardinalityType DEF Count
<1>5. Count(s, x) = 0 <=> {k \in DOMAIN s : s[k] = x} = {}
  BY <1>3, FS_EmptySet DEF Count
<1>. QED
  BY <1>3, <1>4, <1>5 DEF Range

\* A shuffled list holds the same events, as often.
LEMMA ShuffleKeeps ==
  ASSUME NEW s \in Seq(Record), NEW t \in Shuffles(s)
  PROVE  t \in Seq(Record) /\ Len(t) = Len(s) /\ \A x : Count(t, x) = Count(s, x)
<1>. DEFINE m == Len(s)
<1>1. m \in Nat /\ DOMAIN s = 1..m /\ \A k \in 1..m : s[k] \in Record
  OBVIOUS
<1>2. PICK p \in Bijection(1..m, 1..m) : t = [i \in 1..m |-> s[p[i]]]
  BY <1>1 DEF Shuffles
<1>. HIDE DEF m
<1>3. /\ p \in [1..m -> 1..m] /\ \A i, j \in 1..m : p[i] = p[j] => i = j
      /\ \A k \in 1..m : \E i \in 1..m : p[i] = k
  BY DEF Bijection, Injection, IsInjective, Surjection
<1>4. t \in Seq(Record) /\ Len(t) = m /\ DOMAIN t = 1..m
  <2>1. t \in [1..m -> Record]
    BY <1>1, <1>2, <1>3
  <2>. QED
    BY <1>1, <2>1
<1>5. ASSUME NEW x PROVE Count(t, x) = Count(s, x)
  <2>. DEFINE A == {k \in DOMAIN t : t[k] = x}
              B == {k \in DOMAIN s : s[k] = x}
              g == [k \in A |-> p[k]]
  <2>1. IsFiniteSet(A)
    BY <1>4, CountNat
  <2>2. g \in [A -> B]
    BY <1>1, <1>2, <1>3, <1>4
  <2>3. \A b \in B : \E a \in A : g[a] = b
    BY <1>1, <1>2, <1>3, <1>4
  <2>4. \A a, b \in A : g[a] = g[b] => a = b
    BY <1>3, <1>4
  <2>5. Cardinality(B) = Cardinality(A)
    <3>. HIDE DEF A, B, g
    <3>. QED
      BY <2>1, <2>2, <2>3, <2>4, SameSize
  <2>. QED
    BY <2>5 DEF Count
<1>. QED
  BY <1>4, <1>5 DEF m

\* The two parts of a list hold no more than the list.
LEMMA PartsCount ==
  ASSUME NEW s \in Seq(Record), NEW h \in Nat, NEW e \in Nat, h <= e, e <= Len(s), NEW x
  PROVE  /\ SubSeq(s, 1, h) \in Seq(Record) /\ SubSeq(s, h + 1, e) \in Seq(Record)
         /\ Len(SubSeq(s, 1, h)) = h /\ Len(SubSeq(s, h + 1, e)) = e - h
         /\ Count(SubSeq(s, 1, h), x) + Count(SubSeq(s, h + 1, e), x) <= Count(s, x)
<1>. DEFINE m == Len(s)
            a == SubSeq(s, 1, h)
            b == SubSeq(s, h + 1, e)
            A == {k \in DOMAIN a : a[k] = x}
            B == {k \in DOMAIN b : b[k] = x}
            C == {k \in DOMAIN s : s[k] = x}
            D == {k \in C : h < k /\ k <= e}
            g == [k \in B |-> k + h]
<1>1. m \in Nat /\ DOMAIN s = 1..m /\ \A k \in 1..m : s[k] \in Record
  OBVIOUS
<1>2. /\ a \in Seq(Record) /\ Len(a) = h /\ DOMAIN a = 1..h /\ \A k \in 1..h : a[k] = s[k]
  OBVIOUS
<1>3. /\ b \in Seq(Record) /\ Len(b) = e - h /\ DOMAIN b = 1..(e - h)
      /\ \A k \in 1..(e - h) : b[k] = s[k + h]
  OBVIOUS
<1>4. e <= m
  OBVIOUS
<1>. HIDE DEF m, a, b
<1>5. IsFiniteSet(A) /\ IsFiniteSet(B) /\ IsFiniteSet(C)
  BY <1>2, <1>3, CountNat
<1>6. g \in [B -> D]
  BY <1>1, <1>3, <1>4
<1>7. \A d \in D : \E k \in B : g[k] = d
  <2>1. ASSUME NEW d \in D PROVE d - h \in B /\ g[d - h] = d
    BY <1>1, <1>3, <1>4
  <2>. QED
    BY <2>1
<1>8. \A k, l \in B : g[k] = g[l] => k = l
  BY <1>3
<1>9. A \in SUBSET C /\ D \in SUBSET C /\ A \cap D = {}
  BY <1>1, <1>2, <1>4
<1>. HIDE DEF A, B, C, D, g
<1>10. IsFiniteSet(D) /\ Cardinality(D) = Cardinality(B)
  BY <1>5, <1>6, <1>7, <1>8, SameSize
<1>11. /\ IsFiniteSet(A \cup D)
       /\ Cardinality(A \cup D) = Cardinality(A) + Cardinality(D) - Cardinality(A \cap D)
  BY <1>5, <1>10, FS_Union
<1>12. Cardinality(A \cup D) <= Cardinality(C)
  BY <1>5, <1>9, FS_Subset
<1>13. Cardinality(A \cap D) = 0 /\ Cardinality(A) \in Nat /\ Cardinality(D) \in Nat
  BY <1>5, <1>9, <1>10, FS_EmptySet, FS_CardinalityType
<1>14. Cardinality(A) + Cardinality(B) <= Cardinality(C)
  BY <1>10, <1>11, <1>12, <1>13
<1>15. Count(a, x) = Cardinality(A) /\ Count(b, x) = Cardinality(B) /\ Count(s, x) = Cardinality(C)
  BY DEF Count, A, B, C
<1>16. Count(a, x) + Count(b, x) <= Count(s, x)
  BY <1>14, <1>15
<1>. QED
  BY <1>2, <1>3, <1>16 DEF a, b

\* The bag of a list and the counts.
LEMMA BagOf ==
  ASSUME NEW s
  PROVE  DOMAIN ToBag(s) = Range(s) /\ \A x \in Range(s) : ToBag(s)[x] = Count(s, x)
BY DEF ToBag, Count

\* Lists that hold no more together than a third have no larger bag.
LEMMA BagWithin ==
  ASSUME NEW s \in Seq(Record), NEW t \in Seq(Record), NEW u,
         u \in Seq(Record), \A x : Count(s, x) + Count(t, x) <= Count(u, x)
  PROVE  ToBag(s) (+) ToBag(t) \sqsubseteq ToBag(u)
<1>. DEFINE a == ToBag(s)
            b == ToBag(t)
            c == ToBag(u)
<1>1. \A x : Count(s, x) \in Nat /\ Count(t, x) \in Nat /\ Count(u, x) \in Nat
  BY CountNat
<1>2. \A x : /\ Count(s, x) = 0 <=> x \notin Range(s)
             /\ Count(t, x) = 0 <=> x \notin Range(t)
             /\ Count(u, x) = 0 <=> x \notin Range(u)
  BY CountNat
<1>3. /\ DOMAIN a = Range(s) /\ \A x \in Range(s) : a[x] = Count(s, x)
      /\ DOMAIN b = Range(t) /\ \A x \in Range(t) : b[x] = Count(t, x)
      /\ DOMAIN c = Range(u) /\ \A x \in Range(u) : c[x] = Count(u, x)
  BY BagOf
<1>. HIDE DEF a, b, c
<1>4. DOMAIN (a (+) b) = Range(s) \cup Range(t)
  BY <1>3 DEF (+)
<1>5. ASSUME NEW x \in Range(s) \cup Range(t)
      PROVE  x \in DOMAIN c /\ (a (+) b)[x] <= c[x]
  <2>1. (a (+) b)[x] = (IF x \in DOMAIN a THEN a[x] ELSE 0) + (IF x \in DOMAIN b THEN b[x] ELSE 0)
    BY <1>3 DEF (+)
  <2>2. (a (+) b)[x] = Count(s, x) + Count(t, x)
    BY <1>2, <1>3, <2>1
  <2>3. Count(s, x) # 0 \/ Count(t, x) # 0
    BY <1>2
  <2>4. Count(u, x) # 0
    <3>1. Count(s, x) + Count(t, x) <= Count(u, x)
      OBVIOUS
    <3>. QED
      BY <1>1, <2>3, <3>1
  <2>5. x \in Range(u)
    BY <1>2, <2>4
  <2>. QED
    BY <1>3, <2>2, <2>5
<1>. QED
  BY <1>4, <1>5 DEF \sqsubseteq, a, b, c

\* Lists that hold the same as often have one bag.
LEMMA SameBag ==
  ASSUME NEW s \in Seq(Record), NEW t \in Seq(Record), \A x : Count(s, x) = Count(t, x)
  PROVE  ToBag(s) = ToBag(t)
<1>1. Range(s) = Range(t)
  <2>1. \A x : x \in Range(s) <=> x \in Range(t)
    BY CountNat
  <2>. QED
    BY <2>1
<1>2. ToBag(s) = [x \in Range(s) |-> Count(s, x)] /\ ToBag(t) = [x \in Range(t) |-> Count(t, x)]
  BY DEF ToBag, Count
<1>. QED
  BY <1>1, <1>2

(* The lists of measure_jump. *)

Rising(s) == \A i, j \in DOMAIN s : i < j => s[i].start < s[j].start
GapEvent == [start : Nat, end : Nat]

\* The list cur that is filled with a block of the size that starts at base, and the other one.
GapLists(cur, other, base, block, size) ==
  /\ cur \in Seq(GapEvent) /\ other \in Seq(GapEvent)
  /\ Rising(cur) /\ Rising(other)
  /\ \A i \in DOMAIN other : other[i].start <= other[i].end /\ other[i].end < base
  /\ \A i \in DOMAIN cur :
       /\ cur[i].start <= cur[i].end /\ cur[i].start < base + block
       /\ cur[i].end <= base + size /\ (cur[i].end < base \/ base <= cur[i].start)
  /\ \A i \in DOMAIN cur, j \in DOMAIN other : ~Events!Overlaps(cur[i], other[j])

\* A gap event has numbers for its times.
LEMMA GapTimes ==
  ASSUME NEW e \in GapEvent
  PROVE  e.start \in Nat /\ e.end \in Nat
BY DEF GapEvent

\* After a block the lists change places, one number behind the end of the block.
LEMMA GapTurns ==
  ASSUME NEW cur, NEW other, NEW base \in Nat, NEW size \in Nat,
         GapLists(cur, other, base, size, size)
  PROVE  GapLists(other, cur, base + size + 1, 0, size)
<1>1. /\ cur \in Seq(GapEvent) /\ other \in Seq(GapEvent)
      /\ Rising(cur) /\ Rising(other)
      /\ \A i \in DOMAIN other : other[i].start <= other[i].end /\ other[i].end < base
      /\ \A i \in DOMAIN cur : cur[i].start <= cur[i].end /\ cur[i].end <= base + size
      /\ \A i \in DOMAIN cur, j \in DOMAIN other : ~Events!Overlaps(cur[i], other[j])
  BY DEF GapLists
<1>2. ASSUME NEW i \in DOMAIN other
      PROVE  /\ other[i].start <= other[i].end /\ other[i].start < (base + size + 1) + 0
             /\ other[i].end <= (base + size + 1) + size
             /\ (other[i].end < base + size + 1 \/ base + size + 1 <= other[i].start)
  <2>1. other[i] \in GapEvent
    BY <1>1
  <2>. QED
    BY <1>1, <2>1, GapTimes
<1>3. ASSUME NEW i \in DOMAIN cur
      PROVE  cur[i].start <= cur[i].end /\ cur[i].end < base + size + 1
  <2>1. cur[i] \in GapEvent
    BY <1>1
  <2>. QED
    BY <1>1, <2>1, GapTimes
<1>4. \A i \in DOMAIN other, j \in DOMAIN cur : ~Events!Overlaps(other[i], cur[j])
  BY <1>1 DEF Events!Overlaps
<1>. QED
  BY <1>1, <1>2, <1>3, <1>4 DEF GapLists

\* The next event of a block.
LEMMA GapGrows ==
  ASSUME NEW cur, NEW other, NEW base \in Nat, NEW block \in Nat, NEW size \in Nat, block < size,
         GapLists(cur, other, base, block, size),
         NEW e, e = [start |-> base + block, end |-> base + size]
  PROVE  GapLists(Append(cur, e), other, base, block + 1, size)
<1>1. /\ cur \in Seq(GapEvent) /\ other \in Seq(GapEvent)
      /\ Rising(cur) /\ Rising(other)
      /\ \A i \in DOMAIN other : other[i].start <= other[i].end /\ other[i].end < base
      /\ \A i \in DOMAIN cur :
           /\ cur[i].start <= cur[i].end /\ cur[i].start < base + block
           /\ cur[i].end <= base + size /\ (cur[i].end < base \/ base <= cur[i].start)
      /\ \A i \in DOMAIN cur, j \in DOMAIN other : ~Events!Overlaps(cur[i], other[j])
  BY DEF GapLists
<1>2. PICK m \in Nat : m = Len(cur) /\ DOMAIN cur = 1..m /\ \A i \in 1..m : cur[i] \in GapEvent
  BY <1>1
<1>3. e \in GapEvent /\ e.start = base + block /\ e.end = base + size
  BY DEF GapEvent
<1>4. PICK new : new = Append(cur, e)
  OBVIOUS
<1>5. /\ new \in Seq(GapEvent) /\ DOMAIN new = 1..(m + 1) /\ new[m + 1] = e
      /\ \A i \in 1..m : new[i] = cur[i]
  BY <1>1, <1>2, <1>3, <1>4
<1>6. \A i \in 1..m : cur[i].start \in Nat /\ cur[i].end \in Nat
  BY <1>2, GapTimes
<1>7. Rising(new)
  <2>1. ASSUME NEW i \in 1..(m + 1), NEW j \in 1..(m + 1), i < j PROVE new[i].start < new[j].start
    <3>1. CASE j = m + 1
      <4>1. i \in 1..m
        BY <2>1, <3>1
      <4>. QED
        BY <1>1, <1>2, <1>3, <1>5, <3>1, <4>1
    <3>2. CASE j # m + 1
      <4>1. i \in 1..m /\ j \in 1..m
        BY <2>1, <3>2
      <4>. QED
        BY <1>1, <1>2, <1>5, <2>1, <4>1 DEF Rising
    <3>. QED
      BY <3>1, <3>2
  <2>. QED
    BY <1>5, <2>1 DEF Rising
<1>8. ASSUME NEW i \in 1..(m + 1)
      PROVE  /\ new[i].start <= new[i].end /\ new[i].start < base + (block + 1)
             /\ new[i].end <= base + size /\ (new[i].end < base \/ base <= new[i].start)
  <2>1. CASE i = m + 1
    BY <1>3, <1>5, <2>1
  <2>2. CASE i # m + 1
    <3>1. i \in 1..m
      BY <2>2
    <3>. QED
      BY <1>1, <1>2, <1>5, <1>6, <3>1
  <2>. QED
    BY <2>1, <2>2
<1>9. ASSUME NEW i \in 1..(m + 1), NEW j \in DOMAIN other PROVE ~Events!Overlaps(new[i], other[j])
  <2>1. CASE i = m + 1
    <3>1. other[j].end < base /\ other[j] \in GapEvent
      BY <1>1
    <3>2. other[j].end \in Nat
      BY <3>1, GapTimes
    <3>3. new[i].start = base + block
      BY <1>3, <1>5, <2>1
    <3>. QED
      BY <3>1, <3>2, <3>3 DEF Events!Overlaps
  <2>2. CASE i # m + 1
    <3>1. i \in 1..m
      BY <2>2
    <3>. QED
      BY <1>1, <1>2, <1>5, <3>1
  <2>. QED
    BY <2>1, <2>2
<1>. QED
  BY <1>1, <1>4, <1>5, <1>7, <1>8, <1>9 DEF GapLists

\* The lists are in order.
LEMMA RisingOrders ==
  ASSUME NEW s, Rising(s)
  PROVE  Events!Ordered(s)
BY DEF Rising, Events!Ordered, Events!AtOrBefore

\* No two events have one start.
LEMMA RisingDiffers ==
  ASSUME NEW s \in Seq(GapEvent), Rising(s)
  PROVE  \A i, j \in DOMAIN s : i # j => s[i].start # s[j].start
<1>1. \A i \in DOMAIN s : i \in Nat /\ s[i].start \in Nat
  BY GapTimes
<1>. QED
  BY <1>1 DEF Rising

---------------------------------------------------------------------------------
(* The shortest and the longest event. *)

\* What min_max has found among the first i - 1 events of s.
FoundAmong(f, s, i) ==
  /\ f = [min |-> f.min, max |-> f.max, minEvent |-> f.minEvent, maxEvent |-> f.maxEvent]
  /\ f.min \in UInt /\ f.max \in UInt
  /\ \A k \in 1..(i - 1) : f.min <= Diff(s[k]) /\ Diff(s[k]) <= f.max
  /\ f.min = UIntMax \/ \E k \in 1..(i - 1) : f.minEvent = s[k] /\ f.min = Diff(s[k])
  /\ f.max = 0 \/ \E k \in 1..(i - 1) : f.maxEvent = s[k] /\ f.max = Diff(s[k])

\* A duration is a number of UInt.
LEMMA DiffType ==
  ASSUME NEW e \in Record
  PROVE  Diff(e) \in UInt
<1>1. e.end - e.start \in Int /\ UIntMax + 1 \in Nat \ {0}
  BY DataSetAssumption DEF Record, UInt
<1>2. (e.end - e.start) % (UIntMax + 1) \in 0..((UIntMax + 1) - 1)
  BY <1>1
<1>. QED
  BY <1>2, DataSetAssumption DEF Diff, UInt

\* Considering one more.
LEMMA FoundMore ==
  ASSUME NEW s \in Seq(Record), NEW i \in 1..Len(s), NEW f, FoundAmong(f, s, i)
  PROVE  FoundAmong(Considered(f, s[i]), s, i + 1)
<1>1. PICK e, d, g : e = s[i] /\ d = Diff(e) /\ g = Considered(f, e)
  OBVIOUS
<1>2. d \in UInt
  BY <1>1, DiffType
<1>3. /\ f = [min |-> f.min, max |-> f.max, minEvent |-> f.minEvent, maxEvent |-> f.maxEvent]
      /\ f.min \in UInt /\ f.max \in UInt
      /\ \A k \in 1..(i - 1) : f.min <= Diff(s[k]) /\ Diff(s[k]) <= f.max
      /\ f.min = UIntMax \/ \E k \in 1..(i - 1) : f.minEvent = s[k] /\ f.min = Diff(s[k])
      /\ f.max = 0 \/ \E k \in 1..(i - 1) : f.maxEvent = s[k] /\ f.max = Diff(s[k])
  BY DEF FoundAmong
<1>4. /\ g = [min |-> g.min, max |-> g.max, minEvent |-> g.minEvent, maxEvent |-> g.maxEvent]
      /\ g.min = IF d < f.min THEN d ELSE f.min
      /\ g.minEvent = IF d < f.min THEN e ELSE f.minEvent
      /\ g.max = IF f.max < d THEN d ELSE f.max
      /\ g.maxEvent = IF f.max < d THEN e ELSE f.maxEvent
  <2>1. PICK h : h = IF d < f.min THEN [f EXCEPT !.min = d, !.minEvent = e] ELSE f
    OBVIOUS
  <2>2. /\ h = [min |-> h.min, max |-> h.max, minEvent |-> h.minEvent, maxEvent |-> h.maxEvent]
        /\ h.min = IF d < f.min THEN d ELSE f.min
        /\ h.minEvent = IF d < f.min THEN e ELSE f.minEvent
        /\ h.max = f.max /\ h.maxEvent = f.maxEvent
    BY <1>3, <2>1
  <2>3. g = IF f.max < d THEN [h EXCEPT !.max = d, !.maxEvent = e] ELSE h
    BY <1>1, <2>1 DEF Considered
  <2>. QED
    BY <2>2, <2>3
<1>5. g.min \in UInt /\ g.max \in UInt
  BY <1>2, <1>3, <1>4
<1>6. \A k \in 1..((i + 1) - 1) : k \in 1..(i - 1) \/ k = i
  OBVIOUS
<1>7. /\ f.min \in Int /\ f.max \in Int /\ d \in Int /\ i \in 1..((i + 1) - 1)
      /\ \A k \in 1..(i - 1) : k \in 1..((i + 1) - 1)
      /\ Diff(s[i]) = d
  BY <1>1, <1>2, <1>3, DataSetAssumption DEF UInt
<1>8. ASSUME NEW k \in 1..((i + 1) - 1) PROVE g.min <= Diff(s[k]) /\ Diff(s[k]) <= g.max
  <2>1. CASE k = i
    BY <1>4, <1>7, <2>1
  <2>2. CASE k \in 1..(i - 1)
    <3>1. Diff(s[k]) \in Int
      <4>1. s[k] \in Record
        BY <2>2
      <4>. QED
        BY <4>1, DiffType, DataSetAssumption DEF UInt
    <3>. QED
      BY <1>3, <1>4, <1>7, <2>2, <3>1
  <2>. QED
    BY <1>6, <2>1, <2>2
<1>9. g.min = UIntMax \/ \E k \in 1..((i + 1) - 1) : g.minEvent = s[k] /\ g.min = Diff(s[k])
  <2>1. CASE d < f.min
    BY <1>1, <1>4, <1>7, <2>1
  <2>2. CASE ~(d < f.min)
    BY <1>3, <1>4, <1>7, <2>2
  <2>. QED
    BY <2>1, <2>2
<1>10. g.max = 0 \/ \E k \in 1..((i + 1) - 1) : g.maxEvent = s[k] /\ g.max = Diff(s[k])
  <2>1. CASE f.max < d
    BY <1>1, <1>4, <1>7, <2>1
  <2>2. CASE ~(f.max < d)
    BY <1>3, <1>4, <1>7, <2>2
  <2>. QED
    BY <2>1, <2>2
<1>. QED
  BY <1>1, <1>4, <1>5, <1>8, <1>9, <1>10 DEF FoundAmong

(* The invariant of the programs. *)

\* The two files of tool_split: halves of what it read, the first in order.
SplitOf(fs, sp) ==
  /\ fs \in [data : Seq(Seq(Character)), f : Seq(Seq(Character)), s : Seq(Seq(Character))]
  /\ \E a, b \in Seq(Record) :
       /\ fs.f = Written(a) /\ fs.s = Written(b)
       /\ Events!Ordered(a) /\ Len(b) - Len(a) \in {0, 1}
       /\ ToBag(a) (+) ToBag(b) \sqsubseteq ToBag(sp)

Orderly(s) == s \in Seq(Record) /\ Events!Ordered(s)

NoneState == lhs = <<>> /\ rhs = <<>> /\ n = 0 /\ gap = NoGap
InsertState == Orderly(first) /\ Orderly(lhs) /\ rhs = <<>> /\ arg \in Nat /\ n \in Nat
PartState ==
  /\ Orderly(first) /\ lhs = first /\ second \in Seq(Record) /\ Orderly(rhs)
  /\ Len(second) - Len(first) \in {0, 1}
  /\ ToBag(first) (+) ToBag(second) \sqsubseteq ToBag(split)
  /\ n \in 0..(Parts + 1)
  /\ n > 0 => rhs = Sorted(SubSeq(second, 1, (Len(second) * (n - 1)) \div Parts))
WindowState == Orderly(first) /\ Orderly(second) /\ Orderly(lhs) /\ Orderly(rhs) /\ n \in Nat
JumpState ==
  /\ arg \in Nat \ {0}
  /\ gap = [block |-> gap.block, base |-> gap.base, intoLhs |-> gap.intoLhs]
  /\ gap.block \in 0..arg /\ gap.base \in Nat
  /\ IF gap.intoLhs THEN GapLists(lhs, rhs, gap.base, gap.block, arg)
                    ELSE GapLists(rhs, lhs, gap.base, gap.block, arg)
MinMaxState ==
  /\ lhs = <<>> /\ rhs = <<>>
  /\ first \in Seq(Record) /\ n \in 1..(Len(first) + 1) /\ FoundAmong(found, first, n)

\* What holds between two steps of the programs.
ToolsInv ==
  /\ SplitOf(files, split)
  /\ program \in {"none", "measure_insert", "measure_part_join", "measure_window",
                  "measure_jump", "min_max"}
  /\ program = "none" => NoneState
  /\ program = "measure_insert" => InsertState
  /\ program = "measure_part_join" => PartState
  /\ program = "measure_window" => WindowState
  /\ program = "measure_jump" => JumpState
  /\ program = "min_max" => MinMaxState

\* Half of a length.
LEMMA HalfNat ==
  ASSUME NEW S, NEW s \in Seq(S)
  PROVE  Len(s) \div 2 \in Nat
<1>1. Len(s) \in Nat
  OBVIOUS
<1>. QED
  BY <1>1

\* An empty list is in order.
LEMMA EmptyOrderly == Orderly(<<>>)
<1>1. <<>> \in Seq(Record) /\ DOMAIN <<>> = {}
  OBVIOUS
<1>. QED
  BY <1>1 DEF Orderly, Events!Ordered

\* The beginning of an ordered list is.
LEMMA PrefixOrderly ==
  ASSUME NEW s, Orderly(s), NEW k \in Nat, k <= Len(s)
  PROVE  Orderly(SubSeq(s, 1, k))
<1>1. s \in Seq(Record) /\ Events!Ordered(s)
  BY DEF Orderly
<1>2. PICK t : t = SubSeq(s, 1, k)
  OBVIOUS
<1>3. /\ t \in Seq(Record) /\ DOMAIN t = 1..k /\ \A i \in 1..k : t[i] = s[i]
      /\ \A i \in 1..k : i \in DOMAIN s
  BY <1>1, <1>2
<1>4. Events!Ordered(t)
  BY <1>1, <1>3 DEF Events!Ordered
<1>. QED
  BY <1>2, <1>3, <1>4 DEF Orderly

\* What std::sort leaves.
LEMMA SortedOrderly ==
  ASSUME NEW s \in Seq(Record)
  PROVE  /\ Orderly(Sorted(s)) /\ Len(Sorted(s)) = Len(s)
         /\ \A x : Count(Sorted(s), x) = Count(s, x)
<1>1. Sorted(s) \in Shuffles(s) /\ Events!Ordered(Sorted(s))
  BY SortedSorts
<1>2. Sorted(s) \in Seq(Record) /\ Len(Sorted(s)) = Len(s) /\ \A x : Count(Sorted(s), x) = Count(s, x)
  BY <1>1, ShuffleKeeps
<1>. QED
  BY <1>1, <1>2 DEF Orderly

\* Nothing is written for no events, and nothing has the empty bag.
LEMMA NothingWritten == Written(<<>>) = <<>> /\ <<>> \in Seq(Record)
<1>1. <<>> \in Seq(Record) /\ Len(<<>>) = 0
  OBVIOUS
<1>2. Written(<<>>) \in Seq(Seq(Character)) /\ Len(Written(<<>>)) = 2 * Len(<<>>)
  BY <1>1, WrittenPairs
<1>3. \A w \in Seq(Seq(Character)) : Len(w) = 0 => w = <<>>
  OBVIOUS
<1>. QED
  BY <1>1, <1>2, <1>3

\* Without files of tool_split.
LEMMA NothingSplit ==
  ASSUME NEW fs, fs \in [data : Seq(Seq(Character)), f : {<<>>}, s : {<<>>}]
  PROVE  SplitOf(fs, <<>>)
<1>1. fs \in [data : Seq(Seq(Character)), f : Seq(Seq(Character)), s : Seq(Seq(Character))]
  <2>1. <<>> \in Seq(Seq(Character))
    OBVIOUS
  <2>. QED
    BY <2>1
<1>2. fs.f = Written(<<>>) /\ fs.s = Written(<<>>) /\ <<>> \in Seq(Record)
  BY NothingWritten
<1>3. Events!Ordered(<<>>)
  BY EmptyOrderly DEF Orderly
<1>4. ToBag(<<>>) (+) ToBag(<<>>) \sqsubseteq ToBag(<<>>)
  <2>1. DOMAIN ToBag(<<>>) = {}
    <3>1. DOMAIN ToBag(<<>>) = Range(<<>>)
      BY BagOf
    <3>2. DOMAIN <<>> = {}
      OBVIOUS
    <3>3. Range(<<>>) = {}
      BY <3>2 DEF Range
    <3>. QED
      BY <3>1, <3>3
  <2>2. DOMAIN (ToBag(<<>>) (+) ToBag(<<>>)) = {}
    BY <2>1 DEF (+)
  <2>. QED
    BY <2>2 DEF \sqsubseteq
<1>5. Len(<<>>) - Len(<<>>) \in {0, 1}
  OBVIOUS
<1>. QED
  BY <1>1, <1>2, <1>3, <1>4, <1>5 DEF SplitOf

\* The halves of shuffled events.
LEMMA HalvesSplit ==
  ASSUME NEW fs, NEW sp, SplitOf(fs, sp), ~Read_events(fs.data).failed, NEW maxSize \in Nat,
         NEW shuffled \in Shuffles(Read_events(fs.data).events),
         NEW halves, halves = Halves(shuffled, Min({Len(shuffled), maxSize})),
         NEW new, new = [fs EXCEPT !.f = Written(halves.f), !.s = Written(halves.s)]
  PROVE  SplitOf(new, Read_events(fs.data).events)
<1>1. PICK data : data = Read_events(fs.data).events
  OBVIOUS
<1>2. fs \in [data : Seq(Seq(Character)), f : Seq(Seq(Character)), s : Seq(Seq(Character))]
  BY DEF SplitOf
<1>3. data \in Seq(Record)
  <2>1. fs.data \in Seq(Seq(Character))
    BY <1>2
  <2>2. Len(fs.data) \div 2 \in Nat
    BY <2>1, HalfNat
  <2>. QED
    BY <1>1, <2>1, <2>2, ReadsFile
<1>4. shuffled \in Seq(Record) /\ Len(shuffled) = Len(data) /\ \A x : Count(shuffled, x) = Count(data, x)
  BY <1>1, <1>3, ShuffleKeeps
<1>5. PICK size \in Nat : size = Min({Len(shuffled), maxSize}) /\ size <= Len(shuffled)
  <2>1. PICK l \in Nat : l = Len(shuffled)
    BY <1>4
  <2>2. \E z \in {l, maxSize} : \A y \in {l, maxSize} : z <= y
    BY <2>1
  <2>3. Min({l, maxSize}) \in {l, maxSize} /\ Min({l, maxSize}) <= l
    BY <2>2 DEF Min
  <2>. QED
    BY <2>1, <2>3
<1>6. PICK h \in Nat : h = size \div 2 /\ h <= size /\ (size - h) - h \in {0, 1}
  BY <1>5
<1>7. PICK a, b : a = SubSeq(shuffled, 1, h) /\ b = SubSeq(shuffled, h + 1, size)
  OBVIOUS
<1>8. /\ a \in Seq(Record) /\ b \in Seq(Record) /\ Len(a) = h /\ Len(b) = size - h
      /\ \A x : Count(a, x) + Count(b, x) <= Count(shuffled, x)
  BY <1>4, <1>5, <1>6, <1>7, PartsCount
<1>9. PICK c : c = Sorted(a)
  OBVIOUS
<1>10. Orderly(c) /\ Len(c) = h /\ \A x : Count(c, x) = Count(a, x)
  BY <1>8, <1>9, SortedOrderly
<1>11. halves.f = c /\ halves.s = b
  BY <1>5, <1>6, <1>7, <1>9 DEF Halves
<1>12. /\ new \in [data : Seq(Seq(Character)), f : Seq(Seq(Character)), s : Seq(Seq(Character))]
       /\ new.f = Written(c) /\ new.s = Written(b) /\ new.data = fs.data
  <2>1. Written(c) \in Seq(Seq(Character)) /\ Written(b) \in Seq(Seq(Character))
    BY <1>8, <1>10, WrittenPairs DEF Orderly
  <2>. QED
    BY <1>2, <1>11, <2>1
<1>13. ToBag(c) (+) ToBag(b) \sqsubseteq ToBag(data)
  <2>1. \A x : Count(c, x) + Count(b, x) <= Count(data, x)
    BY <1>4, <1>8, <1>10
  <2>. QED
    BY <1>3, <1>8, <1>10, <2>1, BagWithin DEF Orderly
<1>14. Len(b) - Len(c) \in {0, 1}
  BY <1>6, <1>8, <1>10
<1>. QED
  BY <1>1, <1>8, <1>10, <1>12, <1>13, <1>14 DEF SplitOf, Orderly

\* What is read from the files.
LEMMA SplitRead ==
  ASSUME NEW fs, NEW sp, SplitOf(fs, sp)
  PROVE  /\ ~Read_events(fs.data).failed => Read_events(fs.data).events \in Seq(Record)
         /\ Orderly(Read_events(fs.f).events) /\ Read_events(fs.s).events \in Seq(Record)
         /\ Len(Read_events(fs.s).events) - Len(Read_events(fs.f).events) \in {0, 1}
         /\ ToBag(Read_events(fs.f).events) (+) ToBag(Read_events(fs.s).events)
              \sqsubseteq ToBag(sp)
<1>1. fs.data \in Seq(Seq(Character))
  BY DEF SplitOf
<1>2. ~Read_events(fs.data).failed => Read_events(fs.data).events \in Seq(Record)
  <2>1. Len(fs.data) \div 2 \in Nat
    BY <1>1, HalfNat
  <2>. QED
    BY <1>1, <2>1, ReadsFile
<1>3. PICK a \in Seq(Record), b \in Seq(Record) :
        /\ fs.f = Written(a) /\ fs.s = Written(b)
        /\ Events!Ordered(a) /\ Len(b) - Len(a) \in {0, 1}
        /\ ToBag(a) (+) ToBag(b) \sqsubseteq ToBag(sp)
  BY DEF SplitOf
<1>4. Read_events(Written(a)).events = a /\ Read_events(Written(b)).events = b
  BY ReadsWritten
<1>. QED
  BY <1>2, <1>3, <1>4 DEF Orderly

\* A part of so many.
LEMMA PartSize ==
  ASSUME NEW l \in Nat, NEW p \in Nat, p > 0, NEW q \in 0..p
  PROVE  (l * q) \div p \in 0..l /\ (l * p) \div p = l
<1>1. l * q \in Nat /\ l * p \in Nat
  OBVIOUS
<1>2. l * q <= l * p
  <2>1. l * (p - q) \in Nat
    OBVIOUS
  <2>2. l * p = l * q + l * (p - q)
    OBVIOUS
  <2>. QED
    BY <1>1, <2>1, <2>2
<1>3. PICK d \in Nat : d = (l * q) \div p
  BY <1>1
<1>4. p * d <= l * q
  BY <1>1, <1>3
<1>5. ~(d >= l + 1)
  <2>1. SUFFICES ASSUME d >= l + 1 PROVE FALSE
    OBVIOUS
  <2>2. p * (d - (l + 1)) \in Nat
    BY <1>3, <2>1
  <2>3. p * d = p * (d - (l + 1)) + l * p + p
    BY <1>3
  <2>. QED
    BY <1>1, <1>2, <1>4, <2>2, <2>3
<1>6. (l * p) \div p = l
  OBVIOUS
<1>. QED
  BY <1>3, <1>5, <1>6

\* The states of the programs that do not run are not looked at.
LEMMA OneRuns ==
  ASSUME SplitOf(files, split),
         \/ program = "none" /\ NoneState
         \/ program = "measure_insert" /\ InsertState
         \/ program = "measure_part_join" /\ PartState
         \/ program = "measure_window" /\ WindowState
         \/ program = "measure_jump" /\ JumpState
         \/ program = "min_max" /\ MinMaxState
  PROVE  ToolsInv
BY DEF ToolsInv

\* At the start.
LEMMA ToolsStart ==
  ASSUME NoProgram, NoSplit(Seq(Seq(Character)))
  PROVE  ToolsInv
<1>1. SplitOf(files, split)
  BY NothingSplit DEF NoSplit
<1>2. program = "none" /\ NoneState
  BY DEF NoProgram, NoneState
<1>. QED
  BY <1>1, <1>2, OneRuns

\* When a program ends.
LEMMA ExitKeeps ==
  ASSUME ToolsInv, Exit
  PROVE  ToolsInv'
<1>1. SplitOf(files, split)'
  BY DEF ToolsInv, Exit
<1>2. (program = "none" /\ NoneState)'
  BY DEF Exit, NoneState
<1>. QED
  BY <1>1, <1>2 DEF ToolsInv

\* Another data file: the split stays what it was.
LEMMA ReplaceKeeps ==
  ASSUME ToolsInv, NEW data \in Replacements, Replace_data(data)
  PROVE  ToolsInv'
<1>1. SplitOf(files, split) /\ program = "none" /\ NoneState
  BY DEF ToolsInv, Replace_data
<1>2. (program = "none" /\ NoneState)'
  BY <1>1 DEF Replace_data, NoneState
<1>3. files' = [files EXCEPT !.data = data] /\ split' = split /\ data \in Seq(Seq(Character))
  BY ToolsAssumption DEF Replace_data
<1>4. files \in [data : Seq(Seq(Character)), f : Seq(Seq(Character)), s : Seq(Seq(Character))]
  BY <1>1 DEF SplitOf
<1>5. files' \in [data : Seq(Seq(Character)), f : Seq(Seq(Character)), s : Seq(Seq(Character))]
      /\ files'.f = files.f /\ files'.s = files.s
  BY <1>3, <1>4
<1>6. SplitOf(files', split')
  BY <1>1, <1>3, <1>5 DEF SplitOf
<1>. QED
  BY <1>2, <1>6 DEF ToolsInv

\* tool_split: if it fails the files have nothing, and else the halves of what it read.
LEMMA SplitKeeps ==
  ASSUME ToolsInv, NEW maxSize \in MaxSizes, Tool_split(maxSize)
  PROVE  ToolsInv'
<1>1. SplitOf(files, split) /\ program = "none" /\ NoneState
  BY DEF ToolsInv, Tool_split
<1>2. (program = "none" /\ NoneState)'
  BY <1>1 DEF Tool_split, NoneState
<1>3. files \in [data : Seq(Seq(Character)), f : Seq(Seq(Character)), s : Seq(Seq(Character))]
  BY <1>1 DEF SplitOf
<1>4. SplitOf(files', split')
  <2>1. CASE maxSize = Invalid \/ Read_events(files.data).failed
    <3>1. files' = [files EXCEPT !.f = <<>>, !.s = <<>>] /\ split' = <<>>
      BY <2>1 DEF Tool_split, Read, Emptied
    <3>2. files' \in [data : Seq(Seq(Character)), f : {<<>>}, s : {<<>>}]
      BY <1>3, <3>1
    <3>. QED
      BY <3>1, <3>2, NothingSplit
  <2>2. CASE ~(maxSize = Invalid \/ Read_events(files.data).failed)
    <3>1. PICK shuffled \in Shuffles(Read_events(files.data).events) :
            LET halves == Halves(shuffled, Min({Len(shuffled), maxSize}))
            IN files' = [files EXCEPT !.f = Written(halves.f), !.s = Written(halves.s)]
      BY <2>2 DEF Tool_split, Read
    <3>2. PICK halves : halves = Halves(shuffled, Min({Len(shuffled), maxSize}))
      OBVIOUS
    <3>3. files' = [files EXCEPT !.f = Written(halves.f), !.s = Written(halves.s)]
      BY <3>1, <3>2
    <3>4. maxSize \in Nat
      BY <2>2, ToolsAssumption
    <3>5. split' = Read_events(files.data).events
      BY <2>2 DEF Tool_split, Read
    <3>. QED
      BY <1>1, <2>2, <3>2, <3>3, <3>4, <3>5, HalvesSplit
  <2>. QED
    BY <2>1, <2>2
<1>. QED
  BY <1>2, <1>4 DEF ToolsInv

\* measure_insert.
LEMMA InsertStarts ==
  ASSUME ToolsInv, NEW increment \in Increments, Start_measure_insert(increment)
  PROVE  ToolsInv'
<1>1. SplitOf(files, split) /\ NoneState
  BY DEF ToolsInv, Start_measure_insert
<1>2. SplitOf(files, split)' /\ (program = "measure_insert")'
  BY <1>1 DEF Start_measure_insert
<1>3. InsertState'
  <2>1. Read_events(files.data).events \in Seq(Record)
    BY <1>1, SplitRead DEF Start_measure_insert, Read
  <2>2. Orderly(first')
    BY <2>1, SortedOrderly DEF Start_measure_insert, Read
  <2>3. lhs' = <<>> /\ rhs' = <<>> /\ arg' = increment /\ n' = increment
    BY <1>1 DEF Start_measure_insert, NoneState
  <2>. QED
    BY <2>2, <2>3, EmptyOrderly, ToolsAssumption DEF InsertState
<1>. QED
  BY <1>2, <1>3 DEF ToolsInv

\* measure_insert: a longer prefix of the first list is as orderly as the list.
LEMMA InsertKeeps ==
  ASSUME ToolsInv, Measure_insert
  PROVE  ToolsInv'
<1>1. SplitOf(files, split) /\ InsertState
  BY DEF ToolsInv, Measure_insert
<1>2. SplitOf(files, split)' /\ (program = "measure_insert")'
  BY <1>1 DEF Measure_insert
<1>3. InsertState'
  <2>1. Orderly(first) /\ n \in Nat /\ arg \in Nat /\ rhs = <<>> /\ n < Len(first)
    BY <1>1 DEF InsertState, Measure_insert
  <2>2. n <= Len(first)
    BY <2>1 DEF Orderly
  <2>3. Orderly(SubSeq(first, 1, n))
    BY <2>1, <2>2, PrefixOrderly
  <2>4. lhs' = SubSeq(first, 1, n) /\ n' = n + arg /\ arg' = arg /\ first' = first /\ rhs' = rhs
    BY DEF Measure_insert
  <2>5. n' \in Nat
    BY <2>1, <2>4
  <2>. QED
    BY <2>1, <2>3, <2>4, <2>5 DEF InsertState
<1>. QED
  BY <1>2, <1>3 DEF ToolsInv

\* Its last call has the whole list.
LEMMA InsertLast ==
  ASSUME ToolsInv, Measure_insert_last
  PROVE  ToolsInv'
<1>1. CASE Exit
  BY <1>1, ExitKeeps
<1>2. CASE lhs' = first /\ UNCHANGED <<files, split, program, arg, first, second, rhs, n, gap, found>>
  <2>1. SplitOf(files, split) /\ InsertState /\ program = "measure_insert"
    BY DEF ToolsInv, Measure_insert_last
  <2>2. SplitOf(files, split)' /\ (program = "measure_insert")'
    BY <1>2, <2>1
  <2>3. InsertState'
    BY <1>2, <2>1 DEF InsertState
  <2>. QED
    BY <2>2, <2>3 DEF ToolsInv
<1>. QED
  BY <1>1, <1>2 DEF Measure_insert_last

\* measure_part_join.
LEMMA PartStarts ==
  ASSUME ToolsInv, Start_measure_part_join
  PROVE  ToolsInv'
<1>1. SplitOf(files, split) /\ NoneState
  BY DEF ToolsInv, Start_measure_part_join
<1>2. SplitOf(files, split)' /\ (program = "measure_part_join")'
  BY <1>1 DEF Start_measure_part_join
<1>3. PartState'
  <2>1. PICK a, b : a = Read_events(files.f).events /\ b = Read_events(files.s).events
    OBVIOUS
  <2>2. /\ Orderly(a) /\ b \in Seq(Record) /\ Len(b) - Len(a) \in {0, 1}
        /\ ToBag(a) (+) ToBag(b) \sqsubseteq ToBag(split)
    BY <1>1, <2>1, SplitRead
  <2>3. first' = a /\ second' = b /\ lhs' = a /\ rhs' = <<>> /\ n' = 0 /\ split' = split
    BY <1>1, <2>1 DEF Start_measure_part_join, NoneState, Read
  <2>4. n' \in 0..(Parts + 1)
    BY <2>3, ToolsAssumption
  <2>5. ~(n' > 0)
    BY <2>3
  <2>. QED
    BY <2>2, <2>3, <2>4, <2>5, EmptyOrderly DEF PartState
<1>. QED
  BY <1>2, <1>3 DEF ToolsInv

\* measure_part_join: the part it joins with next is in order, whatever part of the second list it sorts.
LEMMA PartKeeps ==
  ASSUME ToolsInv, Measure_part_join
  PROVE  ToolsInv'
<1>1. SplitOf(files, split) /\ PartState
  BY DEF ToolsInv, Measure_part_join
<1>2. SplitOf(files, split)' /\ (program = "measure_part_join")'
  BY <1>1 DEF Measure_part_join
<1>3. PartState'
  <2>1. n \in 0..Parts /\ Parts \in Nat /\ Parts > 0 /\ second \in Seq(Record)
    BY <1>1, ToolsAssumption DEF PartState, Measure_part_join
  <2>2. PICK size : size = (Len(second) * n) \div Parts
    OBVIOUS
  <2>3. size \in 0..Len(second)
    <3>1. Len(second) \in Nat
      BY <2>1
    <3>. QED
      BY <2>1, <2>2, <3>1, PartSize
  <2>4. SubSeq(second, 1, size) \in Seq(Record)
    BY <2>1, <2>3
  <2>5. Orderly(Sorted(SubSeq(second, 1, size)))
    BY <2>4, SortedOrderly
  <2>6. /\ rhs' = Sorted(SubSeq(second, 1, size)) /\ n' = n + 1
        /\ split' = split /\ first' = first /\ second' = second /\ lhs' = lhs
    BY <2>2 DEF Measure_part_join
  <2>7. n' \in 0..(Parts + 1) /\ n' - 1 = n
    BY <2>1, <2>6
  <2>8. rhs' = Sorted(SubSeq(second', 1, (Len(second') * (n' - 1)) \div Parts))
    BY <2>2, <2>6, <2>7
  <2>. QED
    BY <1>1, <2>5, <2>6, <2>7, <2>8 DEF PartState
<1>. QED
  BY <1>2, <1>3 DEF ToolsInv

\* measure_window.
LEMMA WindowStarts ==
  ASSUME ToolsInv, NEW periods \in {"data", "f"}, Start_measure_window(periods)
  PROVE  ToolsInv'
<1>1. SplitOf(files, split) /\ NoneState
  BY DEF ToolsInv, Start_measure_window
<1>2. SplitOf(files, split)' /\ (program = "measure_window")'
  BY <1>1 DEF Start_measure_window
<1>3. WindowState'
  <2>1. PICK a, b : a = Read("data").events /\ b = Read(periods).events
    OBVIOUS
  <2>2. Orderly(a)
    <3>1. a \in Seq(Record)
      BY <1>1, <2>1, SplitRead DEF Start_measure_window, Read
    <3>. QED
      BY <2>1, <3>1 DEF Start_measure_window, Orderly
  <2>3. Orderly(b)
    <3>1. CASE periods = "data"
      BY <2>1, <2>2, <3>1
    <3>2. CASE periods = "f"
      BY <1>1, <2>1, <3>2, SplitRead DEF Read
    <3>. QED
      BY <3>1, <3>2
  <2>4. first' = a /\ second' = b /\ lhs' = a /\ rhs' = <<>> /\ n' = 0
    BY <1>1, <2>1 DEF Start_measure_window, NoneState
  <2>. QED
    BY <2>2, <2>3, <2>4, EmptyOrderly DEF WindowState
<1>. QED
  BY <1>2, <1>3 DEF ToolsInv

\* measure_window: the window it cuts next is as orderly as the list it cuts it from.
LEMMA WindowKeeps ==
  ASSUME ToolsInv, Measure_window
  PROVE  ToolsInv'
<1>1. SplitOf(files, split) /\ WindowState
  BY DEF ToolsInv, Measure_window
<1>2. SplitOf(files, split)' /\ (program = "measure_window")'
  BY <1>1 DEF Measure_window
<1>3. WindowState'
  <2>1. Orderly(first) /\ Orderly(second) /\ Orderly(lhs) /\ n \in Nat /\ n <= Len(second)
    BY <1>1 DEF WindowState, Measure_window
  <2>2. Orderly(SubSeq(second, 1, n))
    BY <2>1, PrefixOrderly
  <2>3. WindowStep \in Nat
    <3>1. Len(second) \in Nat /\ Parts \in Nat /\ Parts > 0
      BY <2>1, ToolsAssumption DEF Orderly
    <3>. QED
      BY <3>1 DEF WindowStep
  <2>4. /\ rhs' = SubSeq(second, 1, n) /\ n' = n + WindowStep
        /\ first' = first /\ second' = second /\ lhs' = lhs
    BY DEF Measure_window
  <2>5. n' \in Nat
    BY <2>1, <2>3, <2>4
  <2>. QED
    BY <2>1, <2>2, <2>4, <2>5 DEF WindowState
<1>. QED
  BY <1>2, <1>3 DEF ToolsInv

\* measure_jump.
LEMMA JumpStarts ==
  ASSUME ToolsInv, NEW gapSize \in GapSizes, Start_measure_jump(gapSize)
  PROVE  ToolsInv'
<1>1. SplitOf(files, split) /\ NoneState
  BY DEF ToolsInv, Start_measure_jump
<1>2. SplitOf(files, split)' /\ (program = "measure_jump")'
  BY <1>1 DEF Start_measure_jump
<1>3. JumpState'
  <2>1. lhs' = <<>> /\ rhs' = <<>> /\ gap' = NoGap /\ arg' = gapSize
    BY <1>1 DEF Start_measure_jump, NoneState
  <2>2. gapSize \in Nat \ {0}
    BY ToolsAssumption
  <2>3. GapLists(<<>>, <<>>, 0, 0, gapSize)
    <3>1. <<>> \in Seq(GapEvent) /\ DOMAIN <<>> = {}
      OBVIOUS
    <3>. QED
      BY <3>1 DEF GapLists, Rising
  <2>4. /\ gap'.block = 0 /\ gap'.base = 0 /\ gap'.intoLhs = TRUE
        /\ gap' = [block |-> gap'.block, base |-> gap'.base, intoLhs |-> gap'.intoLhs]
    BY <2>1 DEF NoGap
  <2>5. 0 \in 0..gapSize
    BY <2>2
  <2>. QED
    BY <2>1, <2>2, <2>3, <2>4, <2>5 DEF JumpState
<1>. QED
  BY <1>2, <1>3 DEF ToolsInv

\* measure_jump: the event that a round appends goes into one list, behind all of that list.
LEMMA GenerateKeeps ==
  ASSUME ToolsInv, Generate
  PROVE  ToolsInv'
<1>1. SplitOf(files, split) /\ JumpState
  BY DEF ToolsInv, Generate
<1>2. SplitOf(files, split)' /\ (program = "measure_jump")'
  BY <1>1 DEF Generate
<1>3. JumpState'
  <2>1. PICK g, e : /\ g = IF gap.block = arg THEN NextBlock ELSE gap
                    /\ e = [start |-> g.base + g.block, end |-> g.base + arg]
    OBVIOUS
  <2>2. /\ lhs' = IF g.intoLhs THEN Append(lhs, e) ELSE lhs
        /\ rhs' = IF g.intoLhs THEN rhs ELSE Append(rhs, e)
        /\ gap' = [g EXCEPT !.block = @ + 1] /\ arg' = arg
    BY <2>1 DEF Generate
  <2>3. /\ arg \in Nat \ {0}
        /\ gap = [block |-> gap.block, base |-> gap.base, intoLhs |-> gap.intoLhs]
        /\ gap.block \in 0..arg /\ gap.base \in Nat
        /\ IF gap.intoLhs THEN GapLists(lhs, rhs, gap.base, gap.block, arg)
                          ELSE GapLists(rhs, lhs, gap.base, gap.block, arg)
    BY <1>1 DEF JumpState
  <2>4. /\ g = [block |-> g.block, base |-> g.base, intoLhs |-> g.intoLhs]
        /\ g.block \in Nat /\ g.block < arg /\ g.base \in Nat
        /\ IF g.intoLhs THEN GapLists(lhs, rhs, g.base, g.block, arg)
                        ELSE GapLists(rhs, lhs, g.base, g.block, arg)
    <3>1. CASE gap.block = arg
      <4>1. /\ g = [block |-> 0, base |-> gap.base + arg + 1, intoLhs |-> ~gap.intoLhs]
            /\ g.block = 0 /\ g.base = gap.base + arg + 1 /\ g.intoLhs = ~gap.intoLhs
        BY <2>1, <3>1 DEF NextBlock
      <4>2. CASE gap.intoLhs
        <5>1. GapLists(rhs, lhs, gap.base + arg + 1, 0, arg)
          BY <2>3, <3>1, <4>2, GapTurns
        <5>2. ~g.intoLhs /\ GapLists(rhs, lhs, g.base, g.block, arg)
          BY <4>1, <4>2, <5>1
        <5>3. g.block \in Nat /\ g.block < arg /\ g.base \in Nat
          BY <2>3, <4>1
        <5>4. g = [block |-> g.block, base |-> g.base, intoLhs |-> g.intoLhs]
          BY <4>1
        <5>. QED
          BY <5>2, <5>3, <5>4
      <4>3. CASE ~gap.intoLhs
        <5>1. GapLists(lhs, rhs, gap.base + arg + 1, 0, arg)
          BY <2>3, <3>1, <4>3, GapTurns
        <5>2. g.intoLhs /\ GapLists(lhs, rhs, g.base, g.block, arg)
          BY <4>1, <4>3, <5>1
        <5>3. g.block \in Nat /\ g.block < arg /\ g.base \in Nat
          BY <2>3, <4>1
        <5>4. g = [block |-> g.block, base |-> g.base, intoLhs |-> g.intoLhs]
          BY <4>1
        <5>. QED
          BY <5>2, <5>3, <5>4
      <4>. QED
        BY <4>2, <4>3
    <3>2. CASE gap.block # arg
      <4>1. g = gap
        BY <2>1, <3>2
      <4>. QED
        BY <2>3, <3>2, <4>1
    <3>. QED
      BY <3>1, <3>2
  <2>5. /\ gap'.block = g.block + 1 /\ gap'.base = g.base /\ gap'.intoLhs = g.intoLhs
        /\ gap' = [block |-> gap'.block, base |-> gap'.base, intoLhs |-> gap'.intoLhs]
    BY <2>2, <2>4
  <2>6. IF g.intoLhs THEN GapLists(lhs', rhs', g.base, g.block + 1, arg)
                     ELSE GapLists(rhs', lhs', g.base, g.block + 1, arg)
    <3>1. CASE g.intoLhs
      <4>1. GapLists(lhs, rhs, g.base, g.block, arg)
        BY <2>4, <3>1
      <4>2. GapLists(Append(lhs, e), rhs, g.base, g.block + 1, arg)
        BY <2>1, <2>3, <2>4, <4>1, GapGrows
      <4>. QED
        BY <2>2, <3>1, <4>2
    <3>2. CASE ~g.intoLhs
      <4>1. GapLists(rhs, lhs, g.base, g.block, arg)
        BY <2>4, <3>2
      <4>2. GapLists(Append(rhs, e), lhs, g.base, g.block + 1, arg)
        BY <2>1, <2>3, <2>4, <4>1, GapGrows
      <4>. QED
        BY <2>2, <3>2, <4>2
    <3>. QED
      BY <3>1, <3>2
  <2>7. g.block + 1 \in 0..arg
    BY <2>3, <2>4
  <2>. QED
    BY <2>2, <2>3, <2>4, <2>5, <2>6, <2>7 DEF JumpState
<1>. QED
  BY <1>2, <1>3 DEF ToolsInv

\* min_max.
LEMMA MinMaxStarts ==
  ASSUME ToolsInv, Start_min_max
  PROVE  ToolsInv'
<1>1. SplitOf(files, split) /\ NoneState
  BY DEF ToolsInv, Start_min_max
<1>2. SplitOf(files, split)' /\ (program = "min_max")'
  BY <1>1 DEF Start_min_max
<1>3. MinMaxState'
  <2>1. first' \in Seq(Record)
    BY <1>1, SplitRead DEF Start_min_max, Read
  <2>2. lhs' = <<>> /\ rhs' = <<>> /\ n' = 1
    BY <1>1 DEF Start_min_max, NoneState
  <2>3. PICK e1, e2 : found' = NoneFound(e1, e2)
    BY DEF Start_min_max
  <2>4. FoundAmong(found', first', 1)
    <3>1. /\ found'.min = UIntMax /\ found'.max = 0
          /\ found' = [min |-> found'.min, max |-> found'.max,
                       minEvent |-> found'.minEvent, maxEvent |-> found'.maxEvent]
      BY <2>3 DEF NoneFound
    <3>2. UIntMax \in UInt /\ 0 \in UInt
      BY DataSetAssumption DEF UInt
    <3>3. 1..(1 - 1) = {}
      OBVIOUS
    <3>. QED
      BY <3>1, <3>2, <3>3 DEF FoundAmong
  <2>5. n' \in 1..(Len(first') + 1)
    <3>1. Len(first') \in Nat
      BY <2>1
    <3>. QED
      BY <2>2, <3>1
  <2>. QED
    BY <2>1, <2>2, <2>4, <2>5 DEF MinMaxState
<1>. QED
  BY <1>2, <1>3 DEF ToolsInv

\* min_max: the extremes so far are among the events considered so far.
LEMMA ConsiderKeeps ==
  ASSUME ToolsInv, Consider
  PROVE  ToolsInv'
<1>1. SplitOf(files, split) /\ MinMaxState
  BY DEF ToolsInv, Consider
<1>2. SplitOf(files, split)' /\ (program = "min_max")'
  BY <1>1 DEF Consider
<1>3. MinMaxState'
  <2>1. /\ first \in Seq(Record) /\ n \in 1..Len(first) /\ FoundAmong(found, first, n)
        /\ lhs = <<>> /\ rhs = <<>>
    <3>1. first \in Seq(Record) /\ n \in 1..(Len(first) + 1) /\ n <= Len(first)
      BY <1>1 DEF MinMaxState, Consider
    <3>2. Len(first) \in Nat
      BY <3>1
    <3>3. n \in 1..Len(first)
      BY <3>1, <3>2
    <3>. QED
      BY <1>1, <3>1, <3>3 DEF MinMaxState
  <2>2. FoundAmong(Considered(found, first[n]), first, n + 1)
    BY <2>1, FoundMore
  <2>3. /\ found' = Considered(found, first[n]) /\ n' = n + 1
        /\ first' = first /\ lhs' = lhs /\ rhs' = rhs
    BY DEF Consider
  <2>4. n' \in 1..(Len(first') + 1)
    BY <2>1, <2>3
  <2>. QED
    BY <2>1, <2>2, <2>3, <2>4 DEF MinMaxState
<1>. QED
  BY <1>2, <1>3 DEF ToolsInv

\* Every step of the programs.
LEMMA ToolsStep ==
  ASSUME ToolsInv, Next
  PROVE  ToolsInv'
<1>1. CASE Start
  BY <1>1, ReplaceKeeps, SplitKeeps, InsertStarts, PartStarts, WindowStarts, JumpStarts, MinMaxStarts DEF Start
<1>2. CASE Work
  <2>1. CASE Measure_insert \/ Measure_insert_last \/ Measure_part_join \/ Measure_window
             \/ Generate \/ Consider
    BY <2>1, InsertKeeps, InsertLast, PartKeeps, WindowKeeps, GenerateKeeps, ConsiderKeeps
  <2>2. CASE End_measure_part_join \/ End_measure_window \/ End_measure_jump \/ End_min_max
    BY <2>2, ExitKeeps DEF End_measure_part_join, End_measure_window, End_measure_jump, End_min_max
  <2>. QED
    BY <1>2, <2>1, <2>2 DEF Work
<1>. QED
  BY <1>1, <1>2 DEF Next

\* The texts of the files are numbers or thrown out.
LEMMA ToolsRead ==
  ASSUME ToolsInv
  PROVE  ReadsNumbers
<1>1. files \in [data : Seq(Seq(Character)), f : Seq(Seq(Character)), s : Seq(Seq(Character))]
  BY DEF ToolsInv, SplitOf
<1>2. ASSUME NEW name \in DOMAIN files, NEW text \in ToSet(files[name])
      PROVE  To_unsigned(text) = Value(text)
  <2>1. files[name] \in Seq(Seq(Character))
    BY <1>1
  <2>2. text \in Seq(Character)
    BY <2>1 DEF ToSet
  <2>. QED
    BY <2>2, ReadsText
<1>. QED
  BY <1>2 DEF ReadsNumbers

\* The lists appended to are in order.
LEMMA ToolsAppend ==
  ASSUME ToolsInv
  PROVE  AppendsInOrder
<1>1. Events!Ordered(<<>>)
  BY EmptyOrderly DEF Orderly
<1>2. CASE program = "none"
  BY <1>1, <1>2 DEF ToolsInv, NoneState, AppendsInOrder
<1>3. CASE program = "measure_insert"
  BY <1>1, <1>3 DEF ToolsInv, InsertState, Orderly, AppendsInOrder
<1>4. CASE program = "measure_part_join"
  BY <1>4 DEF ToolsInv, PartState, Orderly, AppendsInOrder
<1>5. CASE program = "measure_window"
  BY <1>5 DEF ToolsInv, WindowState, Orderly, AppendsInOrder
<1>6. CASE program = "measure_jump"
  <2>1. Rising(lhs) /\ Rising(rhs)
    BY <1>6 DEF ToolsInv, JumpState, GapLists
  <2>. QED
    BY <2>1, RisingOrders DEF AppendsInOrder
<1>7. CASE program = "min_max"
  BY <1>1, <1>7 DEF ToolsInv, MinMaxState, AppendsInOrder
<1>. QED
  BY <1>2, <1>3, <1>4, <1>5, <1>6, <1>7 DEF ToolsInv

\* What measure_part_join joins.
LEMMA ToolsPart ==
  ASSUME ToolsInv
  PROVE  JoinsTheSplit
<1>. SUFFICES ASSUME program = "measure_part_join" PROVE JoinsTheSplit
  BY DEF JoinsTheSplit
<1>1. PartState
  BY DEF ToolsInv
<1>2. ASSUME n > Parts PROVE ToBag(rhs) = ToBag(second)
  <2>1. /\ second \in Seq(Record) /\ n \in 0..(Parts + 1) /\ Parts \in Nat /\ Parts > 0
        /\ n > 0 => rhs = Sorted(SubSeq(second, 1, (Len(second) * (n - 1)) \div Parts))
    BY <1>1, ToolsAssumption DEF PartState
  <2>2. n > 0 /\ n - 1 = Parts
    BY <1>2, <2>1
  <2>3. Len(second) \in Nat /\ Parts \in 0..Parts
    BY <2>1
  <2>4. (Len(second) * Parts) \div Parts = Len(second)
    BY <2>1, <2>3, PartSize
  <2>5. rhs = Sorted(SubSeq(second, 1, Len(second)))
    BY <2>1, <2>2, <2>4
  <2>6. SubSeq(second, 1, Len(second)) = second
    BY <2>1
  <2>7. rhs = Sorted(second)
    BY <2>5, <2>6
  <2>8. rhs \in Seq(Record) /\ \A x : Count(rhs, x) = Count(second, x)
    BY <2>1, <2>7, SortedOrderly DEF Orderly
  <2>. QED
    BY <2>1, <2>8, SameBag
<1>. QED
  BY <1>1, <1>2 DEF PartState, JoinsTheSplit

\* What measure_jump joins.
LEMMA ToolsJump ==
  ASSUME ToolsInv
  PROVE  GapListsApart
<1>. SUFFICES ASSUME program = "measure_jump" PROVE GapListsApart
  BY DEF GapListsApart
<1>1. JumpState
  BY DEF ToolsInv
<1>2. /\ lhs \in Seq(GapEvent) /\ rhs \in Seq(GapEvent) /\ Rising(lhs) /\ Rising(rhs)
  BY <1>1 DEF JumpState, GapLists
<1>3. \A i \in DOMAIN lhs, j \in DOMAIN rhs : ~Events!Overlaps(lhs[i], rhs[j])
  <2>1. CASE gap.intoLhs
    BY <1>1, <2>1 DEF JumpState, GapLists
  <2>2. CASE ~gap.intoLhs
    <3>1. \A i \in DOMAIN rhs, j \in DOMAIN lhs : ~Events!Overlaps(rhs[i], lhs[j])
      BY <1>1, <2>2 DEF JumpState, GapLists
    <3>. QED
      BY <3>1 DEF Events!Overlaps
  <2>. QED
    BY <2>1, <2>2
<1>4. \A s \in {lhs, rhs} : \A i, j \in DOMAIN s : i # j => s[i].start # s[j].start
  BY <1>2, RisingDiffers
<1>. QED
  BY <1>3, <1>4 DEF GapListsApart

\* What min_max reports.
LEMMA ToolsExtremes ==
  ASSUME ToolsInv
  PROVE  ReportsExtremesOfSpans
<1>. SUFFICES ASSUME Searched, \E e \in ToSet(first) : Diff(e) > 0,
                     \E e \in ToSet(first) : Diff(e) < UIntMax
              PROVE  Extremes
  BY DEF ReportsExtremesOfSpans
<1>1. MinMaxState /\ n > Len(first)
  BY DEF ToolsInv, Searched
<1>2. PICK m \in Nat : /\ m = Len(first) /\ DOMAIN first = 1..m /\ first \in Seq(Record)
                       /\ \A k \in 1..m : first[k] \in Record
  BY <1>1 DEF MinMaxState
<1>3. n - 1 = m
  BY <1>1, <1>2 DEF MinMaxState
<1>4. /\ found.min \in UInt /\ found.max \in UInt
      /\ \A k \in 1..m : found.min <= Diff(first[k]) /\ Diff(first[k]) <= found.max
      /\ found.min = UIntMax \/ \E k \in 1..m : found.minEvent = first[k] /\ found.min = Diff(first[k])
      /\ found.max = 0 \/ \E k \in 1..m : found.maxEvent = first[k] /\ found.max = Diff(first[k])
  BY <1>1, <1>3 DEF MinMaxState, FoundAmong
<1>5. \A k \in 1..m : Diff(first[k]) \in Int
  BY <1>2, DiffType, DataSetAssumption DEF UInt
<1>6. found.min \in Int /\ found.max \in Int /\ UIntMax \in Int
  BY <1>4, DataSetAssumption DEF UInt
<1>7. ToSet(first) = {first[k] : k \in 1..m}
  BY <1>2 DEF ToSet
<1>8. found.min # UIntMax
  <2>1. PICK k \in 1..m : Diff(first[k]) < UIntMax
    BY <1>7
  <2>. QED
    BY <1>4, <1>5, <1>6, <2>1
<1>9. found.max # 0
  <2>1. PICK k \in 1..m : Diff(first[k]) > 0
    BY <1>7
  <2>. QED
    BY <1>4, <1>5, <1>6, <2>1
<1>10. PICK durations : durations = {Diff(e) : e \in ToSet(first)}
  OBVIOUS
<1>11. durations \in SUBSET Int
  BY <1>5, <1>7, <1>10
<1>12. /\ found.minEvent \in ToSet(first) /\ Diff(found.minEvent) = found.min
       /\ found.min \in durations /\ \A d \in durations : found.min <= d
  BY <1>4, <1>7, <1>8, <1>10
<1>13. /\ found.maxEvent \in ToSet(first) /\ Diff(found.maxEvent) = found.max
       /\ found.max \in durations /\ \A d \in durations : d <= found.max
  BY <1>4, <1>7, <1>9, <1>10
<1>14. Min(durations) = found.min
  <2>1. Min(durations) \in durations /\ \A d \in durations : Min(durations) <= d
    BY <1>12 DEF Min
  <2>2. Min(durations) \in Int /\ found.min \in Int
    BY <1>11, <1>12, <2>1
  <2>3. Min(durations) <= found.min /\ found.min <= Min(durations)
    BY <1>12, <2>1
  <2>. QED
    BY <2>2, <2>3
<1>15. Max(durations) = found.max
  <2>1. Max(durations) \in durations /\ \A d \in durations : Max(durations) >= d
    <3>1. \E x \in durations : \A y \in durations : x >= y
      BY <1>11, <1>13
    <3>. QED
      BY <3>1 DEF Max
  <2>2. Max(durations) \in Int /\ found.max \in Int
    BY <1>11, <1>13, <2>1
  <2>3. Max(durations) >= found.max /\ Max(durations) <= found.max
    BY <1>13, <2>1
  <2>. QED
    BY <2>2, <2>3
<1>. QED
  BY <1>10, <1>12, <1>13, <1>14, <1>15 DEF Extremes

(* The calls of Merge. *)

Halfway(b, e) == (e + b) \div 2
Call(b, e) == [begin |-> b, middle |-> Halfway(b, e), end |-> e]
Pair(size) == (0..size) \X (0..size)
CallsTurn(f, p) ==
  IF p[1] + 1 < p[2]
  THEN f[<<p[1], Halfway(p[1], p[2])>>] \o f[<<Halfway(p[1], p[2]), p[2]>>] \o <<Call(p[1], p[2])>>
  ELSE <<>>

\* The calls for the ranges of at most k elements.
UpToWidth(size, k) == {p \in Pair(size) : p[2] - p[1] <= k}
IsCalls(size, k, f) == f = [p \in UpToWidth(size, k) |-> CallsTurn(f, p)]

\* The middle is inside.
LEMMA HalfwayInside ==
  ASSUME NEW b \in Nat, NEW e \in Nat, b + 1 < e
  PROVE  Halfway(b, e) \in Nat /\ b < Halfway(b, e) /\ Halfway(b, e) < e
BY DEF Halfway

\* They are defined for all ranges.
LEMMA CallsExist ==
  ASSUME NEW size \in Nat, NEW k \in Nat
  PROVE  \E f : IsCalls(size, k, f)
<1>. DEFINE K == {w \in Nat : \E f : IsCalls(size, w, f)}
<1>1. ASSUME NEW w \in Nat, NEW f, NEW p \in UpToWidth(size, w + 1), NEW g,
             \A q \in UpToWidth(size, w) : g[q] = f[q]
      PROVE  CallsTurn(g, p) = CallsTurn(f, p)
  <2>1. PICK b, e, m : b = p[1] /\ e = p[2] /\ m = Halfway(b, e)
    OBVIOUS
  <2>2. b \in 0..size /\ e \in 0..size /\ e - b <= w + 1
    BY <2>1 DEF UpToWidth, Pair
  <2>3. CASE b + 1 < e
    <3>1. m \in Nat /\ b < m /\ m < e
      BY <2>1, <2>2, <2>3, HalfwayInside
    <3>2. m \in 0..size /\ m - b <= w /\ e - m <= w
      BY <2>2, <3>1
    <3>3. <<b, m>> \in UpToWidth(size, w) /\ <<m, e>> \in UpToWidth(size, w)
      BY <2>2, <3>2 DEF UpToWidth, Pair
    <3>. QED
      BY <1>1, <2>1, <3>3 DEF CallsTurn
  <2>4. CASE ~(b + 1 < e)
    BY <2>1, <2>4 DEF CallsTurn
  <2>. QED
    BY <2>3, <2>4
<1>2. 0 \in K
  <2>. DEFINE f == [p \in UpToWidth(size, 0) |-> <<>>]
  <2>1. ASSUME NEW p \in UpToWidth(size, 0) PROVE CallsTurn(f, p) = <<>>
    <3>1. ~(p[1] + 1 < p[2])
      BY DEF UpToWidth, Pair
    <3>. QED
      BY <3>1 DEF CallsTurn
  <2>2. IsCalls(size, 0, f)
    BY <2>1 DEF IsCalls
  <2>. QED
    BY <2>2
<1>3. ASSUME NEW w \in K PROVE w + 1 \in K
  <2>1. PICK f : IsCalls(size, w, f)
    OBVIOUS
  <2>. DEFINE g == [p \in UpToWidth(size, w + 1) |-> CallsTurn(f, p)]
  <2>2. \A p \in UpToWidth(size, w) : p \in UpToWidth(size, w + 1)
    BY DEF UpToWidth, Pair
  <2>3. \A p \in UpToWidth(size, w) : g[p] = f[p]
    <3>1. \A p \in UpToWidth(size, w) : f[p] = CallsTurn(f, p)
      BY <2>1 DEF IsCalls
    <3>. QED
      BY <2>2, <3>1
  <2>4. \A p \in UpToWidth(size, w + 1) : CallsTurn(g, p) = CallsTurn(f, p)
    <3>. HIDE DEF g
    <3>. QED
      BY <1>1, <2>3
  <2>5. g = [p \in UpToWidth(size, w + 1) |-> CallsTurn(g, p)]
    BY <2>4
  <2>6. IsCalls(size, w + 1, g)
    BY <2>5 DEF IsCalls
  <2>. QED
    BY <2>6
<1>4. K = Nat
  <2>1. K \in SUBSET Nat
    OBVIOUS
  <2>. HIDE DEF K
  <2>. QED
    BY <1>2, <1>3, <2>1, NatAll
<1>. QED
  BY <1>4

\* The function of MergeCalls.
CallsBy(size, f) ==
  /\ MergeCalls(size) = f[<<0, size>>]
  /\ \A b, e \in 0..size :
       f[<<b, e>>] = IF b + 1 < e
                     THEN f[<<b, Halfway(b, e)>>] \o f[<<Halfway(b, e), e>>] \o <<Call(b, e)>>
                     ELSE <<>>

\* It does exist.
LEMMA CallsSteps ==
  ASSUME NEW size \in Nat
  PROVE  \E f : CallsBy(size, f)
<1>. DEFINE from == CHOOSE f : f = [p \in (0..size) \X (0..size) |-> CallsTurn(f, p)]
<1>1. PICK g : IsCalls(size, size, g)
  BY CallsExist
<1>2. UpToWidth(size, size) = Pair(size)
  <2>1. \A p \in Pair(size) : p[2] - p[1] <= size
    BY DEF Pair
  <2>. QED
    BY <2>1 DEF UpToWidth
<1>3. g = [p \in (0..size) \X (0..size) |-> CallsTurn(g, p)]
  BY <1>1, <1>2 DEF IsCalls, Pair
<1>4. from = [p \in (0..size) \X (0..size) |-> CallsTurn(from, p)]
  BY <1>3
<1>5. MergeCalls(size) = from[<<0, size>>]
  BY DEF MergeCalls, CallsTurn, Call, Halfway
<1>. HIDE DEF from
<1>6. ASSUME NEW b \in 0..size, NEW e \in 0..size PROVE from[<<b, e>>] = CallsTurn(from, <<b, e>>)
  BY <1>4
<1>7. CallsBy(size, from)
  BY <1>5, <1>6 DEF CallsBy, CallsTurn
<1>. QED
  BY <1>7

MergeCall == [begin : Nat, middle : Nat, end : Nat]

\* A range of one element at most, or one that an earlier call merges.
PartMerged(cs, k, b, e) == e <= b + 1 \/ \E j \in 1..(k - 1) : cs[j].begin = b /\ cs[j].end = e

InCall(c, b, e) == b <= c.begin /\ c.begin < c.middle /\ c.middle < c.end /\ c.end <= e
Apart(c, d) == c.end <= d.begin \/ d.end <= c.begin
Nested(c, d) == d.begin <= c.begin /\ c.end <= d.end

\* The calls that merge a range: a call comes after the ones for its two parts, and after no
\* call for a part of its own.
CallsOf(b, e, cs) ==
  /\ cs \in Seq(MergeCall)
  /\ \A k \in 1..Len(cs) :
       /\ InCall(cs[k], b, e)
       /\ PartMerged(cs, k, cs[k].begin, cs[k].middle) /\ PartMerged(cs, k, cs[k].middle, cs[k].end)
  /\ \A j, k \in 1..Len(cs) : j < k => Nested(cs[j], cs[k]) \/ Apart(cs[j], cs[k])
  /\ PartMerged(cs, Len(cs) + 1, b, e)

\* A call has numbers for its bounds.
LEMMA CallType ==
  ASSUME NEW c \in MergeCall
  PROVE  c.begin \in Nat /\ c.middle \in Nat /\ c.end \in Nat
BY DEF MergeCall

\* One more at the end of a list, and two lists in turn.
LEMMA OneJoined ==
  ASSUME NEW S, NEW w \in Seq(S), NEW c \in S
  PROVE  /\ w \o <<c>> \in Seq(S) /\ Len(w \o <<c>>) = Len(w) + 1
         /\ \A k \in 1..Len(w) : (w \o <<c>>)[k] = w[k]
         /\ (w \o <<c>>)[Len(w) + 1] = c
OBVIOUS

\* What two lists joined have at each place.
LEMMA TwoJoined ==
  ASSUME NEW S, NEW s \in Seq(S), NEW t \in Seq(S)
  PROVE  /\ s \o t \in Seq(S) /\ Len(s \o t) = Len(s) + Len(t)
         /\ \A k \in 1..Len(s) : (s \o t)[k] = s[k]
         /\ \A k \in 1..Len(t) : (s \o t)[Len(s) + k] = t[k]
OBVIOUS

\* And with one more element behind them.
LEMMA ThreeJoined ==
  ASSUME NEW S, NEW s \in Seq(S), NEW t \in Seq(S), NEW c \in S,
         NEW u \in Nat, NEW v \in Nat, u = Len(s), v = Len(t),
         NEW cs, cs = s \o t \o <<c>>
  PROVE  /\ cs \in Seq(S) /\ Len(cs) = u + v + 1
         /\ \A k \in 1..u : cs[k] = s[k]
         /\ \A k \in 1..v : cs[u + k] = t[k]
         /\ cs[u + v + 1] = c
<1>1. PICK w : w = s \o t
  OBVIOUS
<1>2. /\ w \in Seq(S) /\ Len(w) = u + v
      /\ \A k \in 1..u : w[k] = s[k]
      /\ \A k \in 1..v : w[u + k] = t[k]
  BY <1>1, TwoJoined
<1>3. cs = w \o <<c>>
  BY <1>1
<1>4. /\ cs \in Seq(S) /\ Len(cs) = (u + v) + 1
      /\ \A k \in 1..(u + v) : cs[k] = w[k]
      /\ cs[(u + v) + 1] = c
  BY <1>2, <1>3, OneJoined
<1>5. /\ \A k \in 1..u : k \in 1..(u + v)
      /\ \A k \in 1..v : u + k \in 1..(u + v)
  OBVIOUS
<1>6. \A k \in 1..u : cs[k] = s[k]
  BY <1>2, <1>4, <1>5
<1>7. \A k \in 1..v : cs[u + k] = t[k]
  BY <1>2, <1>4, <1>5
<1>. QED
  BY <1>4, <1>6, <1>7

\* The calls of two neighbouring ranges, and the one that merges both.
LEMMA CallsJoin ==
  ASSUME NEW b \in Nat, NEW m \in Nat, NEW e \in Nat, b < m, m < e,
         NEW c, c = [begin |-> b, middle |-> m, end |-> e],
         NEW s, CallsOf(b, m, s), NEW t, CallsOf(m, e, t),
         NEW cs, cs = s \o t \o <<c>>
  PROVE  CallsOf(b, e, cs)
<1>1. /\ s \in Seq(MergeCall) /\ t \in Seq(MergeCall) /\ c \in MergeCall
      /\ c.begin = b /\ c.middle = m /\ c.end = e
  BY DEF CallsOf, MergeCall
<1>2. PICK u \in Nat, v \in Nat : u = Len(s) /\ v = Len(t)
  BY <1>1
<1>3. /\ cs \in Seq(MergeCall) /\ Len(cs) = u + v + 1
      /\ \A k \in 1..u : cs[k] = s[k]
      /\ \A k \in 1..v : cs[u + k] = t[k]
      /\ cs[u + v + 1] = c
  BY <1>1, <1>2, ThreeJoined
<1>4. /\ \A k \in 1..u : s[k].begin \in Nat /\ s[k].middle \in Nat /\ s[k].end \in Nat
      /\ \A k \in 1..v : t[k].begin \in Nat /\ t[k].middle \in Nat /\ t[k].end \in Nat
  BY <1>1, <1>2, CallType
<1>5. /\ \A k \in 1..u :
           /\ InCall(s[k], b, m)
           /\ PartMerged(s, k, s[k].begin, s[k].middle) /\ PartMerged(s, k, s[k].middle, s[k].end)
      /\ \A j, k \in 1..u : j < k => Nested(s[j], s[k]) \/ Apart(s[j], s[k])
      /\ PartMerged(s, u + 1, b, m)
  BY <1>2 DEF CallsOf
<1>6. /\ \A k \in 1..v :
           /\ InCall(t[k], m, e)
           /\ PartMerged(t, k, t[k].begin, t[k].middle) /\ PartMerged(t, k, t[k].middle, t[k].end)
      /\ \A j, k \in 1..v : j < k => Nested(t[j], t[k]) \/ Apart(t[j], t[k])
      /\ PartMerged(t, v + 1, m, e)
  BY <1>2 DEF CallsOf
<1>7. ASSUME NEW k \in 1..(u + 1), NEW x, NEW y, PartMerged(s, k, x, y), NEW l \in k..(u + v + 1)
      PROVE  PartMerged(cs, l, x, y)
  <2>1. CASE y <= x + 1
    BY <2>1 DEF PartMerged
  <2>2. CASE \E j \in 1..(k - 1) : s[j].begin = x /\ s[j].end = y
    <3>1. PICK j \in 1..(k - 1) : s[j].begin = x /\ s[j].end = y
      BY <2>2
    <3>2. j \in 1..(l - 1) /\ j \in 1..u
      BY <1>2
    <3>3. cs[j] = s[j]
      BY <1>3, <3>2
    <3>. QED
      BY <3>1, <3>2, <3>3 DEF PartMerged
  <2>. QED
    BY <1>7, <2>1, <2>2 DEF PartMerged
<1>8. ASSUME NEW k \in 1..(v + 1), NEW x, NEW y, PartMerged(t, k, x, y)
      PROVE  PartMerged(cs, u + k, x, y)
  <2>1. CASE y <= x + 1
    BY <2>1 DEF PartMerged
  <2>2. CASE \E j \in 1..(k - 1) : t[j].begin = x /\ t[j].end = y
    <3>1. PICK j \in 1..(k - 1) : t[j].begin = x /\ t[j].end = y
      BY <2>2
    <3>2. u + j \in 1..((u + k) - 1) /\ j \in 1..v
      BY <1>2
    <3>3. cs[u + j] = t[j]
      BY <1>3, <3>2
    <3>. QED
      BY <3>1, <3>2, <3>3 DEF PartMerged
  <2>. QED
    BY <1>8, <2>1, <2>2 DEF PartMerged
<1>9. \A k \in 1..(u + v + 1) : k \in 1..u \/ (k - u \in 1..v /\ k = u + (k - u)) \/ k = u + v + 1
  BY <1>2
<1>10. ASSUME NEW k \in 1..(u + v + 1)
       PROVE  /\ InCall(cs[k], b, e)
              /\ PartMerged(cs, k, cs[k].begin, cs[k].middle)
              /\ PartMerged(cs, k, cs[k].middle, cs[k].end)
  <2>1. CASE k \in 1..u
    <3>1. cs[k] = s[k] /\ k \in 1..(u + 1) /\ k \in k..(u + v + 1)
      BY <1>2, <1>3, <2>1
    <3>2. PartMerged(cs, k, s[k].begin, s[k].middle) /\ PartMerged(cs, k, s[k].middle, s[k].end)
      BY <1>5, <1>7, <2>1, <3>1
    <3>3. InCall(s[k], b, e)
      BY <1>4, <1>5, <2>1 DEF InCall
    <3>. QED
      BY <3>1, <3>2, <3>3
  <2>2. CASE k - u \in 1..v /\ k = u + (k - u)
    <3>1. PICK l \in 1..v : k = u + l
      BY <2>2
    <3>2. cs[k] = t[l] /\ l \in 1..(v + 1)
      BY <1>2, <1>3, <3>1
    <3>3. PartMerged(cs, k, t[l].begin, t[l].middle) /\ PartMerged(cs, k, t[l].middle, t[l].end)
      BY <1>6, <1>8, <3>1, <3>2
    <3>4. InCall(t[l], b, e)
      BY <1>4, <1>6 DEF InCall
    <3>. QED
      BY <3>2, <3>3, <3>4
  <2>3. CASE k = u + v + 1
    <3>1. cs[k] = c /\ InCall(c, b, e)
      BY <1>1, <1>3, <2>3 DEF InCall
    <3>2. PartMerged(cs, k, b, m)
      <4>1. u + 1 \in 1..(u + 1) /\ k \in (u + 1)..(u + v + 1)
        BY <1>2, <2>3
      <4>. QED
        BY <1>5, <1>7, <4>1
    <3>3. PartMerged(cs, k, m, e)
      <4>1. v + 1 \in 1..(v + 1) /\ k = u + (v + 1)
        BY <1>2, <2>3
      <4>. QED
        BY <1>6, <1>8, <4>1
    <3>. QED
      BY <1>1, <3>1, <3>2, <3>3
  <2>. QED
    BY <1>9, <2>1, <2>2, <2>3
<1>11. ASSUME NEW j \in 1..(u + v + 1), NEW k \in 1..(u + v + 1), j < k
       PROVE  Nested(cs[j], cs[k]) \/ Apart(cs[j], cs[k])
  <2>1. CASE k \in 1..u
    <3>1. j \in 1..u
      BY <1>11, <2>1
    <3>. QED
      BY <1>3, <1>5, <1>11, <2>1, <3>1
  <2>2. CASE k - u \in 1..v /\ k = u + (k - u)
    <3>1. PICK l \in 1..v : k = u + l
      BY <2>2
    <3>2. cs[k] = t[l] /\ m <= t[l].begin
      BY <1>3, <1>6, <3>1 DEF InCall
    <3>3. CASE j \in 1..u
      <4>1. cs[j] = s[j] /\ s[j].end <= m
        BY <1>3, <1>5, <3>3 DEF InCall
      <4>2. s[j].end \in Nat /\ t[l].begin \in Nat
        BY <1>4, <3>3
      <4>3. s[j].end <= t[l].begin
        BY <3>2, <4>1, <4>2
      <4>. QED
        BY <3>2, <4>1, <4>3 DEF Apart
    <3>4. CASE ~(j \in 1..u)
      <4>1. PICK i \in 1..v : j = u + i
        BY <1>2, <1>11, <3>1, <3>4
      <4>2. i < l
        BY <1>2, <1>11, <3>1, <4>1
      <4>. QED
        BY <1>3, <1>6, <3>2, <4>1, <4>2
    <3>. QED
      BY <3>3, <3>4
  <2>3. CASE k = u + v + 1
    <3>1. InCall(cs[j], b, e)
      BY <1>10
    <3>. QED
      BY <1>1, <1>3, <2>3, <3>1 DEF InCall, Nested
  <2>. QED
    BY <1>9, <2>1, <2>2, <2>3
<1>12. PartMerged(cs, Len(cs) + 1, b, e)
  <2>1. u + v + 1 \in 1..((Len(cs) + 1) - 1)
    BY <1>2, <1>3
  <2>. QED
    BY <1>1, <1>3, <2>1 DEF PartMerged
<1>. QED
  BY <1>3, <1>10, <1>11, <1>12 DEF CallsOf

\* Every range is merged by the calls for it.
LEMMA CallsMerge ==
  ASSUME NEW size \in Nat, NEW f, CallsBy(size, f)
  PROVE  CallsOf(0, size, MergeCalls(size))
<1>. DEFINE K == {w \in Nat : \A b, e \in 0..size : e - b <= w => CallsOf(b, e, f[<<b, e>>])}
<1>1. ASSUME NEW b \in 0..size, NEW e \in 0..size, e <= b + 1
      PROVE  CallsOf(b, e, f[<<b, e>>])
  <2>1. f[<<b, e>>] = <<>>
    <3>1. ~(b + 1 < e)
      BY <1>1
    <3>. QED
      BY <3>1 DEF CallsBy
  <2>2. <<>> \in Seq(MergeCall) /\ Len(<<>>) = 0 /\ 1..0 = {}
    OBVIOUS
  <2>. QED
    BY <1>1, <2>1, <2>2 DEF CallsOf, PartMerged
<1>2. 0 \in K
  BY <1>1
<1>3. ASSUME NEW w \in K PROVE w + 1 \in K
  <2>1. ASSUME NEW b \in 0..size, NEW e \in 0..size, e - b <= w + 1, b + 1 < e
        PROVE  CallsOf(b, e, f[<<b, e>>])
    <3>1. PICK m : m = Halfway(b, e)
      OBVIOUS
    <3>2. b \in Nat /\ e \in Nat /\ m \in Nat /\ b < m /\ m < e
      BY <2>1, <3>1, HalfwayInside
    <3>3. m \in 0..size /\ m - b <= w /\ e - m <= w
      BY <1>3, <2>1, <3>2
    <3>4. CallsOf(b, m, f[<<b, m>>]) /\ CallsOf(m, e, f[<<m, e>>])
      BY <1>3, <3>3
    <3>5. f[<<b, e>>] = f[<<b, m>>] \o f[<<m, e>>] \o <<[begin |-> b, middle |-> m, end |-> e]>>
      BY <2>1, <3>1 DEF CallsBy, Call
    <3>. QED
      BY <3>2, <3>4, <3>5, CallsJoin
  <2>2. ASSUME NEW b \in 0..size, NEW e \in 0..size, e - b <= w + 1
        PROVE  CallsOf(b, e, f[<<b, e>>])
    <3>1. b + 1 < e \/ e <= b + 1
      OBVIOUS
    <3>. QED
      BY <1>1, <2>1, <2>2, <3>1
  <2>. QED
    BY <1>3, <2>2
<1>4. K = Nat
  <2>1. K \in SUBSET Nat
    OBVIOUS
  <2>. HIDE DEF K
  <2>. QED
    BY <1>2, <1>3, <2>1, NatAll
<1>5. CallsOf(0, size, f[<<0, size>>])
  <2>1. size \in K /\ 0 \in 0..size /\ size \in 0..size /\ size - 0 <= size
    BY <1>4
  <2>. QED
    BY <2>1
<1>. QED
  BY <1>5 DEF CallsBy

(* One call of Merge. *)

Ascends(a, b, e) == \A i, j \in b..(e - 1) : i <= j => a[i] <= a[j]
Arrays(size) == [0..(size - 1) -> Element]
HeldAt(a, S, x) == {k \in S : a[k] = x}
Held(a, S, x) == Cardinality(HeldAt(a, S, x))
Outside(size, key, e) == {k \in 0..(size - 1) : ~(key <= k /\ k < e)}

\* What is held at some finite positions.
LEMMA HeldNat ==
  ASSUME NEW a, NEW S, IsFiniteSet(S), NEW x
  PROVE  IsFiniteSet(HeldAt(a, S, x)) /\ Held(a, S, x) \in Nat
<1>1. HeldAt(a, S, x) \in SUBSET S
  BY DEF HeldAt
<1>2. IsFiniteSet(HeldAt(a, S, x))
  BY <1>1, FS_Subset
<1>. QED
  BY <1>2, FS_CardinalityType DEF Held

\* One position more.
LEMMA HeldMore ==
  ASSUME NEW a, NEW S, IsFiniteSet(S), NEW k, k \notin S, NEW x
  PROVE  Held(a, S \cup {k}, x) = Held(a, S, x) + (IF a[k] = x THEN 1 ELSE 0)
<1>1. IsFiniteSet(HeldAt(a, S, x)) /\ Held(a, S, x) \in Nat
  BY HeldNat
<1>2. CASE a[k] = x
  <2>1. HeldAt(a, S \cup {k}, x) = HeldAt(a, S, x) \cup {k} /\ k \notin HeldAt(a, S, x)
    BY <1>2 DEF HeldAt
  <2>2. Cardinality(HeldAt(a, S, x) \cup {k}) = Cardinality(HeldAt(a, S, x)) + 1
    BY <1>1, <2>1, FS_AddElement
  <2>. QED
    BY <1>2, <2>1, <2>2 DEF Held
<1>3. CASE a[k] # x
  <2>1. HeldAt(a, S \cup {k}, x) = HeldAt(a, S, x)
    BY <1>3 DEF HeldAt
  <2>. QED
    BY <1>1, <1>3, <2>1 DEF Held
<1>. QED
  BY <1>2, <1>3

\* Two sets of positions without a common one.
LEMMA HeldBoth ==
  ASSUME NEW a, NEW S, NEW T, IsFiniteSet(S), IsFiniteSet(T), S \cap T = {}, NEW x
  PROVE  Held(a, S \cup T, x) = Held(a, S, x) + Held(a, T, x)
<1>1. IsFiniteSet(HeldAt(a, S, x)) /\ IsFiniteSet(HeldAt(a, T, x))
  BY HeldNat
<1>2. Held(a, S, x) \in Nat /\ Held(a, T, x) \in Nat
  BY HeldNat
<1>3. /\ HeldAt(a, S \cup T, x) = HeldAt(a, S, x) \cup HeldAt(a, T, x)
      /\ HeldAt(a, S, x) \cap HeldAt(a, T, x) = {}
  BY DEF HeldAt
<1>4. Cardinality(HeldAt(a, S, x) \cup HeldAt(a, T, x))
        = Cardinality(HeldAt(a, S, x)) + Cardinality(HeldAt(a, T, x)) - Cardinality({})
  BY <1>1, <1>3, FS_Union
<1>5. Cardinality({}) = 0
  BY FS_EmptySet
<1>6. Held(a, S \cup T, x) = Held(a, S, x) + Held(a, T, x) - 0
  BY <1>3, <1>4, <1>5 DEF Held
<1>. QED
  BY <1>2, <1>6

\* Positions of one array that another one holds the same at.
LEMMA HeldSame ==
  ASSUME NEW a, NEW c, NEW S, \A k \in S : a[k] = c[k], NEW x
  PROVE  Held(a, S, x) = Held(c, S, x)
<1>1. HeldAt(a, S, x) = HeldAt(c, S, x)
  BY DEF HeldAt
<1>. QED
  BY <1>1 DEF Held

CopyOf(l, a, b, m) == l = [k \in 0..(m - b - 1) |-> a[b + k]]

\* What is copied holds as much.
LEMMA HeldCopied ==
  ASSUME NEW a, NEW b \in Nat, NEW m \in Nat, b <= m,
         NEW l, CopyOf(l, a, b, m), NEW x
  PROVE  Held(l, 0..(m - b - 1), x) = Held(a, b..(m - 1), x)
<1>. DEFINE A == HeldAt(l, 0..(m - b - 1), x)
            B == HeldAt(a, b..(m - 1), x)
            g == [k \in A |-> b + k]
<1>0. l = [k \in 0..(m - b - 1) |-> a[b + k]]
  BY DEF CopyOf
<1>1. IsFiniteSet(A)
  <2>1. IsFiniteSet(0..(m - b - 1))
    BY FS_Interval
  <2>. QED
    BY <2>1, HeldNat
<1>2. g \in [A -> B]
  BY <1>0 DEF HeldAt
<1>3. \A k \in B : \E i \in A : g[i] = k
  <2>1. ASSUME NEW k \in B PROVE k - b \in A /\ g[k - b] = k
    <3>1. k \in b..(m - 1) /\ a[k] = x
      BY DEF HeldAt
    <3>2. k - b \in 0..(m - b - 1) /\ b + (k - b) = k
      BY <3>1
    <3>3. l[k - b] = x
      BY <1>0, <3>1, <3>2
    <3>4. k - b \in A
      BY <3>2, <3>3 DEF HeldAt
    <3>. QED
      BY <3>2, <3>4
  <2>. QED
    BY <2>1
<1>4. \A i, j \in A : g[i] = g[j] => i = j
  BY DEF HeldAt
<1>5. Cardinality(B) = Cardinality(A)
  <2>. HIDE DEF A, B, g
  <2>. QED
    BY <1>1, <1>2, <1>3, <1>4, SameSize
<1>. QED
  BY <1>5 DEF Held

\* No positions hold nothing.
LEMMA HeldNone ==
  ASSUME NEW a, NEW x
  PROVE  Held(a, {}, x) = 0
<1>1. HeldAt(a, {}, x) = {}
  BY DEF HeldAt
<1>. QED
  BY <1>1, FS_EmptySet DEF Held

---------------------------------------------------------------------------------
\* An array of which the positions from b on are filled, as far as key, from two sides of
\* p and q elements, of which i and j are taken; it has, with the rest, the elements of given.
TwoSides(size, a, b, key, e, l, i, p, r, j, q, given) ==
  /\ size \in Nat /\ b \in Nat /\ key \in Nat /\ e \in Nat
  /\ p \in Nat /\ q \in Nat /\ i \in 0..p /\ j \in 0..q
  /\ key = b + i + j /\ e = b + p + q /\ e <= size
  /\ a \in Arrays(size) /\ l \in Arrays(p) /\ r \in Arrays(q)
  /\ Ascends(l, 0, p) /\ Ascends(r, 0, q) /\ Ascends(a, b, key)
  /\ \A k \in b..(key - 1) : /\ \A x \in i..(p - 1) : a[k] <= l[x]
                             /\ \A y \in j..(q - 1) : a[k] <= r[y]
  /\ \A x : Held(a, Outside(size, key, e), x) + Held(l, i..(p - 1), x) + Held(r, j..(q - 1), x)
              = Count(given, x)

\* The sides may change places.
LEMMA SidesTurn ==
  ASSUME NEW size, NEW a, NEW b, NEW key, NEW e, NEW l, NEW i, NEW p, NEW r, NEW j, NEW q, NEW given,
         TwoSides(size, a, b, key, e, l, i, p, r, j, q, given)
  PROVE  TwoSides(size, a, b, key, e, r, j, q, l, i, p, given)
<1>1. size \in Nat /\ b \in Nat /\ p \in Nat /\ q \in Nat /\ i \in 0..p /\ j \in 0..q
  BY DEF TwoSides
<1>2. b + i + j = b + j + i /\ b + p + q = b + q + p
  BY <1>1
<1>3. IsFiniteSet(Outside(size, key, e)) /\ IsFiniteSet(i..(p - 1)) /\ IsFiniteSet(j..(q - 1))
  <2>1. IsFiniteSet(0..(size - 1)) /\ IsFiniteSet(i..(p - 1)) /\ IsFiniteSet(j..(q - 1))
    BY <1>1, FS_Interval
  <2>2. Outside(size, key, e) \in SUBSET (0..(size - 1))
    BY DEF Outside
  <2>. QED
    BY <2>1, <2>2, FS_Subset
<1>4. ASSUME NEW x
      PROVE  Held(a, Outside(size, key, e), x) + Held(r, j..(q - 1), x) + Held(l, i..(p - 1), x)
               = Count(given, x)
  <2>1. /\ Held(a, Outside(size, key, e), x) \in Nat /\ Held(l, i..(p - 1), x) \in Nat
        /\ Held(r, j..(q - 1), x) \in Nat
    BY <1>3, HeldNat
  <2>2. Held(a, Outside(size, key, e), x) + Held(l, i..(p - 1), x) + Held(r, j..(q - 1), x)
               = Count(given, x)
    BY DEF TwoSides
  <2>. QED
    BY <2>1, <2>2
<1>. QED
  BY <1>1, <1>2, <1>4 DEF TwoSides

\* The position that is filled next, and the element that is taken.
NextFilled(size, e, key, p, i, l, a, c) ==
  /\ size \in Nat /\ e \in Nat /\ key \in 0..(size - 1) /\ key < e
  /\ p \in Nat /\ i \in 0..(p - 1)
  /\ c[key] = l[i] /\ \A k \in Outside(size, key, e) : c[k] = a[k]

\* It counts outside from now on.
LEMMA SideCounts ==
  ASSUME NEW size, NEW e, NEW key, NEW p, NEW i, NEW l, NEW a, NEW c,
         NextFilled(size, e, key, p, i, l, a, c), NEW x
  PROVE  Held(c, Outside(size, key + 1, e), x) + Held(l, (i + 1)..(p - 1), x)
           = Held(a, Outside(size, key, e), x) + Held(l, i..(p - 1), x)
<1>0. /\ size \in Nat /\ e \in Nat /\ key \in 0..(size - 1) /\ key < e
      /\ p \in Nat /\ i \in 0..(p - 1)
      /\ c[key] = l[i] /\ \A k \in Outside(size, key, e) : c[k] = a[k]
  BY DEF NextFilled
<1>1. PICK O, O2, L, L2 : /\ O = Outside(size, key, e) /\ O2 = Outside(size, key + 1, e)
                          /\ L = i..(p - 1) /\ L2 = (i + 1)..(p - 1)
  OBVIOUS
<1>2. IsFiniteSet(O) /\ IsFiniteSet(L2)
  <2>1. 0 \in Int /\ size - 1 \in Int /\ i + 1 \in Int /\ p - 1 \in Int
    BY <1>0
  <2>2. IsFiniteSet(0..(size - 1)) /\ IsFiniteSet((i + 1)..(p - 1))
    BY <2>1, FS_Interval
  <2>3. Outside(size, key, e) \in SUBSET (0..(size - 1))
    BY DEF Outside
  <2>. QED
    BY <1>1, <2>2, <2>3, FS_Subset
<1>3. O2 = O \cup {key} /\ key \notin O
  BY <1>0, <1>1 DEF Outside
<1>4. L = L2 \cup {i} /\ i \notin L2
  BY <1>0, <1>1
<1>5. Held(c, O2, x) = Held(c, O, x) + (IF c[key] = x THEN 1 ELSE 0)
  BY <1>2, <1>3, HeldMore
<1>6. Held(c, O, x) = Held(a, O, x)
  BY <1>0, <1>1, HeldSame
<1>7. Held(l, L, x) = Held(l, L2, x) + (IF l[i] = x THEN 1 ELSE 0)
  BY <1>2, <1>4, HeldMore
<1>8. Held(a, O, x) \in Nat /\ Held(l, L2, x) \in Nat
  BY <1>2, HeldNat
<1>9. PICK d \in Nat : d = IF l[i] = x THEN 1 ELSE 0
  OBVIOUS
<1>10. Held(c, O2, x) = Held(a, O, x) + d /\ Held(l, L, x) = Held(l, L2, x) + d
  BY <1>0, <1>5, <1>6, <1>7, <1>9
<1>11. Held(c, O2, x) + Held(l, L2, x) = Held(a, O, x) + Held(l, L, x)
  BY <1>8, <1>10
<1>. QED
  BY <1>1, <1>11

\* The next element of a side is taken: the smaller one, or the only one that is left.
LEMMA SideTaken ==
  ASSUME NEW size, NEW a, NEW b, NEW key, NEW e, NEW l, NEW i, NEW p, NEW r, NEW j, NEW q, NEW given,
         TwoSides(size, a, b, key, e, l, i, p, r, j, q, given),
         i < p, j < q => l[i] <= r[j], NEW new, new[key] = l[i], new \in [DOMAIN a -> Element],
         \A k \in DOMAIN a : k # key => new[k] = a[k]
  PROVE  /\ TwoSides(size, new, b, key + 1, e, l, i + 1, p, r, j, q, given)
         /\ \A k \in DOMAIN a : k < b \/ e <= k => new[k] = a[k]
<1>1. /\ size \in Nat /\ b \in Nat /\ key \in Nat /\ e \in Nat
      /\ p \in Nat /\ q \in Nat /\ i \in 0..p /\ j \in 0..q
      /\ key = b + i + j /\ e = b + p + q /\ e <= size
  BY DEF TwoSides
<1>2. /\ a \in Arrays(size) /\ l \in Arrays(p) /\ r \in Arrays(q)
      /\ Ascends(l, 0, p) /\ Ascends(r, 0, q) /\ Ascends(a, b, key)
      /\ \A k \in b..(key - 1) : /\ \A x \in i..(p - 1) : a[k] <= l[x]
                                 /\ \A y \in j..(q - 1) : a[k] <= r[y]
  BY DEF TwoSides
<1>3. i \in 0..(p - 1) /\ i + 1 \in 0..p /\ key < e /\ key \in 0..(size - 1) /\ b <= key
      /\ key + 1 = b + (i + 1) + j /\ key + 1 \in Nat
  BY <1>1
<1>4. PICK v : v = l[i]
  OBVIOUS
<1>5. v \in Element /\ v \in Int
  BY <1>2, <1>3, <1>4, ExercisesAssumption DEF Arrays
<1>6. /\ new \in Arrays(size) /\ new[key] = v
      /\ \A k \in 0..(size - 1) : k # key => new[k] = a[k]
  <2>1. DOMAIN a = 0..(size - 1)
    BY <1>2 DEF Arrays
  <2>. QED
    BY <1>4, <2>1 DEF Arrays
<1>7. /\ \A k \in 0..(size - 1) : a[k] \in Int
      /\ \A k \in 0..(p - 1) : l[k] \in Int
      /\ \A k \in 0..(q - 1) : r[k] \in Int
  BY <1>2, ExercisesAssumption DEF Arrays
<1>8. \A k \in b..(key - 1) : k \in 0..(size - 1) /\ k # key /\ new[k] = a[k]
  <2>1. \A k \in b..(key - 1) : k \in 0..(size - 1) /\ k # key
    BY <1>1, <1>3
  <2>. QED
    BY <1>6, <2>1
<1>9. \A k \in b..((key + 1) - 1) : k \in b..(key - 1) \/ k = key
  BY <1>1
<1>10. \A k \in b..(key - 1) : new[k] <= v
  BY <1>1, <1>2, <1>3, <1>4, <1>8
<1>11. Ascends(new, b, key + 1)
  <2>1. ASSUME NEW k \in b..((key + 1) - 1), NEW h \in b..((key + 1) - 1), k <= h
        PROVE  new[k] <= new[h]
    <3>1. CASE h = key
      <4>1. CASE k = key
        BY <1>5, <1>6, <3>1, <4>1
      <4>2. CASE k \in b..(key - 1)
        BY <1>6, <1>10, <3>1, <4>2
      <4>. QED
        BY <1>9, <4>1, <4>2
    <3>2. CASE h # key
      <4>1. h \in b..(key - 1)
        BY <1>9, <3>2
      <4>2. k \in b..(key - 1)
        BY <1>1, <2>1, <4>1
      <4>. QED
        BY <1>2, <1>8, <2>1, <4>1, <4>2 DEF Ascends
    <3>. QED
      BY <3>1, <3>2
  <2>. QED
    BY <2>1 DEF Ascends
<1>12. ASSUME NEW x \in i..(p - 1) PROVE v <= l[x]
  <2>1. i \in 0..(p - 1) /\ x \in 0..(p - 1) /\ i <= x
    BY <1>1, <1>3
  <2>. QED
    BY <1>2, <1>4, <2>1 DEF Ascends
<1>13. ASSUME NEW y \in j..(q - 1) PROVE v <= r[y]
  <2>1. j \in 0..(q - 1) /\ y \in 0..(q - 1) /\ j <= y /\ j < q
    BY <1>1
  <2>2. r[j] <= r[y] /\ v <= r[j]
    BY <1>2, <1>4, <2>1 DEF Ascends
  <2>3. v \in Int /\ r[j] \in Int /\ r[y] \in Int
    BY <1>5, <1>7, <2>1
  <2>. QED
    BY <2>2, <2>3
<1>14. ASSUME NEW k \in b..((key + 1) - 1)
       PROVE  /\ \A x \in (i + 1)..(p - 1) : new[k] <= l[x]
              /\ \A y \in j..(q - 1) : new[k] <= r[y]
  <2>1. \A x \in (i + 1)..(p - 1) : x \in i..(p - 1)
    BY <1>1
  <2>2. CASE k = key
    BY <1>6, <1>12, <1>13, <2>1, <2>2
  <2>3. CASE k \in b..(key - 1)
    BY <1>2, <1>8, <2>1, <2>3
  <2>. QED
    BY <1>9, <2>2, <2>3
<1>15. ASSUME NEW x
       PROVE  Held(new, Outside(size, key + 1, e), x) + Held(l, (i + 1)..(p - 1), x)
                + Held(r, j..(q - 1), x) = Count(given, x)
  <2>1. \A k \in Outside(size, key, e) : new[k] = a[k]
    BY <1>1, <1>3, <1>6 DEF Outside
  <2>2. Held(new, Outside(size, key + 1, e), x) + Held(l, (i + 1)..(p - 1), x)
          = Held(a, Outside(size, key, e), x) + Held(l, i..(p - 1), x)
    <3>1. NextFilled(size, e, key, p, i, l, a, new)
      BY <1>1, <1>3, <2>1 DEF NextFilled
    <3>. QED
      BY <3>1, SideCounts
  <2>3. Held(a, Outside(size, key, e), x) + Held(l, i..(p - 1), x) + Held(r, j..(q - 1), x)
          = Count(given, x)
    BY DEF TwoSides
  <2>. QED
    BY <2>2, <2>3
<1>16. TwoSides(size, new, b, key + 1, e, l, i + 1, p, r, j, q, given)
  BY <1>1, <1>2, <1>3, <1>6, <1>11, <1>14, <1>15 DEF TwoSides
<1>17. ASSUME NEW k \in DOMAIN a, k < b \/ e <= k PROVE new[k] = a[k]
  <2>1. k \in 0..(size - 1)
    BY <1>2 DEF Arrays
  <2>2. k # key
    BY <1>1, <1>3, <1>17, <2>1
  <2>. QED
    BY <1>6, <2>1, <2>2
<1>. QED
  BY <1>16, <1>17

\* What is counted in an array.
LEMMA CountHeld ==
  ASSUME NEW size, NEW a \in Arrays(size), NEW x
  PROVE  Count(a, x) = Held(a, 0..(size - 1), x)
<1>1. DOMAIN a = 0..(size - 1)
  BY DEF Arrays
<1>. QED
  BY <1>1 DEF Count, Held, HeldAt

\* Merge begins with copies of two parts that ascend.
LEMMA SidesStart ==
  ASSUME NEW size \in Nat, NEW a \in Arrays(size), NEW b \in Nat, NEW m \in Nat, NEW e \in Nat,
         b < m, m < e, e <= size, Ascends(a, b, m), Ascends(a, m, e),
         NEW given, \A x : Count(a, x) = Count(given, x),
         NEW l, CopyOf(l, a, b, m), NEW r, CopyOf(r, a, m, e)
  PROVE  TwoSides(size, a, b, b, e, l, 0, m - b, r, 0, e - m, given)
<1>1. PICK p \in Nat, q \in Nat : p = m - b /\ q = e - m
  OBVIOUS
<1>0. l = [k \in 0..(p - 1) |-> a[b + k]] /\ r = [k \in 0..(q - 1) |-> a[m + k]]
  BY <1>1 DEF CopyOf
<1>2. \A k \in 0..(size - 1) : a[k] \in Element
  BY DEF Arrays
<1>3. l \in Arrays(p)
  <2>1. \A k \in 0..(p - 1) : b + k \in 0..(size - 1)
    BY <1>1
  <2>. QED
    BY <1>0, <1>2, <2>1 DEF Arrays
<1>4. r \in Arrays(q)
  <2>1. \A k \in 0..(q - 1) : m + k \in 0..(size - 1)
    BY <1>1
  <2>. QED
    BY <1>0, <1>2, <2>1 DEF Arrays
<1>5. Ascends(l, 0, p)
  <2>1. ASSUME NEW i \in 0..(p - 1), NEW j \in 0..(p - 1), i <= j PROVE l[i] <= l[j]
    <3>1. b + i \in b..(m - 1) /\ b + j \in b..(m - 1) /\ b + i <= b + j
      BY <1>1, <2>1
    <3>2. l[i] = a[b + i] /\ l[j] = a[b + j]
      BY <1>0
    <3>. QED
      BY <3>1, <3>2 DEF Ascends
  <2>. QED
    BY <2>1 DEF Ascends
<1>6. Ascends(r, 0, q)
  <2>1. ASSUME NEW i \in 0..(q - 1), NEW j \in 0..(q - 1), i <= j PROVE r[i] <= r[j]
    <3>1. m + i \in m..(e - 1) /\ m + j \in m..(e - 1) /\ m + i <= m + j
      BY <1>1, <2>1
    <3>2. r[i] = a[m + i] /\ r[j] = a[m + j]
      BY <1>0
    <3>. QED
      BY <3>1, <3>2 DEF Ascends
  <2>. QED
    BY <2>1 DEF Ascends
<1>7. b..(b - 1) = {}
  OBVIOUS
<1>8. ASSUME NEW x
      PROVE  Held(a, Outside(size, b, e), x) + Held(l, 0..(p - 1), x) + Held(r, 0..(q - 1), x)
               = Count(given, x)
  <2>1. PICK O, L, R : O = Outside(size, b, e) /\ L = b..(m - 1) /\ R = m..(e - 1)
    OBVIOUS
  <2>2. IsFiniteSet(O) /\ IsFiniteSet(L) /\ IsFiniteSet(R)
    <3>0. 0 \in Int /\ size - 1 \in Int /\ b \in Int /\ m - 1 \in Int /\ m \in Int /\ e - 1 \in Int
      OBVIOUS
    <3>1. IsFiniteSet(0..(size - 1)) /\ IsFiniteSet(b..(m - 1)) /\ IsFiniteSet(m..(e - 1))
      BY <3>0, FS_Interval
    <3>2. Outside(size, b, e) \in SUBSET (0..(size - 1))
      BY DEF Outside
    <3>. QED
      BY <2>1, <3>1, <3>2, FS_Subset
  <2>3. L \cap R = {} /\ O \cap (L \cup R) = {} /\ O \cup (L \cup R) = 0..(size - 1)
    BY <2>1 DEF Outside
  <2>4. IsFiniteSet(L \cup R)
    BY <2>2, FS_Union
  <2>5. Held(a, O \cup (L \cup R), x) = Held(a, O, x) + Held(a, L \cup R, x)
    BY <2>2, <2>3, <2>4, HeldBoth
  <2>6. Held(a, L \cup R, x) = Held(a, L, x) + Held(a, R, x)
    BY <2>2, <2>3, HeldBoth
  <2>7. Held(l, 0..(m - b - 1), x) = Held(a, L, x) /\ Held(r, 0..(e - m - 1), x) = Held(a, R, x)
    BY <2>1, HeldCopied
  <2>8. Held(l, 0..(p - 1), x) = Held(a, L, x) /\ Held(r, 0..(q - 1), x) = Held(a, R, x)
    BY <1>1, <2>7
  <2>9. Held(a, O, x) \in Nat /\ Held(a, L, x) \in Nat /\ Held(a, R, x) \in Nat
    BY <2>2, HeldNat
  <2>10. Count(given, x) = Held(a, O \cup (L \cup R), x)
    BY <2>3, CountHeld
  <2>11. Count(given, x) = Held(a, O, x) + (Held(a, L, x) + Held(a, R, x))
    BY <2>5, <2>6, <2>10
  <2>. QED
    BY <2>1, <2>8, <2>9, <2>11
<1>9. /\ 0 \in 0..p /\ 0 \in 0..q /\ b = b + 0 + 0 /\ e = b + p + q
  BY <1>1
<1>10. TwoSides(size, a, b, b, e, l, 0, p, r, 0, q, given)
  BY <1>3, <1>4, <1>5, <1>6, <1>7, <1>8, <1>9 DEF TwoSides, Ascends
<1>. QED
  BY <1>1, <1>10

\* When both sides are used up the range ascends, and the array has the elements it was given.
LEMMA SidesEnd ==
  ASSUME NEW size, NEW a, NEW b, NEW e, NEW l, NEW i, NEW p, NEW r, NEW j, NEW q, NEW given,
         TwoSides(size, a, b, e, e, l, i, p, r, j, q, given)
  PROVE  Ascends(a, b, e) /\ \A x : Count(a, x) = Count(given, x)
<1>1. /\ size \in Nat /\ b \in Nat /\ e \in Nat /\ p \in Nat /\ q \in Nat
      /\ i \in 0..p /\ j \in 0..q /\ e = b + i + j /\ e = b + p + q
      /\ a \in Arrays(size) /\ Ascends(a, b, e)
  BY DEF TwoSides
<1>2. i..(p - 1) = {} /\ j..(q - 1) = {} /\ Outside(size, e, e) = 0..(size - 1)
  BY <1>1 DEF Outside
<1>3. ASSUME NEW x PROVE Count(a, x) = Count(given, x)
  <2>1. Held(a, Outside(size, e, e), x) + Held(l, i..(p - 1), x) + Held(r, j..(q - 1), x)
          = Count(given, x)
    BY DEF TwoSides
  <2>2. Held(a, 0..(size - 1), x) + Held(l, {}, x) + Held(r, {}, x) = Count(given, x)
    BY <1>2, <2>1
  <2>3. Held(l, {}, x) = 0 /\ Held(r, {}, x) = 0
    BY HeldNone
  <2>4. Held(a, 0..(size - 1), x) \in Nat
    <3>1. IsFiniteSet(0..(size - 1))
      BY <1>1, FS_Interval
    <3>. QED
      BY <3>1, HeldNat
  <2>5. Held(a, 0..(size - 1), x) + 0 + 0 = Count(given, x)
    BY <2>2, <2>3
  <2>6. Count(a, x) = Held(a, 0..(size - 1), x)
    BY <1>1, CountHeld
  <2>. QED
    BY <2>4, <2>5, <2>6
<1>. QED
  BY <1>1, <1>3

---------------------------------------------------------------------------------
(* MergeSort. *)

\* The call of Merge under way.
Merging(size, c) ==
  /\ merge = [left |-> merge.left, right |-> merge.right, n1 |-> merge.n1, n2 |-> merge.n2,
              i |-> merge.i, j |-> merge.j, key |-> merge.key, end |-> merge.end]
  /\ merge.n1 = c.middle - c.begin /\ merge.n2 = c.end - c.middle /\ merge.end = c.end
  /\ TwoSides(size, array, c.begin, merge.key, merge.end, merge.left, merge.i, merge.n1,
              merge.right, merge.j, merge.n2, input)

\* d of the calls cs are done: their ranges ascend, unless a merge under way is about them.
Sorting(size, cs, d) ==
  /\ size \in Nat /\ input \in Arrays(size) /\ array \in Arrays(size)
  /\ CallsOf(0, size, cs) /\ d \in 0..Len(cs) /\ calls = SubSeq(cs, d + 1, Len(cs))
  /\ \/ /\ merge = NoMerge
        /\ \A k \in 1..d : Ascends(array, cs[k].begin, cs[k].end)
        /\ \A x : Count(array, x) = Count(input, x)
     \/ /\ d < Len(cs) /\ Merging(size, cs[d + 1])
        /\ \A k \in 1..d : Apart(cs[k], cs[d + 1]) => Ascends(array, cs[k].begin, cs[k].end)
SortInv == exercise = "merge_sort" => \E size, cs, d : Sorting(size, cs, d)

\* A merge that is under way is one.
LEMMA MergingIsOne ==
  ASSUME NEW size, NEW c, Merging(size, c)
  PROVE  merge # NoMerge /\ merge.key \in Nat
<1>1. merge.key \in Nat
  BY DEF Merging, TwoSides
<1>. QED
  BY <1>1 DEF NoMerge

\* The calls that are left.
LEMMA CallsLeft ==
  ASSUME NEW size, NEW cs, NEW d, Sorting(size, cs, d)
  PROVE  /\ cs \in Seq(MergeCall) /\ Len(cs) \in Nat /\ d \in 0..Len(cs)
         /\ calls # <<>> <=> d < Len(cs)
         /\ calls # <<>> => /\ Head(calls) = cs[d + 1] /\ cs[d + 1] \in MergeCall
                            /\ Tail(calls) = SubSeq(cs, (d + 1) + 1, Len(cs))
<1>1. cs \in Seq(MergeCall) /\ d \in 0..Len(cs) /\ calls = SubSeq(cs, d + 1, Len(cs))
  BY DEF Sorting, CallsOf
<1>2. PICK m \in Nat : m = Len(cs)
  BY <1>1
<1>3. /\ calls \in Seq(MergeCall) /\ Len(calls) = m - d
      /\ \A k \in 1..(m - d) : calls[k] = cs[d + k]
  BY <1>1, <1>2
<1>4. calls # <<>> <=> d < m
  <2>1. calls # <<>> <=> Len(calls) # 0
    BY <1>3
  <2>. QED
    BY <1>1, <1>2, <1>3, <2>1
<1>5. ASSUME d < m
      PROVE  /\ Head(calls) = cs[d + 1] /\ cs[d + 1] \in MergeCall
             /\ Tail(calls) = SubSeq(cs, (d + 1) + 1, m)
  <2>1. 1 \in 1..(m - d) /\ d + 1 \in 1..m
    BY <1>1, <1>2, <1>5
  <2>2. Head(calls) = calls[1]
    BY <1>3, <1>4, <1>5
  <2>3. Head(calls) = cs[d + 1] /\ cs[d + 1] \in MergeCall
    BY <1>1, <1>2, <1>3, <2>1, <2>2
  <2>4. PICK t, u : t = Tail(calls) /\ u = SubSeq(cs, (d + 1) + 1, m)
    OBVIOUS
  <2>5. /\ t \in Seq(MergeCall) /\ Len(t) = (m - d) - 1
        /\ \A k \in 1..((m - d) - 1) : t[k] = calls[k + 1]
    BY <1>3, <1>4, <1>5, <2>4
  <2>6. /\ u \in Seq(MergeCall) /\ Len(u) = (m - d) - 1
        /\ \A k \in 1..((m - d) - 1) : u[k] = cs[(d + 1) + k]
    BY <1>1, <1>2, <1>5, <2>4
  <2>7. \A k \in 1..((m - d) - 1) : t[k] = u[k]
    <3>1. ASSUME NEW k \in 1..((m - d) - 1) PROVE t[k] = u[k]
      <4>1. k + 1 \in 1..(m - d) /\ d + (k + 1) = (d + 1) + k
        BY <1>1, <1>2
      <4>2. calls[k + 1] = cs[(d + 1) + k]
        BY <1>3, <4>1
      <4>. QED
        BY <2>5, <2>6, <4>2
    <3>. QED
      BY <3>1
  <2>8. t = u
    BY <2>5, <2>6, <2>7
  <2>. QED
    BY <2>3, <2>4, <2>8
<1>. QED
  BY <1>1, <1>2, <1>4, <1>5

\* At the start.
LEMMA SortStarts ==
  ASSUME EInit
  PROVE  SortInv
<1>. SUFFICES ASSUME exercise = "merge_sort" PROVE \E size, cs, d : Sorting(size, cs, d)
  BY DEF SortInv
<1>1. PICK size \in 0..MaxArray : input \in [0..(size - 1) -> Element]
  BY DEF EInit
<1>2. array = input /\ merge = NoMerge /\ calls = MergeCalls(N)
  BY DEF EInit
<1>3. size \in Nat
  BY <1>1, ExercisesAssumption
<1>4. N = size
  <2>1. DOMAIN array = 0..(size - 1)
    BY <1>1, <1>2
  <2>2. 0 \in Int /\ size - 1 \in Int
    BY <1>3
  <2>3. Cardinality(0..(size - 1)) = IF 0 > size - 1 THEN 0 ELSE (size - 1) - 0 + 1
    BY <2>2, FS_Interval
  <2>. QED
    BY <1>3, <2>1, <2>3 DEF N
<1>5. PICK f : CallsBy(size, f)
  BY <1>3, CallsSteps
<1>6. PICK cs : cs = MergeCalls(size)
  OBVIOUS
<1>7. CallsOf(0, size, cs)
  BY <1>3, <1>5, <1>6, CallsMerge
<1>8. calls = SubSeq(cs, 0 + 1, Len(cs)) /\ 0 \in 0..Len(cs)
  <2>1. cs \in Seq(MergeCall)
    BY <1>7 DEF CallsOf
  <2>2. calls = cs
    BY <1>2, <1>4, <1>6
  <2>. QED
    BY <2>1, <2>2
<1>9. Sorting(size, cs, 0)
  BY <1>1, <1>2, <1>3, <1>7, <1>8 DEF Sorting, Arrays
<1>. QED
  BY <1>9

\* A range that an earlier call has merged ascends, as one of a single element does.
LEMMA PartAscends ==
  ASSUME NEW size \in Nat, NEW a \in Arrays(size), NEW cs, NEW d \in Nat, NEW b \in Nat, NEW e \in Nat,
         e <= size, PartMerged(cs, d + 1, b, e),
         \A k \in 1..d : Ascends(a, cs[k].begin, cs[k].end)
  PROVE  Ascends(a, b, e)
<1>1. CASE e <= b + 1
  <2>1. ASSUME NEW i \in b..(e - 1), NEW j \in b..(e - 1), i <= j PROVE a[i] <= a[j]
    <3>1. i = j /\ i \in 0..(size - 1)
      BY <1>1, <2>1
    <3>2. a[i] \in Int
      BY <3>1, ExercisesAssumption DEF Arrays
    <3>. QED
      BY <3>1, <3>2
  <2>. QED
    BY <2>1 DEF Ascends
<1>2. CASE \E j \in 1..((d + 1) - 1) : cs[j].begin = b /\ cs[j].end = e
  <2>1. PICK j \in 1..((d + 1) - 1) : cs[j].begin = b /\ cs[j].end = e
    BY <1>2
  <2>2. j \in 1..d
    OBVIOUS
  <2>. QED
    BY <2>1, <2>2
<1>. QED
  BY <1>1, <1>2 DEF PartMerged

\* A call and its two parts.
LEMMA NextCall ==
  ASSUME NEW size \in Nat, NEW cs, CallsOf(0, size, cs), NEW d \in 0..Len(cs), d < Len(cs),
         NEW c, c = cs[d + 1]
  PROVE  /\ c.begin \in Nat /\ c.middle \in Nat /\ c.end \in Nat
         /\ c.begin < c.middle /\ c.middle < c.end /\ c.end <= size
         /\ PartMerged(cs, d + 1, c.begin, c.middle) /\ PartMerged(cs, d + 1, c.middle, c.end)
         /\ \A k \in 1..d : /\ cs[k].begin \in Nat /\ cs[k].end \in Nat
                            /\ Nested(cs[k], c) \/ Apart(cs[k], c)
<1>1. cs \in Seq(MergeCall) /\ Len(cs) \in Nat
  BY DEF CallsOf
<1>2. d + 1 \in 1..Len(cs) /\ \A k \in 1..d : k \in 1..Len(cs) /\ k < d + 1
  BY <1>1
<1>3. c \in MergeCall /\ \A k \in 1..d : cs[k] \in MergeCall
  BY <1>1, <1>2
<1>4. InCall(c, 0, size)
  BY <1>2 DEF CallsOf
<1>5. PartMerged(cs, d + 1, c.begin, c.middle) /\ PartMerged(cs, d + 1, c.middle, c.end)
  BY <1>2 DEF CallsOf
<1>6. \A k \in 1..d : Nested(cs[k], c) \/ Apart(cs[k], c)
  BY <1>2 DEF CallsOf
<1>. QED
  BY <1>3, <1>4, <1>5, <1>6, CallType DEF InCall

\* Merge begins.
LEMMA MergeKeeps ==
  ASSUME NEW size, NEW cs, NEW d, Sorting(size, cs, d), Merge
  PROVE  Sorting(size, cs, d)'
<1>1. merge = NoMerge /\ calls # <<>>
  BY DEF Merge
<1>2. /\ size \in Nat /\ input \in Arrays(size) /\ array \in Arrays(size)
      /\ CallsOf(0, size, cs) /\ d \in 0..Len(cs) /\ calls = SubSeq(cs, d + 1, Len(cs))
  BY DEF Sorting
<1>3. /\ \A k \in 1..d : Ascends(array, cs[k].begin, cs[k].end)
      /\ \A x : Count(array, x) = Count(input, x)
  BY <1>1, MergingIsOne DEF Sorting
<1>4. PICK c : c = cs[d + 1]
  OBVIOUS
<1>5. d < Len(cs) /\ Head(calls) = c /\ d \in Nat
  BY <1>1, <1>4, CallsLeft
<1>6. /\ c.begin \in Nat /\ c.middle \in Nat /\ c.end \in Nat
      /\ c.begin < c.middle /\ c.middle < c.end /\ c.end <= size
      /\ PartMerged(cs, d + 1, c.begin, c.middle) /\ PartMerged(cs, d + 1, c.middle, c.end)
  BY <1>2, <1>4, <1>5, NextCall
<1>7. Ascends(array, c.begin, c.middle) /\ Ascends(array, c.middle, c.end)
  <2>1. c.middle <= size
    BY <1>2, <1>6
  <2>. QED
    BY <1>2, <1>3, <1>5, <1>6, <2>1, PartAscends
<1>8. PICK l, r : l = Copied(c.begin, c.middle) /\ r = Copied(c.middle, c.end)
  OBVIOUS
<1>9. CopyOf(l, array, c.begin, c.middle) /\ CopyOf(r, array, c.middle, c.end)
  BY <1>8 DEF CopyOf, Copied
<1>10. TwoSides(size, array, c.begin, c.begin, c.end, l, 0, c.middle - c.begin, r, 0, c.end - c.middle, input)
  BY <1>2, <1>3, <1>6, <1>7, <1>9, SidesStart
<1>11. /\ merge' = [left |-> l, right |-> r, n1 |-> c.middle - c.begin, n2 |-> c.end - c.middle,
                    i |-> 0, j |-> 0, key |-> c.begin, end |-> c.end]
       /\ input' = input /\ array' = array /\ calls' = calls
  BY <1>5, <1>8 DEF Merge
<1>12. Merging(size, c)'
  BY <1>10, <1>11 DEF Merging
<1>. QED
  BY <1>2, <1>3, <1>4, <1>5, <1>11, <1>12 DEF Sorting

\* One element is inserted, by the branch that is right whatever else is read.
LEMMA InsertTakes ==
  ASSUME NEW size, NEW c, Merging(size, c), Insert
  PROVE  /\ Merging(size, c)' /\ array' \in Arrays(size)
         /\ \A k \in DOMAIN array : k < c.begin \/ c.end <= k => array'[k] = array[k]
<1>1. PICK l, i, p, r, j, q, key, e, b :
        /\ l = merge.left /\ i = merge.i /\ p = merge.n1
        /\ r = merge.right /\ j = merge.j /\ q = merge.n2
        /\ key = merge.key /\ e = merge.end /\ b = c.begin
  OBVIOUS
<1>2. /\ merge = [left |-> l, right |-> r, n1 |-> p, n2 |-> q, i |-> i, j |-> j, key |-> key, end |-> e]
      /\ p = c.middle - c.begin /\ q = c.end - c.middle /\ e = c.end
      /\ TwoSides(size, array, b, key, e, l, i, p, r, j, q, input)
  BY <1>1 DEF Merging
<1>3. /\ size \in Nat /\ b \in Nat /\ p \in Nat /\ q \in Nat /\ i \in 0..p /\ j \in 0..q
      /\ key = b + i + j /\ e = b + p + q /\ e <= size /\ key < e
      /\ array \in Arrays(size) /\ l \in Arrays(p) /\ r \in Arrays(q)
  BY <1>1, <1>2 DEF TwoSides, Insert
<1>4. PICK x \in ReadAt(l, i), y \in ReadAt(r, j) :
        LET takeLeft == LeftNext(merge, y) \/ (~RightNext(merge, x) /\ LeftRest(merge))
            takeRight == ~LeftNext(merge, y) /\ RightNext(merge, x)
        IN CASE takeLeft  -> /\ array' = [array EXCEPT ![merge.key] = merge.left[merge.i]]
                             /\ merge' = [merge EXCEPT !.i = @ + 1, !.key = @ + 1]
             [] takeRight -> /\ array' = [array EXCEPT ![merge.key] = merge.right[merge.j]]
                             /\ merge' = [merge EXCEPT !.j = @ + 1, !.key = @ + 1]
             [] OTHER     -> array' = array /\ merge' = [merge EXCEPT !.key = @ + 1]
  BY <1>1 DEF Insert
<1>5. PICK L, R : /\ L = (LeftNext(merge, y) \/ (~RightNext(merge, x) /\ LeftRest(merge)))
                  /\ R = (~LeftNext(merge, y) /\ RightNext(merge, x))
  OBVIOUS
<1>6. /\ i < p => i \in DOMAIN l /\ x = l[i] /\ x \in Int
      /\ j < q => j \in DOMAIN r /\ y = r[j] /\ y \in Int
  <2>1. DOMAIN l = 0..(p - 1) /\ DOMAIN r = 0..(q - 1)
    BY <1>3 DEF Arrays
  <2>2. /\ i < p => i \in DOMAIN l
        /\ j < q => j \in DOMAIN r
    BY <1>3, <2>1
  <2>3. /\ i < p => x = l[i]
        /\ j < q => y = r[j]
    BY <1>4, <2>2 DEF ReadAt
  <2>4. /\ i < p => l[i] \in Int
        /\ j < q => r[j] \in Int
    BY <1>3, <2>1, <2>2, ExercisesAssumption DEF Arrays
  <2>. QED
    BY <2>2, <2>3, <2>4
<1>7. /\ LeftNext(merge, y) <=> i < p /\ l[i] <= y
      /\ RightNext(merge, x) <=> j < q /\ (x >= r[j] \/ i = p)
      /\ LeftRest(merge) <=> j = q /\ i < p
  BY <1>1 DEF LeftNext, RightNext, LeftRest
<1>8. \/ L /\ ~R /\ i < p /\ (j < q => l[i] <= r[j])
      \/ R /\ ~L /\ j < q /\ (i < p => r[j] <= l[i])
  <2>1. CASE i < p /\ j < q
    <3>1. x = l[i] /\ y = r[j] /\ l[i] \in Int /\ r[j] \in Int
      BY <1>6, <2>1
    <3>2. i # p /\ j # q
      BY <1>3, <2>1
    <3>3. LeftNext(merge, y) <=> l[i] <= r[j]
      BY <1>7, <2>1, <3>1
    <3>4. RightNext(merge, x) <=> r[j] <= l[i]
      BY <1>7, <2>1, <3>1, <3>2
    <3>5. ~LeftRest(merge)
      BY <1>7, <3>2
    <3>6. l[i] <= r[j] \/ r[j] <= l[i]
      BY <3>1
    <3>7. CASE l[i] <= r[j]
      <4>1. L /\ ~R
        BY <1>5, <3>3, <3>7
      <4>. QED
        BY <2>1, <3>7, <4>1
    <3>8. CASE ~(l[i] <= r[j])
      <4>1. R /\ ~L
        BY <1>5, <3>3, <3>4, <3>5, <3>6, <3>8
      <4>. QED
        BY <2>1, <3>6, <3>8, <4>1
    <3>. QED
      BY <3>7, <3>8
  <2>2. CASE i < p /\ ~(j < q)
    <3>1. j = q
      BY <1>3, <2>2
    <3>2. L /\ ~R
      BY <1>5, <1>7, <2>2, <3>1
    <3>. QED
      BY <2>2, <3>2
  <2>3. CASE ~(i < p)
    <3>1. i = p /\ j < q
      BY <1>3, <2>3
    <3>2. R /\ ~L
      BY <1>5, <1>7, <2>3, <3>1
    <3>. QED
      BY <2>3, <3>1, <3>2
  <2>. QED
    BY <2>1, <2>2, <2>3
<1>9. /\ L => /\ array' = [array EXCEPT ![key] = l[i]]
              /\ merge' = [merge EXCEPT !.i = @ + 1, !.key = @ + 1]
      /\ ~L /\ R => /\ array' = [array EXCEPT ![key] = r[j]]
                    /\ merge' = [merge EXCEPT !.j = @ + 1, !.key = @ + 1]
  BY <1>1, <1>4, <1>5
<1>10. input' = input
  BY DEF Insert
<1>11. key \in 0..(size - 1) /\ DOMAIN array = 0..(size - 1)
  BY <1>3 DEF Arrays
<1>12. CASE L /\ ~R /\ i < p /\ (j < q => l[i] <= r[j])
  <2>1. PICK new : new = array'
    OBVIOUS
  <2>2. /\ new[key] = l[i] /\ new \in [DOMAIN array -> Element]
        /\ \A k \in DOMAIN array : k # key => new[k] = array[k]
    <3>1. new = [array EXCEPT ![key] = l[i]]
      BY <1>9, <1>12, <2>1
    <3>2. l[i] \in Element
      BY <1>3, <1>12 DEF Arrays
    <3>. QED
      BY <1>3, <1>11, <3>1, <3>2 DEF Arrays
  <2>3. /\ TwoSides(size, new, b, key + 1, e, l, i + 1, p, r, j, q, input)
        /\ \A k \in DOMAIN array : k < b \/ e <= k => new[k] = array[k]
    BY <1>2, <1>12, <2>2, SideTaken
  <2>4. merge' = [left |-> l, right |-> r, n1 |-> p, n2 |-> q, i |-> i + 1, j |-> j, key |-> key + 1, end |-> e]
    BY <1>2, <1>9, <1>12
  <2>5. Merging(size, c)'
    BY <1>1, <1>2, <1>10, <2>1, <2>3, <2>4 DEF Merging
  <2>. QED
    BY <1>1, <1>2, <1>11, <2>1, <2>2, <2>3, <2>5 DEF Arrays
<1>13. CASE R /\ ~L /\ j < q /\ (i < p => r[j] <= l[i])
  <2>1. PICK new : new = array'
    OBVIOUS
  <2>2. /\ new[key] = r[j] /\ new \in [DOMAIN array -> Element]
        /\ \A k \in DOMAIN array : k # key => new[k] = array[k]
    <3>1. new = [array EXCEPT ![key] = r[j]]
      BY <1>9, <1>13, <2>1
    <3>2. r[j] \in Element
      BY <1>3, <1>13 DEF Arrays
    <3>. QED
      BY <1>3, <1>11, <3>1, <3>2 DEF Arrays
  <2>3. TwoSides(size, array, b, key, e, r, j, q, l, i, p, input)
    BY <1>2, SidesTurn
  <2>4. /\ TwoSides(size, new, b, key + 1, e, r, j + 1, q, l, i, p, input)
        /\ \A k \in DOMAIN array : k < b \/ e <= k => new[k] = array[k]
    BY <1>13, <2>2, <2>3, SideTaken
  <2>5. TwoSides(size, new, b, key + 1, e, l, i, p, r, j + 1, q, input)
    BY <2>4, SidesTurn
  <2>6. merge' = [left |-> l, right |-> r, n1 |-> p, n2 |-> q, i |-> i, j |-> j + 1, key |-> key + 1, end |-> e]
    BY <1>2, <1>9, <1>13
  <2>7. Merging(size, c)'
    BY <1>1, <1>2, <1>10, <2>1, <2>5, <2>6 DEF Merging
  <2>. QED
    BY <1>1, <1>2, <1>11, <2>1, <2>2, <2>4, <2>7 DEF Arrays
<1>. QED
  BY <1>8, <1>12, <1>13

\* A range apart from the one that is merged is not touched.
LEMMA ApartStays ==
  ASSUME NEW size \in Nat, NEW a \in Arrays(size), NEW new, NEW c, NEW d,
         c.begin \in Nat, c.end \in Nat, d.begin \in Nat, d.end \in Nat, d.end <= size, Apart(d, c),
         \A k \in DOMAIN a : k < c.begin \/ c.end <= k => new[k] = a[k],
         Ascends(a, d.begin, d.end)
  PROVE  Ascends(new, d.begin, d.end)
<1>1. PICK b \in Nat, e \in Nat, x \in Nat, y \in Nat :
        b = d.begin /\ e = d.end /\ x = c.begin /\ y = c.end
  OBVIOUS
<1>2. e <= x \/ y <= b
  BY <1>1 DEF Apart
<1>3. DOMAIN a = 0..(size - 1)
  BY DEF Arrays
<1>4. \A k \in b..(e - 1) : k \in 0..(size - 1) /\ (k < x \/ y <= k)
  BY <1>1, <1>2
<1>5. \A k \in b..(e - 1) : new[k] = a[k]
  BY <1>1, <1>3, <1>4
<1>. QED
  BY <1>1, <1>5 DEF Ascends

\* A step inside a call of Merge.
LEMMA SortInserts ==
  ASSUME NEW size, NEW cs, NEW d, Sorting(size, cs, d), Insert
  PROVE  Sorting(size, cs, d)'
<1>1. /\ size \in Nat /\ input \in Arrays(size) /\ array \in Arrays(size)
      /\ CallsOf(0, size, cs) /\ d \in 0..Len(cs) /\ calls = SubSeq(cs, d + 1, Len(cs))
  BY DEF Sorting
<1>2. PICK c : c = cs[d + 1]
  OBVIOUS
<1>3. /\ d < Len(cs) /\ Merging(size, c)
      /\ \A k \in 1..d : Apart(cs[k], c) => Ascends(array, cs[k].begin, cs[k].end)
  BY <1>2 DEF Sorting, Insert
<1>4. /\ Merging(size, c)' /\ array' \in Arrays(size)
      /\ \A k \in DOMAIN array : k < c.begin \/ c.end <= k => array'[k] = array[k]
  BY <1>3, InsertTakes
<1>5. ASSUME NEW k \in 1..d, Apart(cs[k], c) PROVE Ascends(array', cs[k].begin, cs[k].end)
  <2>1. /\ c.begin \in Nat /\ c.end \in Nat /\ cs[k].begin \in Nat /\ cs[k].end \in Nat
    BY <1>1, <1>2, <1>3, NextCall
  <2>2. cs[k].end <= size
    <3>1. cs \in Seq(MergeCall) /\ Len(cs) \in Nat
      BY <1>1 DEF CallsOf
    <3>2. k \in 1..Len(cs)
      BY <1>1, <3>1
    <3>. QED
      BY <1>1, <3>2 DEF CallsOf, InCall
  <2>. QED
    BY <1>1, <1>3, <1>4, <1>5, <2>1, <2>2, ApartStays
<1>6. input' = input /\ calls' = calls
  BY DEF Insert
<1>. QED
  BY <1>1, <1>2, <1>3, <1>4, <1>5, <1>6 DEF Sorting

\* Its end.
LEMMA SortEndsMerge ==
  ASSUME NEW size, NEW cs, NEW d, Sorting(size, cs, d), EndMerge
  PROVE  Sorting(size, cs, d + 1)'
<1>1. /\ size \in Nat /\ input \in Arrays(size) /\ array \in Arrays(size)
      /\ CallsOf(0, size, cs) /\ d \in 0..Len(cs) /\ calls = SubSeq(cs, d + 1, Len(cs))
  BY DEF Sorting
<1>2. PICK c : c = cs[d + 1]
  OBVIOUS
<1>3. /\ d < Len(cs) /\ Merging(size, c)
      /\ \A k \in 1..d : Apart(cs[k], c) => Ascends(array, cs[k].begin, cs[k].end)
  BY <1>2 DEF Sorting, EndMerge
<1>4. merge.key = merge.end /\ merge.end = c.end
  BY <1>3 DEF EndMerge, Merging
<1>5. Ascends(array, c.begin, c.end) /\ \A x : Count(array, x) = Count(input, x)
  <2>1. TwoSides(size, array, c.begin, c.end, c.end, merge.left, merge.i, merge.n1,
                 merge.right, merge.j, merge.n2, input)
    BY <1>3, <1>4 DEF Merging
  <2>. QED
    BY <2>1, SidesEnd
<1>6. /\ c.begin \in Nat /\ c.middle \in Nat /\ c.end \in Nat
      /\ \A k \in 1..d : /\ cs[k].begin \in Nat /\ cs[k].end \in Nat
                         /\ Nested(cs[k], c) \/ Apart(cs[k], c)
  BY <1>1, <1>2, <1>3, NextCall
<1>7. ASSUME NEW k \in 1..(d + 1) PROVE Ascends(array, cs[k].begin, cs[k].end)
  <2>1. CASE k = d + 1
    BY <1>2, <1>5, <2>1
  <2>2. CASE k # d + 1
    <3>1. k \in 1..d
      BY <1>1, <2>2
    <3>2. CASE Apart(cs[k], c)
      BY <1>3, <3>1, <3>2
    <3>3. CASE Nested(cs[k], c)
      <4>1. PICK b \in Nat, e \in Nat, x \in Nat, y \in Nat :
              b = cs[k].begin /\ e = cs[k].end /\ x = c.begin /\ y = c.end
        BY <1>6, <3>1
      <4>2. x <= b /\ e <= y
        BY <3>3, <4>1 DEF Nested
      <4>3. Ascends(array, b, e)
        <5>1. \A i \in b..(e - 1) : i \in x..(y - 1)
          BY <4>2
        <5>. QED
          BY <1>5, <4>1, <5>1 DEF Ascends
      <4>. QED
        BY <4>1, <4>3
    <3>. QED
      BY <1>6, <3>1, <3>2, <3>3
  <2>. QED
    BY <2>1, <2>2
<1>8. /\ Len(cs) \in Nat /\ d + 1 \in 0..Len(cs) /\ calls' = SubSeq(cs, (d + 1) + 1, Len(cs))
  <2>1. Len(cs) \in Nat /\ calls # <<>>
    BY <1>3, CallsLeft
  <2>2. calls' = SubSeq(cs, (d + 1) + 1, Len(cs))
    BY <2>1, CallsLeft DEF EndMerge
  <2>. QED
    BY <1>1, <1>3, <2>1, <2>2
<1>9. merge' = NoMerge /\ array' = array /\ input' = input
  BY DEF EndMerge
<1>. QED
  BY <1>1, <1>5, <1>7, <1>8, <1>9 DEF Sorting

\* Every step of the exercises.
LEMMA SortStep ==
  ASSUME SortInv, ENext
  PROVE  SortInv'
<1>. SUFFICES ASSUME exercise' = "merge_sort" PROVE (\E size, cs, d : Sorting(size, cs, d))'
  BY DEF SortInv
<1>1. exercise = "merge_sort" /\ (Merge \/ Insert \/ EndMerge)
  BY DEF ENext, Merge, Insert, EndMerge, SortSlice
<1>2. PICK size, cs, d : Sorting(size, cs, d)
  BY <1>1 DEF SortInv
<1>3. CASE Merge
  BY <1>2, <1>3, MergeKeeps
<1>4. CASE Insert
  BY <1>2, <1>4, SortInserts
<1>5. CASE EndMerge
  BY <1>2, <1>5, SortEndsMerge
<1>. QED
  BY <1>1, <1>3, <1>4, <1>5

\* When no call is left the array is in order.
LEMMA SortReturns ==
  ASSUME SortInv
  PROVE  SortsWhateverItReads
<1>. SUFFICES ASSUME exercise = "merge_sort", Ended
              PROVE  AscendsBetween(0, N) /\ \A x \in Element : Count(array, x) = Count(input, x)
  BY DEF SortsWhateverItReads
<1>1. PICK size, cs, d : Sorting(size, cs, d)
  BY DEF SortInv
<1>2. calls = <<>>
  BY DEF Ended
<1>3. ~(d < Len(cs)) /\ d \in 0..Len(cs) /\ Len(cs) \in Nat
  BY <1>1, <1>2, CallsLeft
<1>4. d = Len(cs)
  BY <1>3
<1>5. /\ size \in Nat /\ array \in Arrays(size) /\ CallsOf(0, size, cs)
      /\ \A k \in 1..d : Ascends(array, cs[k].begin, cs[k].end)
      /\ \A x : Count(array, x) = Count(input, x)
  BY <1>1, <1>3 DEF Sorting
<1>6. PartMerged(cs, d + 1, 0, size)
  BY <1>4, <1>5 DEF CallsOf
<1>7. Ascends(array, 0, size)
  <2>1. size <= size /\ 0 \in Nat /\ d \in Nat
    BY <1>3, <1>5
  <2>. QED
    BY <1>5, <1>6, <2>1, PartAscends
<1>8. N = size
  <2>1. DOMAIN array = 0..(size - 1)
    BY <1>5 DEF Arrays
  <2>2. 0 \in Int /\ size - 1 \in Int
    BY <1>5
  <2>3. Cardinality(0..(size - 1)) = IF 0 > size - 1 THEN 0 ELSE (size - 1) - 0 + 1
    BY <2>2, FS_Interval
  <2>. QED
    BY <1>5, <2>1, <2>3 DEF N
<1>. QED
  BY <1>5, <1>7, <1>8 DEF AscendsBetween, Ascends

---------------------------------------------------------------------------------
(* Theorems. *)

ProgramsInv == ToolsInv /\ SortInv

\* The invariant holds at the start and every step keeps it.
LEMMA ProgramsStart ==
  ASSUME PInit
  PROVE  ProgramsInv
<1>1. CASE Init /\ NoExercise
  <2>1. ToolsInv
    <3>1. DataFiles \subseteq Seq(Seq(Character))
      BY ToolsAssumption
    <3>2. NoSplit(Seq(Seq(Character)))
      BY <1>1, <3>1 DEF Init, NoSplit
    <3>. QED
      BY <1>1, <3>2, ToolsStart DEF Init
  <2>2. SortInv
    BY <1>1 DEF NoExercise, SortInv
  <2>. QED
    BY <2>1, <2>2 DEF ProgramsInv
<1>2. CASE NoSplit({<<>>}) /\ NoProgram /\ EInit
  <2>1. NoSplit(Seq(Seq(Character)))
    <3>1. <<>> \in Seq(Seq(Character))
      OBVIOUS
    <3>. QED
      BY <1>2, <3>1 DEF NoSplit
  <2>. QED
    BY <1>2, <2>1, ToolsStart, SortStarts DEF ProgramsInv
<1>. QED
  BY <1>1, <1>2 DEF PInit

\* Every step keeps it: those of a tool leave the exercise alone, those of an exercise the tools.
LEMMA ProgramsStep ==
  ASSUME ProgramsInv, [PNext]_pvars
  PROVE  ProgramsInv'
<1>1. ASSUME UNCHANGED vars PROVE ToolsInv'
  BY <1>1 DEF ProgramsInv, vars, ToolsInv, NoneState, InsertState, PartState, WindowState,
              JumpState, MinMaxState
<1>2. ASSUME UNCHANGED evars PROVE SortInv'
  BY <1>2 DEF ProgramsInv, evars, SortInv, Sorting, Merging
<1>3. CASE UseTool
  BY <1>2, <1>3, ToolsStep DEF UseTool, ProgramsInv
<1>4. CASE Practise
  BY <1>1, <1>4, SortStep DEF Practise, ProgramsInv
<1>5. CASE UNCHANGED pvars
  BY <1>1, <1>2, <1>5 DEF pvars, ProgramsInv
<1>. QED
  BY <1>3, <1>4, <1>5 DEF PNext

\* The invariant of the programs and of MergeSort.
THEOREM ProgramsInvHolds == PSpec => []ProgramsInv
<1>1. PInit => ProgramsInv
  BY ProgramsStart
<1>2. ProgramsInv /\ [PNext]_pvars => ProgramsInv'
  BY ProgramsStep
<1>. QED
  BY <1>1, <1>2, PTL DEF PSpec

\* to_unsigned (dataset.hpp:36-60) accepts every number that fits and no other text.
THEOREM ProgramsReadNumbers == PSpec => []ReadsNumbers
<1>1. ProgramsInv => ReadsNumbers
  BY ToolsRead DEF ProgramsInv
<1>. QED
  BY <1>1, ProgramsInvHolds, PTL

\* Every program appends its events in the order that push_back asks for.
THEOREM ProgramsAppendInOrder == PSpec => []AppendsInOrder
<1>1. ProgramsInv => AppendsInOrder
  BY ToolsAppend DEF ProgramsInv
<1>. QED
  BY <1>1, ProgramsInvHolds, PTL

\* measure_part_join joins the split that the last tool_split made, none if it failed, whatever
\* became of the data file since; and measure_jump lists that are apart.
THEOREM ProgramsJoinWhatTheyMeasure == PSpec => []JoinsWhatItMeasures
<1>1. ProgramsInv => JoinsWhatItMeasures
  BY ToolsPart, ToolsJump DEF ProgramsInv, JoinsWhatItMeasures
<1>. QED
  BY <1>1, ProgramsInvHolds, PTL

\* min_max reports the extremes of data with a span.
THEOREM ProgramsReportExtremes == PSpec => []ReportsExtremesOfSpans
<1>1. ProgramsInv => ReportsExtremesOfSpans
  BY ToolsExtremes DEF ProgramsInv
<1>. QED
  BY <1>1, ProgramsInvHolds, PTL

\* MergeSort (mergeSort.h) sorts whatever Merge reads behind its two copies.
THEOREM ProgramsSort == PSpec => []SortsWhateverItReads
<1>1. ProgramsInv => SortsWhateverItReads
  BY SortReturns DEF ProgramsInv
<1>. QED
  BY <1>1, ProgramsInvHolds, PTL
=================================================================================
