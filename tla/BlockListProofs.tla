---------------------------- MODULE BlockListProofs ----------------------------
(***************************************************************************)
(* Theorems about block_lists, for blocks of any size, any values and any  *)
(* number of lists: they are stacks, an iterator stays at its value, and   *)
(* both traversals visit all values.                                       *)
(***************************************************************************)
EXTENDS BlockList, SequenceTheorems, WellFoundedInduction, TLAPS

(* Counting. *)

\* The order of the naturals.
NatLess == OpToRel(<, Nat)

\* A set of naturals has a smallest element: proofs by the smallest counterexample rest on it.
LEMMA NatMin ==
  ASSUME NEW S \in SUBSET Nat, S # {}
  PROVE  \E n \in S : \A m \in S : n <= m
<1>1. IsWellFoundedOn(NatLess, Nat)
  BY NatLessThanWellFounded DEF NatLess
<1>2. \A x, y \in Nat : x < y => <<x, y>> \in NatLess
  BY DEF OpToRel, NatLess
<1>3. PICK x \in S : \A y \in S : ~(<<y, x>> \in NatLess)
  BY <1>1, WFMin
<1>4. \A y \in S : ~(y < x)
  BY <1>2, <1>3
<1>. QED
  BY <1>4

---------------------------------------------------------------------------------
(* Places. *)

\* How many cells lie before cell o of block b.
Index(b, o) == (b - 1) * C + o

\* A cell is determined by how many lie before it.
LEMMA IndexUnique ==
  ASSUME NEW b \in Nat, NEW d \in Nat, NEW o \in 0..(C - 1), NEW p \in 0..(C - 1),
         Index(b, o) = Index(d, p)
  PROVE  b = d /\ o = p
<1>1. C \in Nat /\ C > 0
  BY BlockAssumption
<1>2. ASSUME NEW x \in Nat, NEW y \in Nat, x < y, NEW u \in 0..(C - 1), NEW v \in 0..(C - 1)
      PROVE  Index(x, u) # Index(y, v)
  <2>1. PICK k \in Nat : y = x + 1 + k
    <3>1. y - x - 1 \in Nat /\ y = x + 1 + (y - x - 1)
      BY <1>2
    <3>. QED
      BY <3>1
  <2>2. (y - 1) * C = (x - 1) * C + C + k * C
    BY <1>1, <2>1
  <2>3. k * C \in Nat /\ (x - 1) * C \in Int
    BY <1>1
  <2>4. (x - 1) * C + u < (y - 1) * C + v
    BY <1>1, <2>2, <2>3
  <2>. QED
    BY <1>1, <2>3, <2>4 DEF Index
<1>3. ~(b < d) /\ ~(d < b)
  BY <1>2
<1>4. b = d
  BY <1>3
<1>5. (b - 1) * C \in Int
  BY <1>1
<1>. QED
  BY <1>1, <1>4, <1>5 DEF Index

\* The place of a value is the cell with as many cells before it as there are values.
LEMMA PlaceIndex ==
  ASSUME NEW n \in Nat \ {0}
  PROVE  /\ Place(n).block \in Nat \ {0} /\ Place(n).offset \in 0..(C - 1)
         /\ Place(n) = [block |-> Place(n).block, offset |-> Place(n).offset]
         /\ Index(Place(n).block, Place(n).offset) = n - 1
<1>1. C \in Nat /\ C > 0
  BY BlockAssumption
<1>2. PICK m \in Nat : m = n - 1
  OBVIOUS
<1>3. m \div C \in Nat /\ m % C \in 0..(C - 1) /\ (m \div C) * C + (m % C) = m
  BY <1>1
<1>4. Place(n) = [block |-> 1 + m \div C, offset |-> m % C]
  BY <1>2 DEF Place
<1>. QED
  BY <1>2, <1>3, <1>4 DEF Index

\* A place is the one with its index.
LEMMA IndexPlace ==
  ASSUME NEW b \in Nat \ {0}, NEW o \in 0..(C - 1), NEW n \in Nat \ {0}, Index(b, o) = n - 1
  PROVE  Place(n) = [block |-> b, offset |-> o]
<1>1. /\ Place(n).block \in Nat /\ Place(n).offset \in 0..(C - 1)
      /\ Place(n) = [block |-> Place(n).block, offset |-> Place(n).offset]
      /\ Index(Place(n).block, Place(n).offset) = Index(b, o)
  BY PlaceIndex
<1>2. Place(n).block = b /\ Place(n).offset = o
  BY <1>1, IndexUnique
<1>. QED
  BY <1>1, <1>2

\* Multiples of C, in the order of their factors.
LEMMA Multiples ==
  ASSUME NEW a \in Nat, NEW b \in Nat, a <= b
  PROVE  a * C \in Nat /\ b * C \in Nat /\ a * C <= b * C
<1>1. C \in Nat
  BY BlockAssumption
<1>2. PICK k \in Nat : b = a + k
  <2>1. b - a \in Nat /\ b = a + (b - a)
    OBVIOUS
  <2>. QED
    BY <2>1
<1>3. b * C = a * C + k * C /\ k * C \in Nat /\ a * C \in Nat
  BY <1>1, <1>2
<1>. QED
  BY <1>3

---------------------------------------------------------------------------------
(* One list. *)

Block == [0..(C - 1) -> Value \cup {Raw}]

ListRecord == [blocks : Seq(Block), current : Nat, offset : 0..C, size : Nat]

\* The position behind the last value is where size says, and the cells before it, in any
\* block, are those that hold values.
ListInv(s) ==
  /\ s \in ListRecord
  /\ s.current <= Len(s.blocks)
  /\ s.blocks = <<>> => s.offset = 0 /\ s.size = 0
  /\ s.blocks # <<>> => s.current >= 1 /\ s.size = (s.current - 1) * C + s.offset
  /\ \A b \in 1..Len(s.blocks), o \in 0..(C - 1) :
       s.blocks[b][o] # Raw <=> Index(b, o) < s.size

\* A new list, which has no blocks, satisfies it.
LEMMA EmptyListInv == ListInv(EmptyList)
<1>. DEFINE s == EmptyList
<1>1. s.blocks = <<>> /\ s.current = 0 /\ s.offset = 0 /\ s.size = 0
  BY DEF EmptyList
<1>2. s \in ListRecord
  BY BlockAssumption DEF EmptyList, ListRecord
<1>. HIDE DEF s
<1>3. ListInv(s)
  BY <1>1, <1>2 DEF ListInv
<1>. QED
  BY <1>3 DEF s

\* The blocks have room for the values.
LEMMA SizeBound ==
  ASSUME NEW s, ListInv(s)
  PROVE  /\ Len(s.blocks) \in Nat /\ s.size <= Len(s.blocks) * C
         /\ s.current < Len(s.blocks) => s.size + C <= Len(s.blocks) * C
<1>1. /\ s.current \in Nat /\ s.offset \in 0..C /\ s.size \in Nat /\ Len(s.blocks) \in Nat
      /\ s.current <= Len(s.blocks) /\ C \in Nat /\ s.blocks \in Seq(Block)
  BY BlockAssumption DEF ListInv, ListRecord
<1>2. CASE s.blocks = <<>>
  <2>1. s.size = 0 /\ Len(s.blocks) = 0 /\ Len(s.blocks) * C = 0
    BY <1>1, <1>2 DEF ListInv
  <2>. QED
    BY <1>1, <2>1
<1>3. CASE s.blocks # <<>>
  <2>1. s.current >= 1 /\ s.size = (s.current - 1) * C + s.offset
    BY <1>3 DEF ListInv
  <2>2. PICK k \in Nat : s.current = k + 1
    <3>1. s.current - 1 \in Nat /\ s.current = (s.current - 1) + 1
      BY <1>1, <2>1
    <3>. QED
      BY <3>1
  <2>3. s.size = k * C + s.offset /\ k * C \in Nat
    BY <1>1, <2>1, <2>2
  <2>4. (k + 1) * C = k * C + C /\ (k + 1) * C <= Len(s.blocks) * C
    BY <1>1, <2>2, Multiples
  <2>5. s.current < Len(s.blocks) => (k + 2) * C <= Len(s.blocks) * C
    BY <1>1, <2>2, Multiples
  <2>6. (k + 2) * C = k * C + C + C
    BY <1>1
  <2>7. Len(s.blocks) * C \in Nat
    BY <1>1, Multiples
  <2>. QED
    BY <1>1, <2>3, <2>4, <2>5, <2>6, <2>7
<1>. QED
  BY <1>2, <1>3

\* emplace_back constructs at the place behind the last value.
LEMMA SlotIsPlace ==
  ASSUME NEW s, ListInv(s)
  PROVE  /\ Slot(s) = Place(s.size + 1)
         /\ Slot(s).block \in Nat \ {0} /\ Slot(s).block <= Len(s.blocks) + 1
         /\ Slot(s).block = s.current \/ Slot(s).block = s.current + 1
         /\ Slot(s).offset \in 0..(C - 1)
         /\ Index(Slot(s).block, Slot(s).offset) = s.size
         /\ s.size + 1 = (Slot(s).block - 1) * C + (Slot(s).offset + 1)
<1>1. /\ s.current \in Nat /\ s.offset \in 0..C /\ s.size \in Nat /\ Len(s.blocks) \in Nat
      /\ s.current <= Len(s.blocks) /\ C \in Nat /\ C > 0 /\ s.blocks \in Seq(Block)
  BY BlockAssumption DEF ListInv, ListRecord
<1>2. PICK b, o : Slot(s) = [block |-> b, offset |-> o]
  BY DEF Slot
<1>3. /\ b \in Nat \ {0} /\ b <= Len(s.blocks) + 1 /\ (b = s.current \/ b = s.current + 1)
      /\ o \in 0..(C - 1) /\ (b - 1) * C + o = s.size
  <2>1. CASE s.blocks # <<>> /\ s.offset < C
    <3>1. b = s.current /\ o = s.offset
      BY <1>2, <2>1 DEF Slot
    <3>. QED
      BY <1>1, <2>1, <3>1 DEF ListInv
  <2>2. CASE s.blocks # <<>> /\ s.offset = C
    <3>1. b = s.current + 1 /\ o = 0
      BY <1>1, <1>2, <2>2 DEF Slot
    <3>2. s.size = (s.current - 1) * C + C
      BY <2>2 DEF ListInv
    <3>3. (b - 1) * C + o = s.size
      BY <1>1, <3>1, <3>2
    <3>. QED
      BY <1>1, <3>1, <3>3
  <2>3. CASE s.blocks = <<>>
    <3>1. b = s.current + 1 /\ o = 0
      BY <1>2, <2>3 DEF Slot
    <3>2. s.current = 0 /\ s.size = 0
      BY <1>1, <2>3 DEF ListInv
    <3>. QED
      BY <1>1, <3>1, <3>2
  <2>. QED
    BY <1>1, <2>1, <2>2, <2>3
<1>4. Index(b, o) = s.size
  BY <1>3 DEF Index
<1>5. Place(s.size + 1) = [block |-> b, offset |-> o]
  BY <1>1, <1>3, <1>4, IndexPlace
<1>6. s.size + 1 = (b - 1) * C + (o + 1)
  <2>1. (b - 1) * C \in Int
    BY <1>1, <1>3
  <2>. QED
    BY <1>1, <1>3, <2>1
<1>. QED
  BY <1>2, <1>3, <1>4, <1>5, <1>6

\* pop_back destroys the last value.
LEMMA BackSlotIsPlace ==
  ASSUME NEW s, ListInv(s), s.size > 0
  PROVE  /\ BackSlot(s) = Place(s.size)
         /\ BackSlot(s).block \in 1..Len(s.blocks) /\ BackSlot(s).offset \in 0..(C - 1)
         /\ Index(BackSlot(s).block, BackSlot(s).offset) = s.size - 1
<1>1. /\ s.current \in Nat /\ s.offset \in 0..C /\ s.size \in Nat /\ Len(s.blocks) \in Nat
      /\ s.current <= Len(s.blocks) /\ C \in Nat /\ C > 0 /\ s.blocks \in Seq(Block)
  BY BlockAssumption DEF ListInv, ListRecord
<1>2. PICK b, o : BackSlot(s) = [block |-> b, offset |-> o]
  BY DEF BackSlot
<1>3. s.current >= 1 /\ s.size = (s.current - 1) * C + s.offset
  BY <1>1 DEF ListInv
<1>4. b \in 1..Len(s.blocks) /\ o \in 0..(C - 1) /\ (b - 1) * C + o = s.size - 1
  <2>1. CASE s.offset = 0
    <3>1. b = s.current - 1 /\ o = C - 1
      BY <1>2, <2>1 DEF BackSlot
    <3>2. s.current >= 2
      BY <1>1, <1>3, <2>1
    <3>3. PICK k \in Nat : s.current = k + 2
      <4>1. s.current - 2 \in Nat /\ s.current = (s.current - 2) + 2
        BY <1>1, <3>2
      <4>. QED
        BY <4>1
    <3>4. s.size = k * C + C /\ k * C \in Nat /\ b = k + 1
      BY <1>1, <1>3, <2>1, <3>1, <3>3
    <3>. QED
      BY <1>1, <3>1, <3>3, <3>4
  <2>2. CASE s.offset # 0
    <3>1. b = s.current /\ o = s.offset - 1
      BY <1>2, <2>2 DEF BackSlot
    <3>2. (s.current - 1) * C \in Int
      BY <1>1
    <3>. QED
      BY <1>1, <1>3, <2>2, <3>1, <3>2
  <2>. QED
    BY <2>1, <2>2
<1>5. Index(b, o) = s.size - 1
  BY <1>4 DEF Index
<1>6. Place(s.size) = [block |-> b, offset |-> o]
  BY <1>1, <1>4, <1>5, IndexPlace
<1>. QED
  BY <1>2, <1>4, <1>5, <1>6

\* One cell is written.
Written(bs, b, o, v) == [bs EXCEPT ![b][o] = v]

\* What it holds then, and what the others hold.
LEMMA WriteCell ==
  ASSUME NEW bs \in Seq(Block), NEW b \in 1..Len(bs), NEW o \in 0..(C - 1),
         NEW v \in Value \cup {Raw}
  PROVE  /\ Written(bs, b, o, v) \in Seq(Block) /\ Len(Written(bs, b, o, v)) = Len(bs)
         /\ \A x \in 1..Len(bs), y \in 0..(C - 1) :
              Written(bs, b, o, v)[x][y] = IF x = b /\ y = o THEN v ELSE bs[x][y]
<1>. DEFINE written == Written(bs, b, o, v)
<1>. DEFINE block == [bs[b] EXCEPT ![o] = v]
<1>1. Len(bs) \in Nat /\ DOMAIN bs = 1..Len(bs) /\ bs \in [1..Len(bs) -> Block]
  OBVIOUS
<1>2. bs[b] \in Block
  BY <1>1
<1>3. block \in Block /\ \A y \in 0..(C - 1) : block[y] = IF y = o THEN v ELSE bs[b][y]
  BY <1>2 DEF Block
<1>4. written = [bs EXCEPT ![b] = block]
  BY DEF Written
<1>. HIDE DEF block, written
<1>5. /\ written \in [1..Len(bs) -> Block]
      /\ \A x \in 1..Len(bs) : written[x] = IF x = b THEN block ELSE bs[x]
  BY <1>1, <1>3, <1>4
<1>6. written \in Seq(Block) /\ Len(written) = Len(bs)
  BY <1>1, <1>5
<1>. QED
  BY <1>3, <1>5, <1>6 DEF written

\* The place of a value is in the blocks.
LEMMA PlaceInBlocks ==
  ASSUME NEW s, ListInv(s), NEW n \in 1..s.size
  PROVE  /\ Place(n).block \in 1..Len(s.blocks) /\ Place(n).offset \in 0..(C - 1)
         /\ Place(n) = [block |-> Place(n).block, offset |-> Place(n).offset]
         /\ Index(Place(n).block, Place(n).offset) = n - 1
<1>1. s.size \in Nat /\ Len(s.blocks) \in Nat /\ C \in Nat /\ C > 0 /\ n \in Nat \ {0}
  BY BlockAssumption DEF ListInv, ListRecord
<1>2. PICK x \in Nat \ {0}, y \in 0..(C - 1) :
        /\ x = Place(n).block /\ y = Place(n).offset /\ Index(x, y) = n - 1
        /\ Place(n) = [block |-> x, offset |-> y]
  BY <1>1, PlaceIndex
<1>3. ASSUME x > Len(s.blocks) PROVE FALSE
  <2>1. Len(s.blocks) * C <= (x - 1) * C /\ Len(s.blocks) * C \in Nat /\ (x - 1) * C \in Nat
    <3>1. x - 1 \in Nat /\ Len(s.blocks) <= x - 1
      BY <1>1, <1>3
    <3>. QED
      BY <1>1, <3>1, Multiples
  <2>2. s.size <= Len(s.blocks) * C
    BY SizeBound
  <2>3. Index(x, y) = (x - 1) * C + y
    BY DEF Index
  <2>. QED
    BY <1>1, <1>2, <2>1, <2>2, <2>3
<1>. QED
  BY <1>1, <1>2, <1>3

\* emplace_back puts a value behind the others and leaves them where they are.
LEMMA EmplacedInv ==
  ASSUME NEW s, ListInv(s), NEW v \in Value
  PROVE  /\ ListInv(Emplaced(s, v))
         /\ Emplaced(s, v).size = s.size + 1
         /\ Emplaced(s, v).blocks # <<>>
         /\ Len(s.blocks) <= Len(Emplaced(s, v).blocks)
         /\ \A n \in 1..(s.size + 1) :
              ValueAt(Emplaced(s, v), Place(n)) =
                IF n = s.size + 1 THEN v ELSE ValueAt(s, Place(n))
<1>1. /\ s.size \in Nat /\ s.blocks \in Seq(Block) /\ Len(s.blocks) \in Nat
      /\ C \in Nat /\ C > 0 /\ s.current \in Nat
  BY BlockAssumption DEF ListInv, ListRecord
<1>2. PICK b \in Nat \ {0}, o \in 0..(C - 1) :
        /\ b = Slot(s).block /\ o = Slot(s).offset /\ b <= Len(s.blocks) + 1
        /\ Index(b, o) = s.size /\ s.size + 1 = (b - 1) * C + (o + 1)
        /\ Place(s.size + 1) = Slot(s)
  BY SlotIsPlace
<1>. DEFINE bs == Grown(s)
            fresh == [y \in 0..(C - 1) |-> Raw]
<1>3. /\ bs \in Seq(Block) /\ b \in 1..Len(bs) /\ Len(s.blocks) <= Len(bs) /\ Len(bs) \in Nat
      /\ \A x \in 1..Len(bs) : \/ x \in 1..Len(s.blocks) /\ bs[x] = s.blocks[x]
                               \/ x = Len(s.blocks) + 1 /\ bs[x] = fresh
  <2>1. fresh \in Block
    BY DEF Block
  <2>. HIDE DEF fresh
  <2>2. CASE b > Len(s.blocks)
    <3>1. bs = Append(s.blocks, fresh)
      BY <1>2, <2>2 DEF Grown, fresh
    <3>. QED
      BY <1>1, <1>2, <2>1, <2>2, <3>1
  <2>3. CASE b <= Len(s.blocks)
    <3>1. bs = s.blocks
      BY <1>1, <1>2, <2>3 DEF Grown
    <3>. QED
      BY <1>1, <1>2, <2>3, <3>1
  <2>4. b > Len(s.blocks) \/ b <= Len(s.blocks)
    BY <1>1
  <2>. HIDE DEF bs
  <2>. QED
    BY <2>2, <2>3, <2>4
<1>. HIDE DEF bs
<1>4. ASSUME NEW x \in 1..Len(bs), NEW y \in 0..(C - 1)
      PROVE  bs[x][y] # Raw <=> Index(x, y) < s.size
  <2>1. CASE x \in 1..Len(s.blocks) /\ bs[x] = s.blocks[x]
    BY <2>1 DEF ListInv
  <2>2. CASE x = Len(s.blocks) + 1 /\ bs[x] = fresh
    <3>1. s.size <= Len(s.blocks) * C /\ Len(s.blocks) * C \in Nat
      BY <1>1, SizeBound, Multiples
    <3>2. Index(x, y) = Len(s.blocks) * C + y
      BY <1>1, <2>2 DEF Index
    <3>. QED
      BY <1>1, <2>2, <3>1, <3>2
  <2>. QED
    BY <1>3, <2>1, <2>2
<1>. DEFINE written == Written(bs, b, o, v)
            t == Emplaced(s, v)
<1>5. t = [blocks |-> written, current |-> b, offset |-> o + 1, size |-> s.size + 1]
  BY <1>2 DEF Emplaced, bs, Written
<1>6. /\ written \in Seq(Block) /\ Len(written) = Len(bs)
      /\ \A x \in 1..Len(bs), y \in 0..(C - 1) :
           written[x][y] = IF x = b /\ y = o THEN v ELSE bs[x][y]
  BY <1>3, WriteCell
<1>. HIDE DEF written, t, fresh
<1>7. t.blocks = written /\ t.current = b /\ t.offset = o + 1 /\ t.size = s.size + 1
  BY <1>5
<1>8. written # <<>>
  BY <1>3, <1>6
<1>9. ASSUME NEW x \in 1..Len(bs), NEW y \in 0..(C - 1)
      PROVE  written[x][y] # Raw <=> Index(x, y) < s.size + 1
  <2>1. CASE x = b /\ y = o
    <3>1. written[x][y] = v /\ v # Raw
      BY <1>6, <2>1, BlockAssumption
    <3>2. Index(x, y) = s.size
      BY <1>2, <2>1
    <3>. QED
      BY <1>1, <3>1, <3>2
  <2>2. CASE ~(x = b /\ y = o)
    <3>1. Index(x, y) # s.size
      BY <1>2, <2>2, IndexUnique
    <3>2. Index(x, y) \in Int
      <4>1. (x - 1) * C \in Int
        BY <1>1, <1>3
      <4>. QED
        BY <1>1, <4>1 DEF Index
    <3>. QED
      BY <1>1, <1>4, <1>6, <2>2, <3>1, <3>2
  <2>. QED
    BY <2>1, <2>2
<1>10. t \in ListRecord
  <2>1. o + 1 \in 0..C /\ s.size + 1 \in Nat /\ b \in Nat
    BY <1>1
  <2>. QED
    BY <1>5, <1>6, <2>1 DEF ListRecord
<1>11. ListInv(t)
  BY <1>1, <1>2, <1>3, <1>6, <1>7, <1>8, <1>9, <1>10 DEF ListInv
<1>12. ASSUME NEW n \in 1..(s.size + 1)
       PROVE  ValueAt(t, Place(n)) = IF n = s.size + 1 THEN v ELSE ValueAt(s, Place(n))
  <2>1. CASE n = s.size + 1
    <3>1. Place(n).block = b /\ Place(n).offset = o
      BY <1>2, <2>1
    <3>. QED
      BY <1>3, <1>6, <1>7, <2>1, <3>1 DEF ValueAt
  <2>2. CASE n # s.size + 1
    <3>1. PICK x \in Nat \ {0}, y \in 0..(C - 1) :
            x = Place(n).block /\ y = Place(n).offset /\ Index(x, y) = n - 1
      BY <1>1, PlaceIndex
    <3>2. Index(x, y) < s.size
      BY <1>1, <2>2, <3>1
    <3>3. x \in 1..Len(s.blocks)
      <4>1. n \in 1..s.size
        BY <1>1, <2>2
      <4>. QED
        BY <3>1, <4>1, PlaceInBlocks
    <3>4. ~(x = b /\ y = o)
      BY <1>2, <3>2, <1>1
    <3>5. x \in 1..Len(bs) /\ bs[x] = s.blocks[x]
      BY <1>1, <1>3, <3>3
    <3>6. written[x][y] = s.blocks[x][y]
      BY <1>6, <3>4, <3>5
    <3>. QED
      BY <1>7, <2>2, <3>1, <3>6 DEF ValueAt
  <2>. QED
    BY <2>1, <2>2
<1>. QED
  BY <1>3, <1>6, <1>7, <1>8, <1>11, <1>12 DEF t

\* pop_back takes the last value away and leaves the others where they are.
LEMMA PoppedInv ==
  ASSUME NEW s, ListInv(s), s.size > 0
  PROVE  /\ ListInv(Popped(s))
         /\ Popped(s).size = s.size - 1
         /\ Len(Popped(s).blocks) = Len(s.blocks)
         /\ \A n \in 1..(s.size - 1) : ValueAt(Popped(s), Place(n)) = ValueAt(s, Place(n))
<1>1. /\ s.size \in Nat /\ s.blocks \in Seq(Block) /\ Len(s.blocks) \in Nat
      /\ C \in Nat /\ C > 0
  BY BlockAssumption DEF ListInv, ListRecord
<1>2. PICK b \in 1..Len(s.blocks), o \in 0..(C - 1) :
        /\ b = BackSlot(s).block /\ o = BackSlot(s).offset
        /\ Index(b, o) = s.size - 1
  BY BackSlotIsPlace
<1>. DEFINE written == Written(s.blocks, b, o, Raw)
            t == Popped(s)
<1>3. t = [blocks |-> written, current |-> b, offset |-> o, size |-> s.size - 1]
  BY <1>2 DEF Popped, Written
<1>4. /\ written \in Seq(Block) /\ Len(written) = Len(s.blocks)
      /\ \A x \in 1..Len(s.blocks), y \in 0..(C - 1) :
           written[x][y] = IF x = b /\ y = o THEN Raw ELSE s.blocks[x][y]
  BY <1>1, WriteCell
<1>. HIDE DEF written, t
<1>5. t.blocks = written /\ t.current = b /\ t.offset = o /\ t.size = s.size - 1
  BY <1>3
<1>6. written # <<>>
  BY <1>1, <1>2, <1>4
<1>7. ASSUME NEW x \in 1..Len(s.blocks), NEW y \in 0..(C - 1)
      PROVE  written[x][y] # Raw <=> Index(x, y) < s.size - 1
  <2>1. CASE x = b /\ y = o
    <3>1. written[x][y] = Raw /\ Index(x, y) = s.size - 1
      BY <1>2, <1>4, <2>1
    <3>. QED
      BY <1>1, <3>1
  <2>2. CASE ~(x = b /\ y = o)
    <3>1. Index(x, y) # s.size - 1
      BY <1>1, <1>2, <2>2, IndexUnique
    <3>2. Index(x, y) \in Int
      <4>1. (x - 1) * C \in Int
        BY <1>1
      <4>. QED
        BY <1>1, <4>1 DEF Index
    <3>3. s.blocks[x][y] # Raw <=> Index(x, y) < s.size
      BY DEF ListInv
    <3>4. written[x][y] = s.blocks[x][y]
      BY <1>4, <2>2
    <3>. QED
      BY <1>1, <3>1, <3>2, <3>3, <3>4
  <2>. QED
    BY <2>1, <2>2
<1>8. t \in ListRecord
  <2>1. o \in 0..C /\ b \in Nat
    BY <1>1
  <2>2. s.size - 1 \in Nat
    BY <1>1
  <2>. QED
    BY <1>3, <1>4, <2>1, <2>2 DEF ListRecord
<1>9. ListInv(t)
  <2>1. t.size = (t.current - 1) * C + t.offset
    BY <1>2, <1>5 DEF Index
  <2>2. t.current >= 1 /\ t.current <= Len(t.blocks) /\ t.blocks # <<>>
    BY <1>1, <1>4, <1>5, <1>6
  <2>. QED
    BY <1>4, <1>5, <1>7, <1>8, <2>1, <2>2 DEF ListInv
<1>10. ASSUME NEW n \in 1..(s.size - 1)
       PROVE  ValueAt(t, Place(n)) = ValueAt(s, Place(n))
  <2>1. n \in 1..s.size
    BY <1>1
  <2>2. PICK x \in 1..Len(s.blocks), y \in 0..(C - 1) :
          x = Place(n).block /\ y = Place(n).offset /\ Index(x, y) = n - 1
    BY <2>1, PlaceInBlocks
  <2>3. ~(x = b /\ y = o)
    BY <1>1, <1>2, <2>2
  <2>. QED
    BY <1>4, <1>5, <2>2, <2>3 DEF ValueAt
<1>. QED
  BY <1>4, <1>5, <1>9, <1>10 DEF t

---------------------------------------------------------------------------------
(* Iterators. *)

\* The iterator i of s stands for the n-th value: it points to its cell, or behind the
\* last cell of the block before.
StandsFor(s, i, n) ==
  /\ i \in [block : 1..Len(s.blocks), offset : 0..C]
  /\ n = (i.block - 1) * C + i.offset + 1

\* An iterator inside its block points to the place of the value it stands for.
LEMMA InsideIsPlace ==
  ASSUME NEW s, ListInv(s), NEW n, NEW i, StandsFor(s, i, n), i.offset # C
  PROVE  n \in Nat \ {0} /\ i = Place(n)
<1>1. PICK b \in Nat \ {0}, o \in 0..(C - 1) : i = [block |-> b, offset |-> o]
  BY BlockAssumption DEF StandsFor
<1>2. n = (b - 1) * C + o + 1
  BY <1>1 DEF StandsFor
<1>3. (b - 1) * C \in Nat
  BY BlockAssumption, Multiples
<1>4. n \in Nat \ {0} /\ Index(b, o) = n - 1
  BY <1>2, <1>3, BlockAssumption DEF Index
<1>. QED
  BY <1>1, <1>4, IndexPlace

\* Whatever it points to, it is at a value its list has only if a block follows.
LEMMA BehindBlock ==
  ASSUME NEW s, ListInv(s), NEW n, NEW i, StandsFor(s, i, n), i.offset = C
  PROVE  /\ n \in Nat /\ n >= 2 /\ n = i.block * C + 1
         /\ n <= s.size => i.block < Len(s.blocks)
<1>1. PICK b \in Nat \ {0} : i = [block |-> b, offset |-> C] /\ b <= Len(s.blocks)
  BY DEF StandsFor
<1>2. C \in Nat /\ C > 0 /\ s.size \in Nat
  BY BlockAssumption DEF ListInv, ListRecord
<1>3. n = b * C + 1
  <2>1. PICK k \in Nat : b = k + 1
    <3>1. b - 1 \in Nat /\ b = (b - 1) + 1
      OBVIOUS
    <3>. QED
      BY <3>1
  <2>2. n = k * C + C + 1
    BY <1>1, <2>1 DEF StandsFor
  <2>3. b * C = k * C + C /\ k * C \in Nat
    BY <1>2, <2>1
  <2>. QED
    BY <1>2, <2>2, <2>3
<1>4. b * C \in Nat /\ 1 * C <= b * C
  BY Multiples
<1>5. s.size <= Len(s.blocks) * C
  BY SizeBound
<1>. QED
  BY <1>1, <1>2, <1>3, <1>4, <1>5

\* operator--.
LEMMA DecrementedPlace ==
  ASSUME NEW s, ListInv(s), NEW n \in Nat, NEW i, StandsFor(s, i, n), n >= 2
  PROVE  /\ Decremented(i) = Place(n - 1)
         /\ Decremented(i) \in [block : 1..i.block, offset : 0..(C - 1)]
<1>1. PICK b \in Nat \ {0}, o \in 0..C : i = [block |-> b, offset |-> o]
  BY DEF StandsFor
<1>2. n - 1 = (b - 1) * C + o /\ C \in Nat /\ C > 0
  BY <1>1, BlockAssumption DEF StandsFor
<1>3. PICK k \in Nat : b = k + 1
  <2>1. b - 1 \in Nat /\ b = (b - 1) + 1
    OBVIOUS
  <2>. QED
    BY <2>1
<1>4. n - 1 = k * C + o /\ k * C \in Nat
  BY <1>2, <1>3
<1>5. CASE o = 0 /\ b > 1
  <2>1. Decremented(i) = [block |-> b - 1, offset |-> C - 1]
    BY <1>1, <1>5 DEF Decremented
  <2>2. PICK j \in Nat : k = j + 1
    <3>1. k - 1 \in Nat /\ k = (k - 1) + 1
      BY <1>3, <1>5
    <3>. QED
      BY <3>1
  <2>3. n - 1 = j * C + C /\ j * C \in Nat
    BY <1>2, <1>4, <1>5, <2>2
  <2>4. b - 1 \in Nat \ {0} /\ C - 1 \in 0..(C - 1) /\ n - 1 \in Nat \ {0} /\ b - 1 - 1 = j
    BY <1>2, <1>3, <1>5, <2>2
  <2>5. Index(b - 1, C - 1) = n - 1 - 1
    BY <1>2, <2>3, <2>4 DEF Index
  <2>6. Place(n - 1) = [block |-> b - 1, offset |-> C - 1]
    BY <2>4, <2>5, IndexPlace
  <2>. QED
    BY <1>1, <2>1, <2>4, <2>6
<1>6. CASE ~(o = 0 /\ b > 1)
  <2>1. Decremented(i) = [block |-> b, offset |-> o - 1]
    BY <1>1, <1>6 DEF Decremented
  <2>2. o >= 1
    <3>1. o = 0 => k = 0 /\ k * C = 0
      BY <1>2, <1>3, <1>6
    <3>. QED
      BY <1>4, <3>1
  <2>3. o - 1 \in 0..(C - 1) /\ n - 1 \in Nat \ {0}
    BY <1>2, <2>2
  <2>4. Index(b, o - 1) = n - 1 - 1
    BY <1>2, <1>3, <1>4, <2>2 DEF Index
  <2>5. Place(n - 1) = [block |-> b, offset |-> o - 1]
    BY <2>3, <2>4, IndexPlace
  <2>. QED
    BY <1>1, <2>1, <2>3, <2>5
<1>. QED
  BY <1>5, <1>6

\* operator++: to the next value's place, or behind the last block there is.
LEMMA IncrementedPlace ==
  ASSUME NEW s, ListInv(s), NEW n \in Nat \ {0}, Place(n).block \in 1..Len(s.blocks)
  PROVE  /\ Incremented(s, Place(n)) = IF n = Len(s.blocks) * C
                                       THEN [block |-> Len(s.blocks), offset |-> C]
                                       ELSE Place(n + 1)
         /\ StandsFor(s, Incremented(s, Place(n)), n + 1)
         /\ n < s.size => Incremented(s, Place(n)) = Place(n + 1)
<1>1. C \in Nat /\ C > 0 /\ Len(s.blocks) \in Nat /\ s.size \in Nat /\ n + 1 \in Nat \ {0}
  BY BlockAssumption DEF ListInv, ListRecord
<1>2. PICK b \in Nat \ {0}, o \in 0..(C - 1) :
        /\ Place(n) = [block |-> b, offset |-> o] /\ b <= Len(s.blocks) /\ Index(b, o) = n - 1
  BY <1>1, PlaceIndex
<1>3. PICK k \in Nat : b = k + 1
  <2>1. b - 1 \in Nat /\ b = (b - 1) + 1
    OBVIOUS
  <2>. QED
    BY <2>1
<1>4. k * C \in Nat /\ n = k * C + o + 1
  <2>1. k * C \in Nat
    BY <1>1
  <2>2. Index(b, o) = k * C + o
    BY <1>3 DEF Index
  <2>. QED
    BY <1>1, <1>2, <2>1, <2>2
<1>5. b * C = k * C + C
  BY <1>1, <1>3
<1>6. n = Len(s.blocks) * C <=> b = Len(s.blocks) /\ o = C - 1
  <2>1. b < Len(s.blocks) => b * C + C <= Len(s.blocks) * C /\ Len(s.blocks) * C \in Nat
    <3>1. b < Len(s.blocks) => (b + 1) * C <= Len(s.blocks) * C /\ Len(s.blocks) * C \in Nat
      BY <1>1, Multiples
    <3>2. (b + 1) * C = b * C + C
      BY <1>1
    <3>. QED
      BY <3>1, <3>2
  <2>2. b < Len(s.blocks) => n < Len(s.blocks) * C
    BY <1>1, <1>4, <1>5, <2>1
  <2>3. b = Len(s.blocks) => (n = Len(s.blocks) * C <=> o = C - 1)
    BY <1>1, <1>4, <1>5
  <2>. QED
    BY <1>1, <1>2, <1>4, <2>1, <2>2, <2>3
<1>7. CASE o = C - 1 /\ b < Len(s.blocks)
  <2>1. Incremented(s, Place(n)) = [block |-> b + 1, offset |-> 0]
    BY <1>1, <1>2, <1>7 DEF Incremented
  <2>2. Index(b + 1, 0) = n + 1 - 1 /\ 0 \in 0..(C - 1) /\ b + 1 \in Nat \ {0}
    BY <1>1, <1>4, <1>5, <1>7 DEF Index
  <2>3. Place(n + 1) = [block |-> b + 1, offset |-> 0]
    BY <1>1, <2>2, IndexPlace
  <2>4. StandsFor(s, [block |-> b + 1, offset |-> 0], n + 1)
    BY <1>1, <1>4, <1>5, <1>7 DEF StandsFor
  <2>. QED
    BY <1>1, <1>6, <1>7, <2>1, <2>3, <2>4
<1>8. CASE o # C - 1
  <2>1. Incremented(s, Place(n)) = [block |-> b, offset |-> o + 1]
    BY <1>1, <1>2, <1>8 DEF Incremented
  <2>2. Index(b, o + 1) = n + 1 - 1 /\ o + 1 \in 0..(C - 1)
    BY <1>1, <1>3, <1>4, <1>8 DEF Index
  <2>3. Place(n + 1) = [block |-> b, offset |-> o + 1]
    BY <1>1, <2>2, IndexPlace
  <2>4. StandsFor(s, [block |-> b, offset |-> o + 1], n + 1)
    BY <1>1, <1>2, <1>3, <1>4, <2>2 DEF StandsFor
  <2>. QED
    BY <1>6, <1>8, <2>1, <2>3, <2>4
<1>9. CASE o = C - 1 /\ ~(b < Len(s.blocks))
  <2>1. b = Len(s.blocks)
    BY <1>1, <1>2, <1>9
  <2>2. Incremented(s, Place(n)) = [block |-> b, offset |-> C]
    BY <1>1, <1>2, <1>9 DEF Incremented
  <2>3. StandsFor(s, [block |-> b, offset |-> C], n + 1)
    BY <1>1, <1>2, <1>3, <1>4, <1>9 DEF StandsFor
  <2>4. s.size <= n
    <3>1. s.size <= Len(s.blocks) * C
      BY SizeBound
    <3>. QED
      BY <1>6, <1>9, <2>1, <3>1
  <2>. QED
    BY <1>1, <1>6, <1>9, <2>1, <2>2, <2>3, <2>4
<1>. QED
  BY <1>1, <1>7, <1>8, <1>9

\* repoint_iterator moves an iterator to its value, when the list has it again.
LEMMA RepointedPlace ==
  ASSUME NEW s, ListInv(s), NEW n \in Nat, NEW i, StandsFor(s, i, n)
  PROVE  /\ StandsFor(s, Repointed(s, i), n)
         /\ n <= s.size => Repointed(s, i) = Place(n)
<1>1. i.block \in 1..Len(s.blocks) /\ i.offset \in 0..C /\ Len(s.blocks) \in Nat /\ s.size \in Nat
  BY DEF StandsFor, ListInv, ListRecord
<1>2. CASE i.offset # C
  <2>1. Repointed(s, i) = i
    BY <1>1, <1>2 DEF Repointed
  <2>. QED
    BY <1>2, <2>1, InsideIsPlace
<1>3. CASE i.offset = C
  <2>1. n >= 2 /\ n - 1 \in Nat \ {0} /\ n - 1 + 1 = n
    BY <1>3, BehindBlock
  <2>2. Decremented(i) = Place(n - 1) /\ Decremented(i).block \in 1..i.block
    BY <2>1, DecrementedPlace
  <2>3. Place(n - 1).block \in 1..Len(s.blocks)
    BY <1>1, <2>2
  <2>4. Repointed(s, i) = Incremented(s, Place(n - 1))
    BY <1>1, <1>3, <2>2 DEF Repointed
  <2>5. /\ StandsFor(s, Incremented(s, Place(n - 1)), n)
        /\ n - 1 < s.size => Incremented(s, Place(n - 1)) = Place(n)
    BY <2>1, <2>3, IncrementedPlace
  <2>. QED
    BY <1>1, <2>1, <2>4, <2>5
<1>. QED
  BY <1>2, <1>3

\* begin() and end() of a list with blocks.
LEMMA EndsStand ==
  ASSUME NEW s, ListInv(s), s.blocks # <<>>
  PROVE  /\ BeginIt(s) = Place(1) /\ StandsFor(s, BeginIt(s), 1) /\ BeginIt(s).offset # C
         /\ StandsFor(s, EndIt(s), s.size + 1)
<1>1. /\ C \in Nat /\ C > 0 /\ s.blocks \in Seq(Block) /\ Len(s.blocks) \in Nat /\ Len(s.blocks) >= 1
      /\ s.current \in 1..Len(s.blocks) /\ s.offset \in 0..C
      /\ s.size = (s.current - 1) * C + s.offset
  BY BlockAssumption DEF ListInv, ListRecord
<1>2. BeginIt(s) = [block |-> 1, offset |-> 0]
  BY DEF BeginIt
<1>3. Index(1, 0) = 0 /\ 0 \in 0..(C - 1)
  BY <1>1 DEF Index
<1>4. Place(1) = [block |-> 1, offset |-> 0]
  BY <1>3, IndexPlace
<1>5. StandsFor(s, [block |-> 1, offset |-> 0], 1)
  BY <1>1 DEF StandsFor
<1>6. StandsFor(s, EndIt(s), s.size + 1)
  BY <1>1 DEF StandsFor, EndIt
<1>. QED
  BY <1>1, <1>2, <1>4, <1>5, <1>6

---------------------------------------------------------------------------------
(* The lists and the iterator held. *)

ListsInv == lists \in [List -> ListRecord] /\ \A l \in List : ListInv(lists[l])

\* The iterator is null, and then the first of its list, or stands for a value of it; when
\* it was taken, moved or repointed to one, it points to its cell.
ItInv ==
  /\ home \in List /\ valued \in BOOLEAN
  /\ \/ it = NullIt /\ nth \in {0, 1} /\ ~valued
     \/ nth \in Nat \ {0} /\ StandsFor(lists[home], it, nth) /\ (valued => it.offset # C)

Inv == ListsInv /\ ItInv

\* Empty lists and no iterator satisfy the invariant, ...
LEMMA InitInv == Init => Inv
<1>. SUFFICES ASSUME Init PROVE Inv
  OBVIOUS
<1>1. lists = [l \in List |-> EmptyList] /\ it = NullIt /\ home \in List /\ nth = 0 /\ valued = FALSE
  BY DEF Init
<1>2. ListInv(EmptyList) /\ EmptyList \in ListRecord
  BY EmptyListInv DEF ListInv
<1>3. ListsInv
  BY <1>1, <1>2 DEF ListsInv
<1>4. ItInv
  BY <1>1 DEF ItInv
<1>. QED
  BY <1>3, <1>4 DEF Inv

\* A list changes, and keeps its blocks.
LEMMA ChangeInv ==
  ASSUME Inv, NEW l \in List, NEW t, ListInv(t), Len(lists[l].blocks) <= Len(t.blocks),
         lists' = [lists EXCEPT ![l] = t], UNCHANGED held
  PROVE  Inv'
<1>1. t \in ListRecord
  BY DEF ListInv
<1>2. ListsInv'
  BY <1>1 DEF Inv, ListsInv
<1>3. /\ Len(lists[home].blocks) \in Nat /\ Len(lists'[home].blocks) \in Nat
      /\ Len(lists[home].blocks) <= Len(lists'[home].blocks)
  <2>1. \A m \in List : Len(lists[m].blocks) \in Nat
    BY SizeBound DEF Inv, ListsInv
  <2>2. home \in List /\ lists'[home] = IF home = l THEN t ELSE lists[home]
    BY DEF Inv, ItInv, ListsInv
  <2>3. Len(t.blocks) \in Nat
    BY SizeBound
  <2>. QED
    BY <2>1, <2>2, <2>3
<1>4. StandsFor(lists[home], it, nth) => StandsFor(lists'[home], it, nth)
  BY <1>3 DEF StandsFor
<1>5. ItInv'
  BY <1>4 DEF Inv, ItInv, held, StandsFor
<1>. QED
  BY <1>2, <1>5 DEF Inv

\* An iterator is taken that is null, or stands for the value it is to stand for.
LEMMA HoldInv ==
  ASSUME Inv, NEW l \in List, NEW i, NEW n \in Nat \ {0}, Hold(l, i, n),
         \/ i = NullIt /\ n = 1 /\ lists[l].size = 0
         \/ StandsFor(lists[l], i, n) /\ (n <= lists[l].size => i.offset # C)
  PROVE  Inv'
<1>1. /\ it' = i /\ home' = l /\ nth' = n /\ lists' = lists
      /\ valued' = (n <= lists[l].size)
  BY DEF Hold
<1>2. lists[l].size \in Nat
  BY DEF Inv, ListsInv, ListInv, ListRecord
<1>3. valued' \in BOOLEAN /\ (valued' <=> n <= lists[l].size)
  <2>1. (n <= lists[l].size) \in BOOLEAN
    BY <1>2
  <2>2. valued' \in BOOLEAN
    BY <1>1, <2>1, Zenon
  <2>3. valued' <=> n <= lists[l].size
    BY <1>1, Zenon
  <2>. QED
    BY <2>2, <2>3
<1>4. ItInv'
  BY <1>1, <1>2, <1>3 DEF ItInv, StandsFor
<1>5. ListsInv'
  BY <1>1 DEF Inv, ListsInv
<1>. QED
  BY <1>4, <1>5 DEF Inv

\* begin(), and a null iterator repointed.
LEMMA BeginInv ==
  ASSUME Inv, NEW l \in List, Hold(l, BeginIt(lists[l]), 1)
  PROVE  Inv'
<1>1. ListInv(lists[l])
  BY DEF Inv, ListsInv
<1>2. CASE lists[l].blocks = <<>>
  <2>1. BeginIt(lists[l]) = NullIt /\ lists[l].size = 0
    BY <1>1, <1>2 DEF BeginIt, NullIt, ListInv
  <2>. QED
    BY <2>1, HoldInv
<1>3. CASE lists[l].blocks # <<>>
  <2>1. StandsFor(lists[l], BeginIt(lists[l]), 1) /\ BeginIt(lists[l]).offset # C
    BY <1>1, <1>3, EndsStand
  <2>. QED
    BY <2>1, HoldInv
<1>. QED
  BY <1>2, <1>3

\* ... and every operation of block_list.hpp keeps it.
LEMMA NextInv == Inv /\ [Next]_vars => Inv'
<1>. SUFFICES ASSUME Inv, [Next]_vars PROVE Inv'
  OBVIOUS
<1>1. \A l \in List : ListInv(lists[l]) /\ lists[l].size \in Nat
  BY DEF Inv, ListsInv, ListInv, ListRecord
<1>2. ASSUME NEW l \in List, NEW v \in Value, Emplace_back(l, v) PROVE Inv'
  <2>1. lists' = [lists EXCEPT ![l] = Emplaced(lists[l], v)] /\ UNCHANGED held
    BY <1>2 DEF Emplace_back
  <2>2. ListInv(Emplaced(lists[l], v)) /\ Len(lists[l].blocks) <= Len(Emplaced(lists[l], v).blocks)
    BY <1>1, EmplacedInv
  <2>. QED
    BY <2>1, <2>2, ChangeInv
<1>3. ASSUME NEW l \in List, Pop_back(l) PROVE Inv'
  <2>1. lists[l].size > 0 /\ lists' = [lists EXCEPT ![l] = Popped(lists[l])] /\ UNCHANGED held
    BY <1>3 DEF Pop_back
  <2>2. /\ ListInv(Popped(lists[l])) /\ Len(Popped(lists[l]).blocks) = Len(lists[l].blocks)
        /\ Len(lists[l].blocks) \in Nat
    BY <1>1, <2>1, PoppedInv, SizeBound
  <2>3. Len(lists[l].blocks) <= Len(Popped(lists[l]).blocks)
    BY <2>2
  <2>. QED
    BY <2>1, <2>2, <2>3, ChangeInv
<1>4. ASSUME NEW l \in List, Destroy(l) PROVE Inv'
  <2>1. ListInv(EmptyList) /\ EmptyList \in ListRecord
    BY EmptyListInv DEF ListInv
  <2>2. ListsInv'
    BY <1>4, <2>1 DEF Destroy, Inv, ListsInv
  <2>3. CASE home = l /\ it # NullIt
    BY <1>4, <2>2, <2>3 DEF Destroy, Inv, ItInv
  <2>4. CASE it = NullIt
    BY <1>4, <2>2, <2>4 DEF Destroy, Inv, ItInv, held, NullIt, StandsFor
  <2>5. CASE home # l
    <3>1. lists'[home] = lists[home] /\ UNCHANGED held
      BY <1>4, <2>5 DEF Destroy, Inv, ListsInv, ItInv
    <3>. QED
      BY <2>2, <3>1 DEF Inv, ItInv, held, StandsFor
  <2>. QED
    BY <2>2, <2>3, <2>4, <2>5 DEF Inv
<1>5. ASSUME NEW l \in List, NEW m \in List, Swap(l, m) PROVE Inv'
  <2>1. /\ l # m /\ lists' = [lists EXCEPT ![l] = lists[m], ![m] = lists[l]]
        /\ home' = CASE home = l -> m [] home = m -> l [] OTHER -> home
        /\ UNCHANGED <<it, nth, valued>>
    BY <1>5 DEF Swap
  <2>2. ListsInv'
    BY <2>1 DEF Inv, ListsInv
  <2>3. home' \in List /\ lists'[home'] = lists[home]
    BY <2>1 DEF Inv, ItInv, ListsInv
  <2>4. ItInv'
    BY <2>1, <2>3 DEF Inv, ItInv, StandsFor
  <2>. QED
    BY <2>2, <2>4 DEF Inv
<1>6. ASSUME NEW l \in List, Begin(l) PROVE Inv'
  BY <1>6, BeginInv DEF Begin
<1>7. ASSUME NEW l \in List, End(l) PROVE Inv'
  <2>1. Hold(l, EndIt(lists[l]), lists[l].size + 1) /\ lists[l].size + 1 \in Nat \ {0}
    BY <1>1, <1>7 DEF End
  <2>2. CASE lists[l].blocks = <<>>
    <3>1. EndIt(lists[l]) = NullIt /\ lists[l].size = 0
      BY <1>1, <2>2 DEF EndIt, NullIt, ListInv, ListRecord
    <3>. QED
      BY <2>1, <3>1, HoldInv
  <2>3. CASE lists[l].blocks # <<>>
    <3>1. StandsFor(lists[l], EndIt(lists[l]), lists[l].size + 1)
      BY <1>1, <2>3, EndsStand
    <3>2. ~(lists[l].size + 1 <= lists[l].size)
      BY <1>1
    <3>. QED
      BY <2>1, <3>1, <3>2, HoldInv
  <2>. QED
    BY <2>2, <2>3
<1>8. CASE Increment
  <2>1. /\ valued /\ home \in List /\ nth \in Nat \ {0} /\ nth + 1 \in Nat \ {0}
        /\ StandsFor(lists[home], it, nth) /\ it.offset # C
        /\ Hold(home, Incremented(lists[home], it), nth + 1)
    BY <1>8 DEF Increment, Inv, ItInv
  <2>2. it = Place(nth) /\ it.block \in 1..Len(lists[home].blocks)
    BY <1>1, <2>1, InsideIsPlace DEF StandsFor
  <2>3. /\ StandsFor(lists[home], Incremented(lists[home], it), nth + 1)
        /\ nth < lists[home].size => Incremented(lists[home], it) = Place(nth + 1)
    BY <1>1, <2>1, <2>2, IncrementedPlace
  <2>4. nth + 1 <= lists[home].size => Incremented(lists[home], it).offset # C
    <3>1. Place(nth + 1).offset # C
      BY <2>1, PlaceIndex, BlockAssumption
    <3>. QED
      BY <1>1, <2>1, <2>3, <3>1
  <2>. QED
    BY <2>1, <2>3, <2>4, HoldInv
<1>9. CASE Decrement
  <2>1. /\ home \in List /\ nth \in Nat /\ nth >= 2 /\ nth - 1 \in Nat \ {0}
        /\ StandsFor(lists[home], it, nth)
        /\ Hold(home, Decremented(it), nth - 1)
    BY <1>1, <1>9 DEF Decrement, Inv, ItInv
  <2>2. /\ Decremented(it) = Place(nth - 1)
        /\ Decremented(it) \in [block : 1..it.block, offset : 0..(C - 1)]
    BY <1>1, <2>1, DecrementedPlace
  <2>3. /\ nth - 1 = (Decremented(it).block - 1) * C + Decremented(it).offset + 1
    <3>1. Index(Decremented(it).block, Decremented(it).offset) = nth - 1 - 1
      BY <2>1, <2>2, PlaceIndex
    <3>2. (Decremented(it).block - 1) * C \in Int /\ Decremented(it).offset \in Int
      BY <2>1, <2>2, BlockAssumption DEF StandsFor
    <3>. QED
      BY <2>1, <3>1, <3>2 DEF Index
  <2>4. StandsFor(lists[home], Decremented(it), nth - 1) /\ Decremented(it).offset # C
    <3>1. it.block \in 1..Len(lists[home].blocks) /\ C \in Nat
      BY <2>1, BlockAssumption DEF StandsFor
    <3>2. Decremented(it) \in [block : 1..Len(lists[home].blocks), offset : 0..C]
      BY <2>2, <3>1
    <3>. QED
      BY <2>2, <2>3, <3>1, <3>2 DEF StandsFor
  <2>. QED
    BY <2>1, <2>4, HoldInv
<1>10. ASSUME NEW l \in List, Repoint_iterator(l) PROVE Inv'
  <2>1. /\ nth > 0 /\ (l = home \/ it.block = 0)
        /\ Hold(l, Repointed(lists[l], it), nth)
    BY <1>10 DEF Repoint_iterator
  <2>2. CASE it = NullIt
    <3>1. nth = 1 /\ Repointed(lists[l], it) = BeginIt(lists[l])
      BY <2>1, <2>2 DEF Inv, ItInv, NullIt, StandsFor, Repointed
    <3>. QED
      BY <2>1, <3>1, BeginInv
  <2>3. CASE it # NullIt
    <3>1. /\ nth \in Nat \ {0} /\ StandsFor(lists[home], it, nth) /\ l = home
      BY <2>1, <2>3 DEF Inv, ItInv, StandsFor
    <3>2. /\ StandsFor(lists[l], Repointed(lists[l], it), nth)
          /\ nth <= lists[l].size => Repointed(lists[l], it) = Place(nth)
      BY <1>1, <3>1, RepointedPlace
    <3>3. Place(nth).offset # C
      BY <3>1, PlaceIndex, BlockAssumption
    <3>. QED
      BY <2>1, <3>1, <3>2, <3>3, HoldInv
  <2>. QED
    BY <2>2, <2>3
<1>11. CASE UNCHANGED vars
  BY <1>11 DEF vars, held, Inv, ListsInv, ItInv, StandsFor
<1>. QED
  BY <1>2, <1>3, <1>4, <1>5, <1>6, <1>7, <1>8, <1>9, <1>10, <1>11 DEF Next

\* Inv is invariant.
THEOREM BlockListInv == Spec => []Inv
<1>. QED
  BY InitInv, NextInv, PTL DEF Spec

---------------------------------------------------------------------------------
(* What follows from it. *)

\* The cells with values are those data_size counts.
LEMMA ListInvOK ==
  ASSUME NEW s, ListInv(s)
  PROVE  ListOK(s)
<1>1. /\ s.size \in Nat /\ s.blocks \in Seq(Block) /\ Len(s.blocks) \in Nat
      /\ s.current \in 0..Len(s.blocks) /\ s.offset \in 0..C /\ C \in Nat /\ C > 0
  BY BlockAssumption DEF ListInv, ListRecord
<1>2. ASSUME NEW p \in Constructed(s) PROVE p \in Deconstructed(s)
  <2>1. PICK b \in 1..Len(s.blocks), o \in 0..(C - 1) :
          p = [block |-> b, offset |-> o] /\ s.blocks[b][o] # Raw
    BY DEF Constructed
  <2>2. Index(b, o) < s.size
    BY <2>1 DEF ListInv
  <2>3. Index(b, o) \in Nat
    <3>1. b - 1 \in Nat /\ b - 1 <= b - 1
      BY <1>1
    <3>2. (b - 1) * C \in Nat
      BY <3>1, Multiples
    <3>. QED
      BY <1>1, <3>2 DEF Index
  <2>4. PICK n \in 1..s.size : Index(b, o) = n - 1
    <3>1. Index(b, o) + 1 \in 1..s.size /\ Index(b, o) = (Index(b, o) + 1) - 1
      BY <1>1, <2>2, <2>3
    <3>. QED
      BY <3>1
  <2>5. Place(n) = p
    BY <1>1, <2>1, <2>4, IndexPlace
  <2>. QED
    BY <2>5 DEF Deconstructed
<1>3. ASSUME NEW n \in 1..s.size PROVE Place(n) \in Constructed(s)
  <2>1. PICK b \in 1..Len(s.blocks), o \in 0..(C - 1) :
          Place(n) = [block |-> b, offset |-> o] /\ Index(b, o) = n - 1
    BY PlaceInBlocks
  <2>2. s.blocks[b][o] # Raw
    BY <1>1, <2>1 DEF ListInv
  <2>. QED
    BY <2>1, <2>2 DEF Constructed
<1>4. Constructed(s) = Deconstructed(s)
  BY <1>2, <1>3 DEF Deconstructed
<1>. QED
  BY <1>1, <1>4 DEF ListOK, Block

\* Destructors find all values and nothing else.
THEOREM BlockListTypeOK == Spec => []TypeOK
<1>1. Inv => TypeOK
  <2>. SUFFICES ASSUME Inv PROVE TypeOK
    OBVIOUS
  <2>1. \A l \in List : ListOK(lists[l])
    BY ListInvOK DEF Inv, ListsInv
  <2>2. home \in List /\ Len(lists[home].blocks) \in Nat
    BY SizeBound DEF Inv, ListsInv, ItInv
  <2>3. home \in List /\ nth \in Nat /\ valued \in BOOLEAN
    BY DEF Inv, ItInv
  <2>4. it \in [block : 0..Len(lists[home].blocks), offset : 0..C]
    BY <2>2, BlockAssumption DEF Inv, ItInv, NullIt, StandsFor
  <2>. QED
    BY <2>1, <2>3, <2>4 DEF TypeOK
<1>. QED
  BY <1>1, BlockListInv, PTL

\* An iterator points to its value whenever the list has it, and repoint_iterator finds it.
THEOREM BlockListIteratorsStable == Spec => []IteratorsStable
<1>1. Inv => IteratorsStable
  <2>. SUFFICES ASSUME Inv PROVE IteratorsStable
    OBVIOUS
  <2>1. home \in List /\ \A l \in List : ListInv(lists[l]) /\ lists[l].size \in Nat
    BY DEF Inv, ListsInv, ItInv, ListInv, ListRecord
  <2>2. ASSUME it = NullIt, nth = 1, NEW l \in List, nth <= lists[l].size
        PROVE  Repointed(lists[l], it) = Place(nth)
    <3>1. lists[l].blocks # <<>>
      BY <2>1, <2>2 DEF ListInv
    <3>2. Repointed(lists[l], it) = BeginIt(lists[l])
      BY <2>2 DEF Repointed, NullIt
    <3>. QED
      BY <2>1, <2>2, <3>1, <3>2, EndsStand
  <2>3. CASE it = NullIt
    <3>1. nth \in {0, 1} /\ ~valued
      BY <2>3 DEF Inv, ItInv, NullIt, StandsFor
    <3>. QED
      BY <2>1, <2>2, <2>3, <3>1 DEF IteratorsStable
  <2>4. CASE it # NullIt
    <3>1. nth \in Nat \ {0} /\ StandsFor(lists[home], it, nth) /\ (valued => it.offset # C)
      BY <2>4 DEF Inv, ItInv
    <3>2. it.block # 0
      BY <3>1 DEF StandsFor
    <3>3. valued => it = Place(nth)
      BY <2>1, <3>1, InsideIsPlace
    <3>4. nth <= lists[home].size => Repointed(lists[home], it) = Place(nth)
      BY <2>1, <3>1, RepointedPlace
    <3>. QED
      BY <2>1, <3>2, <3>3, <3>4 DEF IteratorsStable
  <2>. QED
    BY <2>3, <2>4
<1>. QED
  BY <1>1, BlockListInv, PTL

---------------------------------------------------------------------------------
(* The lists are stacks. *)

Contents(s) == [n \in 1..s.size |-> ValueAt(s, Place(n))]

\* All cells that hold values are values, in their order.
LEMMA ContentsSeq ==
  ASSUME NEW s, ListInv(s)
  PROVE  /\ Contents(s) \in Seq(Value) /\ Len(Contents(s)) = s.size /\ s.size \in Nat
         /\ \A n \in 1..s.size : Contents(s)[n] = ValueAt(s, Place(n))
<1>1. s.size \in Nat /\ s.blocks \in Seq(Block)
  BY DEF ListInv, ListRecord
<1>2. ASSUME NEW n \in 1..s.size PROVE ValueAt(s, Place(n)) \in Value
  <2>1. PICK b \in 1..Len(s.blocks), o \in 0..(C - 1) :
          /\ b = Place(n).block /\ o = Place(n).offset /\ Index(b, o) = n - 1
    BY PlaceInBlocks
  <2>2. s.blocks[b][o] # Raw
    BY <1>1, <2>1 DEF ListInv
  <2>3. s.blocks[b] \in Block
    BY <1>1
  <2>4. s.blocks[b][o] \in Value
    BY <2>2, <2>3 DEF Block
  <2>. QED
    BY <2>1, <2>4 DEF ValueAt
<1>3. Contents(s) \in [1..s.size -> Value]
  BY <1>2 DEF Contents
<1>4. Contents(s) \in Seq(Value) /\ Len(Contents(s)) = s.size
  BY <1>1, <1>3
<1>. QED
  BY <1>1, <1>4 DEF Contents

\* emplace_back appends.
LEMMA ContentsEmplaced ==
  ASSUME NEW s, ListInv(s), NEW v \in Value
  PROVE  Contents(Emplaced(s, v)) = Append(Contents(s), v)
<1>. DEFINE t == Emplaced(s, v)
            c == Contents(s)
            d == Contents(t)
<1>1. /\ ListInv(t) /\ t.size = s.size + 1
      /\ \A n \in 1..(s.size + 1) :
           ValueAt(t, Place(n)) = IF n = s.size + 1 THEN v ELSE ValueAt(s, Place(n))
  BY EmplacedInv
<1>. HIDE DEF t
<1>2. /\ c \in Seq(Value) /\ Len(c) = s.size /\ s.size \in Nat
      /\ \A n \in 1..s.size : c[n] = ValueAt(s, Place(n))
  BY ContentsSeq
<1>3. /\ d \in Seq(Value) /\ Len(d) = s.size + 1
      /\ \A n \in 1..(s.size + 1) : d[n] = ValueAt(t, Place(n))
  BY <1>1, ContentsSeq
<1>. HIDE DEF c, d
<1>4. /\ Append(c, v) \in Seq(Value) /\ Len(Append(c, v)) = s.size + 1
      /\ \A n \in 1..s.size : Append(c, v)[n] = c[n]
      /\ Append(c, v)[s.size + 1] = v
  BY <1>2, AppendProperties
<1>5. ASSUME NEW n \in 1..(s.size + 1) PROVE d[n] = Append(c, v)[n]
  <2>1. CASE n = s.size + 1
    BY <1>1, <1>3, <1>4, <2>1
  <2>2. CASE n # s.size + 1
    <3>1. n \in 1..s.size
      BY <1>2, <2>2
    <3>. QED
      BY <1>1, <1>2, <1>3, <1>4, <2>2, <3>1
  <2>. QED
    BY <2>1, <2>2
<1>6. d = Append(c, v)
  BY <1>3, <1>4, <1>5, SeqEqual
<1>. QED
  BY <1>6 DEF c, d, t

\* pop_back takes the last value off.
LEMMA ContentsPopped ==
  ASSUME NEW s, ListInv(s), s.size > 0
  PROVE  Contents(s) # <<>> /\ Contents(Popped(s)) = Front(Contents(s))
<1>. DEFINE t == Popped(s)
            c == Contents(s)
            d == Contents(t)
<1>1. /\ ListInv(t) /\ t.size = s.size - 1
      /\ \A n \in 1..(s.size - 1) : ValueAt(t, Place(n)) = ValueAt(s, Place(n))
  BY PoppedInv
<1>. HIDE DEF t
<1>2. /\ c \in Seq(Value) /\ Len(c) = s.size /\ s.size \in Nat
      /\ \A n \in 1..s.size : c[n] = ValueAt(s, Place(n))
  BY ContentsSeq
<1>3. /\ d \in Seq(Value) /\ Len(d) = s.size - 1
      /\ \A n \in 1..(s.size - 1) : d[n] = ValueAt(t, Place(n))
  BY <1>1, ContentsSeq
<1>. HIDE DEF c, d
<1>4. /\ Front(c) \in Seq(Value) /\ Len(Front(c)) = s.size - 1
      /\ \A n \in 1..(s.size - 1) : Front(c)[n] = c[n]
  BY <1>2 DEF Front
<1>5. \A n \in 1..(s.size - 1) : d[n] = Front(c)[n]
  BY <1>1, <1>2, <1>3, <1>4
<1>6. d = Front(c)
  BY <1>3, <1>4, <1>5, SeqEqual
<1>7. c # <<>>
  BY <1>2
<1>. QED
  BY <1>6, <1>7 DEF c, d, t

\* The lists implement stacks: a step on a list is the step on its stack, and a step of an
\* iterator changes no stack.
THEOREM BlockListImplementsStack == Spec => ImplementsStack
<1>. DEFINE stacks == [l \in List |-> Contents(lists[l])]
<1>1. Init => Stack!Init
  <2>. SUFFICES ASSUME Init PROVE Stack!Init
    OBVIOUS
  <2>1. \A l \in List : lists[l].size = 0
    BY DEF Init, EmptyList
  <2>2. \A l \in List : [n \in 1..lists[l].size |-> ValueAt(lists[l], Place(n))] = <<>>
    BY <2>1
  <2>. QED
    BY <2>2 DEF Stack!Init
<1>2. Inv /\ [Next]_vars => [Stack!Next]_stacks
  <2>. SUFFICES ASSUME Inv, [Next]_vars PROVE [Stack!Next]_stacks
    OBVIOUS
  <2>1. /\ \A l \in List : ListInv(lists[l])
        /\ DOMAIN lists = List /\ lists = [l \in List |-> lists[l]]
    BY DEF Inv, ListsInv
  <2>2. ASSUME NEW l \in List, NEW t, lists' = [lists EXCEPT ![l] = t]
        PROVE  stacks' = [stacks EXCEPT ![l] = Contents(t)]
    BY <2>1, <2>2
  <2>3. ASSUME lists' = lists PROVE stacks' = stacks
    BY <2>3
  <2>4. ASSUME NEW l \in List, NEW v \in Value, Emplace_back(l, v) PROVE Stack!Emplace_back(l)
    <3>1. lists' = [lists EXCEPT ![l] = Emplaced(lists[l], v)]
      BY <2>4 DEF Emplace_back
    <3>2. stacks' = [stacks EXCEPT ![l] = Append(Contents(lists[l]), v)]
      <4>1. Contents(Emplaced(lists[l], v)) = Append(Contents(lists[l]), v)
        BY <2>1, ContentsEmplaced
      <4>2. stacks' = [stacks EXCEPT ![l] = Contents(Emplaced(lists[l], v))]
        BY <2>2, <3>1
      <4>. QED
        BY <4>1, <4>2
    <3>3. stacks' = [stacks EXCEPT ![l] = Append(stacks[l], v)]
      BY <3>2
    <3>. QED
      BY <3>3 DEF Stack!Emplace_back, Contents
  <2>5. ASSUME NEW l \in List, Pop_back(l) PROVE Stack!Pop_back(l)
    <3>1. lists[l].size > 0 /\ lists' = [lists EXCEPT ![l] = Popped(lists[l])]
      BY <2>5 DEF Pop_back
    <3>2. /\ Contents(lists[l]) # <<>>
          /\ stacks' = [stacks EXCEPT ![l] = Front(Contents(lists[l]))]
      BY <2>1, <2>2, <3>1, ContentsPopped
    <3>3. stacks[l] # <<>> /\ stacks' = [stacks EXCEPT ![l] = Front(stacks[l])]
      BY <3>2
    <3>. QED
      BY <3>3 DEF Stack!Pop_back, Contents, Front, Stack!Front
  <2>6. ASSUME NEW l \in List, Destroy(l) PROVE Stack!Destroy(l)
    <3>1. lists' = [lists EXCEPT ![l] = EmptyList]
      BY <2>6 DEF Destroy
    <3>2. Contents(EmptyList) = <<>>
      BY DEF Contents, EmptyList
    <3>3. stacks' = [stacks EXCEPT ![l] = <<>>]
      BY <2>2, <3>1, <3>2
    <3>. QED
      BY <3>3 DEF Stack!Destroy, Contents
  <2>7. ASSUME NEW l \in List, NEW m \in List, Swap(l, m) PROVE Stack!Swap(l, m)
    <3>1. lists' = [lists EXCEPT ![l] = lists[m], ![m] = lists[l]]
      BY <2>7 DEF Swap
    <3>2. stacks' = [stacks EXCEPT ![l] = stacks[m], ![m] = stacks[l]]
      BY <2>1, <3>1
    <3>. QED
      BY <3>2 DEF Stack!Swap, Contents
  <2>8. CASE \/ UNCHANGED vars \/ Increment \/ Decrement
             \/ \E l \in List : Begin(l) \/ End(l) \/ Repoint_iterator(l)
    <3>1. lists' = lists
      BY <2>8 DEF vars, Increment, Decrement, Begin, End, Repoint_iterator, Hold
    <3>. QED
      BY <2>3, <3>1
  <2>. QED
    BY <2>4, <2>5, <2>6, <2>7, <2>8 DEF Next, Stack!Next
<1>. QED
  BY <1>1, <1>2, BlockListInv, PTL DEF Spec, ImplementsStack, Stack!Spec, Contents

---------------------------------------------------------------------------------
(* The traversals. *)

\* Where ++ leads from begin() while values follow, and then.
AfterAll(s) ==
  IF s.blocks = <<>> THEN NullIt
  ELSE IF s.size = Len(s.blocks) * C THEN [block |-> Len(s.blocks), offset |-> C]
  ELSE Place(s.size + 1)
Ahead(s) == [n \in 0..s.size |-> IF n = s.size THEN AfterAll(s) ELSE Place(n + 1)]

\* Where -- leads from end().
Back(s) == [n \in 0..s.size |-> IF n = 0 THEN EndIt(s) ELSE Place(s.size + 1 - n)]

\* What After and Before choose.
IsAfter(s, f) ==
  f = [n \in 0..s.size |-> IF n = 0 THEN BeginIt(s) ELSE Incremented(s, f[n - 1])]
IsBefore(s, f) ==
  f = [n \in 0..s.size |-> IF n = 0 THEN EndIt(s) ELSE Decremented(f[n - 1])]

\* Two functions that are built the same way are the same: ++ from begin().
LEMMA AfterUnique ==
  ASSUME NEW s, s.size \in Nat, NEW f, NEW g, IsAfter(s, f), IsAfter(s, g)
  PROVE  f = g
<1>. USE DEF IsAfter
<1>. DEFINE differ == {n \in 0..s.size : f[n] # g[n]}
<1>1. CASE differ = {}
  BY <1>1
<1>2. CASE differ # {}
  <2>1. differ \in SUBSET Nat
    OBVIOUS
  <2>2. PICK n \in differ : \A m \in differ : n <= m
    <3>. HIDE DEF differ
    <3>. QED
      BY <1>2, <2>1, NatMin
  <2>3. n \in 0..s.size /\ f[n] # g[n]
    BY <2>2
  <2>4. n # 0
    BY <2>3
  <2>5. n - 1 \in 0..s.size /\ ~(n <= n - 1)
    BY <2>3, <2>4
  <2>6. f[n - 1] = g[n - 1]
    BY <2>2, <2>5
  <2>. QED
    BY <2>3, <2>4, <2>6
<1>. QED
  BY <1>1, <1>2

\* -- from end().
LEMMA BeforeUnique ==
  ASSUME NEW s, s.size \in Nat, NEW f, NEW g, IsBefore(s, f), IsBefore(s, g)
  PROVE  f = g
<1>. USE DEF IsBefore
<1>. DEFINE differ == {n \in 0..s.size : f[n] # g[n]}
<1>1. CASE differ = {}
  BY <1>1
<1>2. CASE differ # {}
  <2>1. differ \in SUBSET Nat
    OBVIOUS
  <2>2. PICK n \in differ : \A m \in differ : n <= m
    <3>. HIDE DEF differ
    <3>. QED
      BY <1>2, <2>1, NatMin
  <2>3. n \in 0..s.size /\ f[n] # g[n]
    BY <2>2
  <2>4. n # 0
    BY <2>3
  <2>5. n - 1 \in 0..s.size /\ ~(n <= n - 1)
    BY <2>3, <2>4
  <2>6. f[n - 1] = g[n - 1]
    BY <2>2, <2>5
  <2>. QED
    BY <2>3, <2>4, <2>6
<1>. QED
  BY <1>1, <1>2

\* ++ visits the values in order.
LEMMA AfterIsAhead ==
  ASSUME NEW s, ListInv(s)
  PROVE  After(s) = Ahead(s)
<1>. DEFINE g == Ahead(s)
<1>1. s.size \in Nat /\ s.blocks \in Seq(Block) /\ Len(s.blocks) \in Nat /\ C \in Nat /\ C > 0
  BY BlockAssumption DEF ListInv, ListRecord
<1>2. \A n \in 0..s.size : g[n] = IF n = s.size THEN AfterAll(s) ELSE Place(n + 1)
  BY DEF Ahead
<1>3. g[0] = BeginIt(s)
  <2>1. CASE s.blocks = <<>>
    <3>1. s.size = 0
      BY <2>1 DEF ListInv
    <3>. QED
      BY <2>1, <3>1 DEF Ahead, AfterAll, BeginIt, NullIt
  <2>2. CASE s.blocks # <<>>
    <3>1. BeginIt(s) = Place(1)
      BY <2>2, EndsStand
    <3>2. Len(s.blocks) >= 1
      BY <1>1, <2>2
    <3>3. Len(s.blocks) * C >= C
      <4>1. 1 * C = C /\ 1 * C <= Len(s.blocks) * C /\ Len(s.blocks) * C \in Nat
        BY <1>1, <3>2, Multiples
      <4>. QED
        BY <1>1, <4>1
    <3>4. Len(s.blocks) * C \in Nat
      BY <1>1, Multiples
    <3>5. s.size = 0 => AfterAll(s) = Place(1)
      BY <1>1, <2>2, <3>3, <3>4 DEF AfterAll
    <3>6. 0 \in 0..s.size /\ 0 + 1 = 1
      BY <1>1
    <3>. QED
      BY <1>2, <3>1, <3>5, <3>6
  <2>. QED
    BY <2>1, <2>2
<1>4. ASSUME NEW n \in 1..s.size PROVE g[n] = Incremented(s, g[n - 1])
  <2>1. n \in Nat \ {0} /\ n - 1 \in 0..s.size /\ n - 1 # s.size /\ n - 1 + 1 = n
    BY <1>1
  <2>2. g[n - 1] = Place(n)
    BY <1>2, <2>1
  <2>3. Place(n).block \in 1..Len(s.blocks)
    BY PlaceInBlocks
  <2>4. /\ Incremented(s, Place(n)) = IF n = Len(s.blocks) * C
                                      THEN [block |-> Len(s.blocks), offset |-> C]
                                      ELSE Place(n + 1)
        /\ n < s.size => Incremented(s, Place(n)) = Place(n + 1)
    BY <2>1, <2>3, IncrementedPlace
  <2>5. s.blocks # <<>>
    BY <2>3
  <2>6. CASE n = s.size
    BY <1>1, <1>2, <2>2, <2>4, <2>5, <2>6 DEF AfterAll
  <2>7. CASE n # s.size
    BY <1>1, <1>2, <2>2, <2>4, <2>7
  <2>. QED
    BY <2>6, <2>7
<1>5. g = [n \in 0..s.size |-> g[n]]
  BY DEF Ahead
<1>. HIDE DEF g
<1>6. IsAfter(s, g)
  <2>1. \A n \in 0..s.size : n # 0 => n \in 1..s.size
    BY <1>1
  <2>2. \A n \in 0..s.size : g[n] = IF n = 0 THEN BeginIt(s) ELSE Incremented(s, g[n - 1])
    BY <1>3, <1>4, <2>1
  <2>. QED
    BY <1>5, <2>2 DEF IsAfter
<1>7. After(s) = CHOOSE f : IsAfter(s, f)
  BY DEF After, IsAfter
<1>8. IsAfter(s, After(s))
  BY <1>6, <1>7
<1>9. After(s) = g
  BY <1>1, <1>6, <1>8, AfterUnique
<1>. QED
  BY <1>9 DEF g

\* -- visits them in the opposite order.
LEMMA BeforeIsBack ==
  ASSUME NEW s, ListInv(s)
  PROVE  Before(s) = Back(s)
<1>. DEFINE g == Back(s)
<1>1. s.size \in Nat /\ s.blocks \in Seq(Block) /\ Len(s.blocks) \in Nat /\ C \in Nat /\ C > 0
  BY BlockAssumption DEF ListInv, ListRecord
<1>2. \A n \in 0..s.size : g[n] = IF n = 0 THEN EndIt(s) ELSE Place(s.size + 1 - n)
  BY DEF Back
<1>3. ASSUME NEW n \in 1..s.size PROVE g[n] = Decremented(g[n - 1])
  <2>1. s.blocks # <<>>
    BY <1>1 DEF ListInv
  <2>2. n - 1 \in 0..s.size /\ n \in 0..s.size /\ n # 0
    BY <1>1
  <2>3. CASE n = 1
    <3>1. StandsFor(s, EndIt(s), s.size + 1) /\ s.size + 1 >= 2 /\ s.size + 1 \in Nat
      BY <1>1, <2>1, EndsStand
    <3>2. Decremented(EndIt(s)) = Place(s.size + 1 - n)
      <4>1. PICK k \in Nat : k = s.size + 1 /\ k >= 2 /\ k - 1 = s.size + 1 - n
        BY <1>1, <2>3, <3>1
      <4>. QED
        BY <3>1, <4>1, DecrementedPlace
    <3>3. g[n - 1] = EndIt(s)
      BY <1>1, <1>2, <2>2, <2>3
    <3>. QED
      BY <1>1, <1>2, <2>2, <2>3, <3>2, <3>3
  <2>4. CASE n # 1
    <3>1. PICK k \in 1..s.size : k = s.size + 1 - (n - 1) /\ k >= 2 /\ k - 1 = s.size + 1 - n
      <4>1. s.size + 1 - (n - 1) \in 1..s.size
        BY <1>1, <2>4
      <4>2. s.size + 1 - (n - 1) >= 2 /\ (s.size + 1 - (n - 1)) - 1 = s.size + 1 - n
        BY <1>1, <2>4
      <4>. QED
        BY <4>1, <4>2
    <3>2. g[n - 1] = Place(k)
      BY <1>1, <1>2, <2>2, <2>4, <3>1
    <3>3. /\ Place(k).block \in 1..Len(s.blocks) /\ Place(k).offset \in 0..(C - 1)
          /\ Place(k) = [block |-> Place(k).block, offset |-> Place(k).offset]
          /\ Index(Place(k).block, Place(k).offset) = k - 1
      BY PlaceInBlocks
    <3>4. StandsFor(s, Place(k), k)
      <4>1. PICK b \in 1..Len(s.blocks), o \in 0..(C - 1) :
              Place(k) = [block |-> b, offset |-> o] /\ Index(b, o) = k - 1
        BY <3>3
      <4>2. (b - 1) * C \in Int
        BY <1>1
      <4>3. k = (b - 1) * C + o + 1
        BY <1>1, <4>1, <4>2 DEF Index
      <4>. QED
        BY <1>1, <4>1, <4>3 DEF StandsFor
    <3>5. Decremented(Place(k)) = Place(k - 1)
      BY <1>1, <3>1, <3>4, DecrementedPlace
    <3>. QED
      BY <1>2, <2>2, <3>1, <3>2, <3>5
  <2>. QED
    BY <2>3, <2>4
<1>4. g = [n \in 0..s.size |-> g[n]]
  BY DEF Back
<1>5. g[0] = EndIt(s)
  BY <1>1 DEF Back
<1>. HIDE DEF g
<1>6. IsBefore(s, g)
  <2>1. \A n \in 0..s.size : n # 0 => n \in 1..s.size
    BY <1>1
  <2>2. \A n \in 0..s.size : g[n] = IF n = 0 THEN EndIt(s) ELSE Decremented(g[n - 1])
    BY <1>3, <1>5, <2>1
  <2>. QED
    BY <1>4, <2>2 DEF IsBefore
<1>7. Before(s) = CHOOSE f : IsBefore(s, f)
  BY DEF Before, IsBefore
<1>8. IsBefore(s, Before(s))
  BY <1>6, <1>7
<1>9. Before(s) = g
  BY <1>1, <1>6, <1>8, BeforeUnique
<1>. QED
  BY <1>9 DEF g

\* Both traversals visit all values in order and end where they should, but for ++ into a
\* block that was left and whose predecessor is full again.
THEOREM BlockListTraversals == Spec => []Traversals
<1>1. ASSUME NEW s, ListInv(s)
      PROVE  MeetsBegin(s)
  <2>1. s.size \in Nat
    BY <1>1 DEF ListInv, ListRecord
  <2>2. ASSUME NEW n \in 0..s.size, n > 0 PROVE Before(s)[n] = Place(s.size + 1 - n)
    <3>1. Back(s)[n] = Place(s.size + 1 - n)
      BY <2>1, <2>2 DEF Back
    <3>. QED
      BY <1>1, <3>1, BeforeIsBack
  <2>3. Before(s)[0] = EndIt(s)
    <3>1. Back(s)[0] = EndIt(s)
      BY <2>1 DEF Back
    <3>. QED
      BY <1>1, <3>1, BeforeIsBack
  <2>4. CASE s.blocks = <<>>
    <3>1. EndIt(s) = BeginIt(s) /\ s.size = 0
      BY <1>1, <2>4 DEF ListInv, EndIt, BeginIt, ListRecord
    <3>. QED
      BY <2>1, <2>3, <3>1 DEF MeetsBegin
  <2>5. CASE s.blocks # <<>>
    <3>1. BeginIt(s) = Place(1) /\ StandsFor(s, BeginIt(s), 1) /\ StandsFor(s, EndIt(s), s.size + 1)
      BY <1>1, <2>5, EndsStand
    <3>2. s.size = 0 => EndIt(s) = BeginIt(s)
      <4>1. ASSUME s.size = 0 PROVE EndIt(s) = BeginIt(s)
        <5>1. EndIt(s).offset # C
          <6>1. /\ s.current >= 1 /\ s.current \in Nat /\ s.offset \in 0..C /\ C \in Nat /\ C > 0
                /\ 0 = (s.current - 1) * C + s.offset
            BY <1>1, <2>5, <4>1, BlockAssumption DEF ListInv, ListRecord
          <6>2. (s.current - 1) * C \in Nat
            <7>1. s.current - 1 \in Nat /\ s.current - 1 <= s.current - 1
              BY <6>1
            <7>. QED
              BY <7>1, Multiples
          <6>3. s.offset = 0
            BY <6>1, <6>2
          <6>. QED
            BY <6>1, <6>3 DEF EndIt
        <5>2. EndIt(s) = Place(s.size + 1)
          BY <1>1, <3>1, <5>1, InsideIsPlace
        <5>. QED
          BY <3>1, <4>1, <5>2
      <4>. QED
        BY <4>1
    <3>3. EndIt(s) = BeginIt(s) => s.size + 1 = 1
      BY <3>1 DEF StandsFor
    <3>4. ASSUME NEW k \in Nat \ {0}, Place(k) = Place(1) PROVE k = 1
      BY <3>4, PlaceIndex
    <3>5. ASSUME NEW n \in 0..s.size PROVE Before(s)[n] = BeginIt(s) <=> n = s.size
      <4>1. CASE n = 0
        BY <2>1, <2>3, <3>2, <3>3, <4>1
      <4>2. CASE n # 0
        <5>1. PICK k \in Nat \ {0} : k = s.size + 1 - n
          BY <2>1, <4>2
        <5>2. Before(s)[n] = Place(k)
          BY <2>1, <2>2, <4>2, <5>1
        <5>3. k = 1 <=> n = s.size
          BY <2>1, <5>1
        <5>. QED
          BY <3>1, <3>4, <5>2, <5>3
      <4>. QED
        BY <4>1, <4>2
    <3>. QED
      BY <2>2, <3>5 DEF MeetsBegin
  <2>. QED
    BY <2>4, <2>5
<1>2. ASSUME NEW s, ListInv(s), ~RefilledBlock(s)
      PROVE  MeetsEnd(s)
  <2>1. s.size \in Nat
    BY <1>2 DEF ListInv, ListRecord
  <2>2. /\ \A n \in 0..s.size : n # s.size => After(s)[n] = Place(n + 1)
        /\ After(s)[s.size] = AfterAll(s)
    BY <1>2, <2>1, AfterIsAhead DEF Ahead
  <2>3. CASE s.blocks = <<>>
    <3>1. EndIt(s) = NullIt /\ s.size = 0
      BY <1>2, <2>3 DEF ListInv, EndIt, NullIt, ListRecord
    <3>. QED
      BY <2>1, <2>2, <2>3, <3>1 DEF MeetsEnd, AfterAll
  <2>4. CASE s.blocks # <<>>
    <3>1. /\ s.current >= 1 /\ s.current \in Nat /\ s.current <= Len(s.blocks)
          /\ Len(s.blocks) \in Nat /\ s.offset \in 0..C /\ C \in Nat /\ C > 0
          /\ s.size = (s.current - 1) * C + s.offset
      BY <1>2, <2>4, BlockAssumption DEF ListInv, ListRecord
    <3>2. StandsFor(s, EndIt(s), s.size + 1)
      BY <1>2, <2>4, EndsStand
    <3>3. PICK k \in Nat : s.current = k + 1
      <4>1. s.current - 1 \in Nat /\ s.current = (s.current - 1) + 1
        BY <3>1
      <4>. QED
        BY <4>1
    <3>4. k * C \in Nat /\ s.size = k * C + s.offset
      BY <3>1, <3>3
    <3>5. (k + 1) * C = k * C + C /\ (k + 1) * C <= Len(s.blocks) * C /\ Len(s.blocks) * C \in Nat
      BY <3>1, <3>3, Multiples
    <3>6. AfterAll(s) = EndIt(s)
      <4>1. CASE s.offset = C
        <5>1. s.current = Len(s.blocks)
          BY <1>2, <3>1, <4>1 DEF RefilledBlock
        <5>2. s.size = Len(s.blocks) * C
          BY <3>1, <3>3, <3>4, <3>5, <4>1, <5>1
        <5>. QED
          BY <2>4, <4>1, <5>1, <5>2 DEF AfterAll, EndIt
      <4>2. CASE s.offset # C
        <5>1. EndIt(s) = Place(s.size + 1)
          BY <1>2, <3>2, <4>2, InsideIsPlace DEF EndIt
        <5>2. s.size # Len(s.blocks) * C
          BY <3>1, <3>4, <3>5, <4>2
        <5>. QED
          BY <2>4, <5>1, <5>2 DEF AfterAll
      <4>. QED
        BY <4>1, <4>2
    <3>7. ASSUME NEW n \in 0..s.size, n # s.size PROVE After(s)[n] # EndIt(s)
      <4>1. n + 1 \in 1..s.size /\ n + 1 \in Nat \ {0} /\ n + 1 # s.size + 1
        BY <2>1, <3>7
      <4>2. After(s)[n] = Place(n + 1)
        BY <2>2, <3>7
      <4>3. Index(Place(n + 1).block, Place(n + 1).offset) = n + 1 - 1
        BY <4>1, PlaceIndex
      <4>4. EndIt(s) = Place(n + 1) => s.size + 1 = n + 1 - 1 + 1
        <5>1. ASSUME EndIt(s) = Place(n + 1) PROVE s.size + 1 = n + 1 - 1 + 1
          <6>1. Index(s.current, s.offset) = n + 1 - 1
            BY <4>3, <5>1 DEF EndIt
          <6>. QED
            BY <2>1, <3>1, <4>1, <6>1 DEF Index
        <5>. QED
          BY <5>1
      <4>. QED
        BY <2>1, <4>1, <4>2, <4>4
    <3>. QED
      BY <2>1, <2>2, <3>6, <3>7 DEF MeetsEnd
  <2>. QED
    BY <2>3, <2>4
<1>3. Inv => Traversals
  BY <1>1, <1>2 DEF Inv, ListsInv, Traversals
<1>. QED
  BY <1>3, BlockListInv, PTL
=================================================================================
