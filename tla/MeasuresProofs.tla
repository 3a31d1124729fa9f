----------------------------- MODULE MeasuresProofs -----------------------------
(***************************************************************************)
(* First forward_scan by itself: what the sweep has written at each        *)
(* moment, for all ordered lists.  Then the query by itself: the forests   *)
(* it stabs, what a stab adds to the output, and what every state of the   *)
(* query is in.  Then forward_skip_join by itself: how often each pair is  *)
(* written, and how often it is due.  Then the measurements that run them  *)
(* on the same variables: their steps are steps of what they measure or    *)
(* leave it alone.                                                         *)
(***************************************************************************)
EXTENDS Measures, StabSearchProofs

(* forward_scan. *)

\* A list of the model in the terms of its positions.
LEMMA ListFields ==
  ASSUME NEW s \in Lists
  PROVE  /\ s \in Seq(Event)
         /\ Len(s) \in Nat /\ DOMAIN s = 1..Len(s)
         /\ \A i \in 1..Len(s) : s[i].start \in Int /\ s[i].end \in Int /\ s[i].start <= s[i].end
         /\ \A i, j \in 1..Len(s) : i <= j => s[i].start <= s[j].start
<1>1. s \in Seq(Event) /\ Ordered(s)
  BY ListsAssumption
<1>2. Len(s) \in Nat /\ DOMAIN s = 1..Len(s) /\ \A i \in 1..Len(s) : s[i] \in Event
  BY <1>1
<1>3. \A i \in 1..Len(s) : s[i].start \in Int /\ s[i].end \in Int /\ s[i].start <= s[i].end
  BY <1>2, EventTimes
<1>4. ASSUME NEW i \in 1..Len(s), NEW j \in 1..Len(s), i <= j
      PROVE  s[i].start <= s[j].start
  <2>1. CASE i = j
    BY <2>1, <1>3, SMT
  <2>2. CASE i # j
    <3>1. AtOrBefore(s[i], s[j])
      BY <2>2, <1>1, <1>2, <1>4 DEF Ordered
    <3> QED
      BY <3>1, <1>3 DEF AtOrBefore
  <2> QED
    BY <2>1, <2>2
<1> QED
  BY <1>1, <1>2, <1>3, <1>4

\* The scan of a list stops at the first event that starts too late; as starts ascend, it
\* has by then met every one that does not.
LEMMA UpToAll ==
  ASSUME NEW s \in Lists, NEW i \in 1..Len(s), NEW v \in Int
  PROVE  UpTo(s, i, v) = {k \in 1..Len(s) : i <= k /\ s[k].start <= v}
<1>1. ASSUME NEW k \in 1..Len(s), i <= k, s[k].start <= v
      PROVE  k \in UpTo(s, i, v)
  <2>1. ASSUME NEW m \in i..k
        PROVE  s[m].start <= v
    <3>1. m \in 1..Len(s) /\ m <= k
      BY <1>1, ListFields, SMT
    <3>2. s[m].start \in Int /\ s[k].start \in Int /\ s[m].start <= s[k].start
      BY <3>1, ListFields
    <3> QED
      BY <3>2, <1>1, SMT
  <2> QED
    BY <2>1, <1>1, ListFields DEF UpTo
<1>2. ASSUME NEW k \in UpTo(s, i, v)
      PROVE  k \in 1..Len(s) /\ i <= k /\ s[k].start <= v
  <2>1. k \in i..Len(s) /\ \A m \in i..k : s[m].start <= v
    BY <1>2 DEF UpTo
  <2> QED
    BY <2>1, ListFields, SMT
<1> QED
  BY <1>1, <1>2

\* What a step of the sweep adds, in the terms of WritesPassed.
ScanInv == ScanTypeOK /\ WritesPassed
PassedPairs(i, j) ==
  {p \in (DOMAIN left) \X (DOMAIN right) : Matching(p[1], p[2]) /\ (p[1] < i \/ p[2] < j)}

\* What the step of a left event writes is what passing it adds to
\* the matching pairs, none of it written before.
LEMMA LeftAdds ==
  ASSUME ScanTypeOK, Running(lit, rit), LeftFirst(lit, rit)
  PROVE  /\ LeftPairs \subseteq (DOMAIN left) \X (DOMAIN right)
         /\ PassedPairs(lit, rit) \cup LeftPairs = PassedPairs(lit + 1, rit)
         /\ PassedPairs(lit, rit) \cap LeftPairs = {}
<1> DEFINE l == left[lit]
<1>1. /\ left \in Lists /\ right \in Lists
      /\ lit \in 1..Len(left) /\ rit \in 1..Len(right)
  BY ListFields, SMT DEF ScanTypeOK, Running
<1>2. DOMAIN left = 1..Len(left) /\ DOMAIN right = 1..Len(right)
      /\ Len(left) \in Nat /\ Len(right) \in Nat
  BY <1>1, ListFields
<1>3. l.start \in Int /\ l.end \in Int
  BY <1>1, ListFields
<1>4. LeftPairs = {lit} \X {k \in 1..Len(right) : rit <= k /\ right[k].start <= l.end}
  BY <1>1, <1>3, UpToAll DEF LeftPairs
\* Ahead of rit every event of right starts, and so ends, no earlier than l starts.
<1>5. ASSUME NEW k \in 1..Len(right), rit <= k
      PROVE  Overlaps(l, right[k]) = (right[k].start <= l.end)
  <2>1. right[rit].start <= right[k].start /\ right[k].start <= right[k].end
    BY <1>1, <1>5, ListFields
  <2>2. right[rit].start \in Int /\ right[k].start \in Int /\ right[k].end \in Int
    BY <1>1, ListFields
  <2> QED
    BY <2>1, <2>2, <1>3, SMT DEF Overlaps, LeftFirst
<1>6. LeftPairs = {p \in (DOMAIN left) \X (DOMAIN right) :
                     p[1] = lit /\ rit <= p[2] /\ Matching(p[1], p[2])}
  <2>1. ASSUME NEW p \in LeftPairs
        PROVE  /\ p \in (DOMAIN left) \X (DOMAIN right)
               /\ p[1] = lit /\ rit <= p[2] /\ Matching(p[1], p[2])
    BY <1>1, <1>2, <1>4, <1>5, <2>1 DEF Matching
  <2>2. ASSUME NEW p \in (DOMAIN left) \X (DOMAIN right),
               p[1] = lit, rit <= p[2], Matching(p[1], p[2])
        PROVE  p \in LeftPairs
    BY <1>1, <1>2, <1>4, <1>5, <2>2 DEF Matching
  <2> QED
    BY <2>1, <2>2
<1>7. ASSUME NEW p \in (DOMAIN left) \X (DOMAIN right)
      PROVE  (p[1] < lit \/ p[2] < rit \/ (p[1] = lit /\ rit <= p[2]))
               = (p[1] < lit + 1 \/ p[2] < rit)
  BY <1>1, <1>2, SMT
<1> QED
  BY <1>1, <1>2, <1>6, <1>7, SMT DEF PassedPairs

\* So does the step of a right event.
LEMMA RightAdds ==
  ASSUME ScanTypeOK, Running(lit, rit), ~LeftFirst(lit, rit)
  PROVE  /\ RightPairs \subseteq (DOMAIN left) \X (DOMAIN right)
         /\ PassedPairs(lit, rit) \cup RightPairs = PassedPairs(lit, rit + 1)
         /\ PassedPairs(lit, rit) \cap RightPairs = {}
<1> DEFINE r == right[rit]
<1>1. /\ left \in Lists /\ right \in Lists
      /\ lit \in 1..Len(left) /\ rit \in 1..Len(right)
  BY ListFields, SMT DEF ScanTypeOK, Running
<1>2. DOMAIN left = 1..Len(left) /\ DOMAIN right = 1..Len(right)
      /\ Len(left) \in Nat /\ Len(right) \in Nat
  BY <1>1, ListFields
<1>3. r.start \in Int /\ r.end \in Int
  BY <1>1, ListFields
<1>4. RightPairs = {k \in 1..Len(left) : lit <= k /\ left[k].start <= r.end} \X {rit}
  BY <1>1, <1>3, UpToAll DEF RightPairs
<1>5. ASSUME NEW k \in 1..Len(left), lit <= k
      PROVE  Overlaps(left[k], r) = (left[k].start <= r.end)
  <2>1. left[lit].start <= left[k].start /\ left[k].start <= left[k].end
    BY <1>1, <1>5, ListFields
  <2>2. left[lit].start \in Int /\ left[k].start \in Int /\ left[k].end \in Int
    BY <1>1, ListFields
  <2> QED
    BY <2>1, <2>2, <1>3, SMT DEF Overlaps, LeftFirst
<1>6. RightPairs = {p \in (DOMAIN left) \X (DOMAIN right) :
                      p[2] = rit /\ lit <= p[1] /\ Matching(p[1], p[2])}
  <2>1. ASSUME NEW p \in RightPairs
        PROVE  /\ p \in (DOMAIN left) \X (DOMAIN right)
               /\ p[2] = rit /\ lit <= p[1] /\ Matching(p[1], p[2])
    BY <1>1, <1>2, <1>4, <1>5, <2>1 DEF Matching
  <2>2. ASSUME NEW p \in (DOMAIN left) \X (DOMAIN right),
               p[2] = rit, lit <= p[1], Matching(p[1], p[2])
        PROVE  p \in RightPairs
    BY <1>1, <1>2, <1>4, <1>5, <2>2 DEF Matching
  <2> QED
    BY <2>1, <2>2
<1> QED
  BY <1>1, <1>2, <1>6, SMT DEF PassedPairs

---------------------------------------------------------------------------------
\* Nothing is passed, and nothing written, at the start, ...
LEMMA ScanStarts ==
  ASSUME ScanInit
  PROVE  ScanInv
<1>1. left \in Lists /\ right \in Lists /\ lit = 1 /\ rit = 1 /\ pairs = {}
  BY DEF ScanInit
<1>2. DOMAIN left = 1..Len(left) /\ DOMAIN right = 1..Len(right)
      /\ Len(left) \in Nat /\ Len(right) \in Nat
  BY <1>1, ListFields
<1> QED
  BY <1>1, <1>2, SMT DEF ScanInv, ScanTypeOK, WritesPassed

\* ... and each step of the loop (forward_scan.hpp) writes the matching pairs of what it passes.
LEMMA ScanStays ==
  ASSUME ScanInv, [ScanNext]_joinVars
  PROVE  ScanInv'
<1> USE DEF ScanInv
<1>1. pairs = PassedPairs(lit, rit)
  BY DEF WritesPassed, PassedPairs
<1>2. left \in Lists /\ right \in Lists
      /\ DOMAIN left = 1..Len(left) /\ DOMAIN right = 1..Len(right)
      /\ Len(left) \in Nat /\ Len(right) \in Nat
  BY ListFields DEF ScanTypeOK
<1>3. CASE JoinLeft
  <2>1. /\ pairs' = PassedPairs(lit', rit') /\ pairs' \subseteq (DOMAIN left) \X (DOMAIN right)
        /\ left' = left /\ right' = right
    BY <1>1, <1>3, LeftAdds DEF JoinLeft, ScanTypeOK
  <2>2. lit' \in 1..(Len(left) + 1) /\ rit' \in 1..(Len(right) + 1)
    BY <1>2, <1>3, SMT DEF JoinLeft, ScanTypeOK, Running
  <2> QED
    BY <1>2, <2>1, <2>2 DEF ScanTypeOK, WritesPassed, PassedPairs, Matching
<1>4. CASE JoinRight
  <2>1. /\ pairs' = PassedPairs(lit', rit') /\ pairs' \subseteq (DOMAIN left) \X (DOMAIN right)
        /\ left' = left /\ right' = right
    BY <1>1, <1>4, RightAdds DEF JoinRight, ScanTypeOK
  <2>2. lit' \in 1..(Len(left) + 1) /\ rit' \in 1..(Len(right) + 1)
    BY <1>2, <1>4, SMT DEF JoinRight, ScanTypeOK, Running
  <2> QED
    BY <1>2, <2>1, <2>2 DEF ScanTypeOK, WritesPassed, PassedPairs, Matching
<1>5. CASE UNCHANGED joinVars
  BY <1>5 DEF joinVars, ScanTypeOK, WritesPassed, Matching
<1> QED
  BY <1>3, <1>4, <1>5 DEF ScanNext

\* The iterators stay within their lists or at their ends, and every pair written is of
\* positions the lists have.
THEOREM ScanKeepsType == ScanSpec => []ScanTypeOK
<1> QED
  BY ScanStarts, ScanStays, PTL DEF ScanSpec, ScanInv

\* For all lists in order, at each moment of forward_scan (temporal_join.hpp:125-149) the
\* pairs written are the overlapping ones with an event passed.
THEOREM ScanWritesPassed == ScanSpec => []WritesPassed
<1> QED
  BY ScanStarts, ScanStays, PTL DEF ScanSpec, ScanInv

\* When forward_scan returns it has written exactly the overlapping pairs.
THEOREM ScanComplete == ScanSpec => []AllWritten
<1>1. ASSUME ScanInv
      PROVE  AllWritten
  <2>1. /\ DOMAIN left = 1..Len(left) /\ DOMAIN right = 1..Len(right)
        /\ Len(left) \in Nat /\ Len(right) \in Nat
    BY <1>1, ListFields DEF ScanInv, ScanTypeOK
  <2>2. ASSUME ~Running(lit, rit), NEW p \in (DOMAIN left) \X (DOMAIN right)
        PROVE  p[1] < lit \/ p[2] < rit
    BY <1>1, <2>1, <2>2, SMT DEF ScanInv, ScanTypeOK, Running
  <2> QED
    BY <1>1, <2>2 DEF ScanInv, WritesPassed, AllWritten
<1> QED
  BY <1>1, ScanStarts, ScanStays, PTL DEF ScanSpec

\* Neither step writes a pair that is written already.
LEMMA ScanPairsNew ==
  ASSUME ScanInv
  PROVE  /\ JoinLeft => LeftPairs \cap pairs = {}
         /\ JoinRight => RightPairs \cap pairs = {}
<1>1. pairs = PassedPairs(lit, rit) /\ ScanTypeOK
  BY DEF ScanInv, WritesPassed, PassedPairs
<1>2. JoinLeft => LeftPairs \cap pairs = {}
  BY <1>1, LeftAdds DEF JoinLeft
<1>3. JoinRight => RightPairs \cap pairs = {}
  BY <1>1, RightAdds DEF JoinRight
<1> QED
  BY <1>2, <1>3

\* forward_scan writes no pair twice.
THEOREM ScanWritesOnce == ScanSpec => WritesOnce
<1>1. ASSUME ScanInv, [ScanNext]_joinVars
      PROVE  [(JoinLeft => LeftPairs \cap pairs = {})
                /\ (JoinRight => RightPairs \cap pairs = {})]_joinVars
  BY <1>1, ScanPairsNew
<1> QED
  BY <1>1, ScanStarts, ScanStays, PTL DEF ScanSpec, WritesOnce

\* The contract of a join, in the terms of the positions written.
LEMMA ScanDue ==
  ASSUME ScanInv
  PROVE  PairBag(left, right, pairs) = Contract!Due(left, right, lit - 1, rit - 1)
<1> DEFINE due == {p \in (DOMAIN left) \X (DOMAIN right) :
                     Overlaps(left[p[1]], right[p[2]]) /\ (p[1] <= lit - 1 \/ p[2] <= rit - 1)}
<1>1. /\ DOMAIN left = 1..Len(left) /\ DOMAIN right = 1..Len(right)
      /\ lit \in Int /\ rit \in Int
  BY ListFields DEF ScanInv, ScanTypeOK
<1>2. ASSUME NEW p \in (DOMAIN left) \X (DOMAIN right)
      PROVE  /\ p[1] < lit <=> p[1] <= lit - 1
             /\ p[2] < rit <=> p[2] <= rit - 1
  <2>1. p[1] \in Int /\ p[2] \in Int
    BY <1>1, <1>2
  <2> QED
    BY <1>1, <2>1
<1>3. pairs = due
  BY <1>2 DEF ScanInv, WritesPassed, Matching
<1>4. Contract!Due(left, right, lit - 1, rit - 1) = PairBag(left, right, due)
  BY DEF Contract!Due, Contract!PairBag, PairBag, Contract!Overlaps, Overlaps,
         Contract!Cardinality, Cardinality
<1> QED
  BY <1>3, <1>4

\* forward_scan (temporal_join.hpp:125-149) keeps the promise of every temporal join: it has
\* written at each moment, once each, the overlapping pairs with an event passed, and passes on.
THEOREM ScanImplementsJoin == ScanSpec => ImplementsJoin
<1>1. ScanInit => Contract!Init
  <2> SUFFICES ASSUME ScanInit PROVE Contract!Init
    OBVIOUS
  <2>1. /\ left \in Seq(Event) /\ Ordered(left)
        /\ right \in Seq(Event) /\ Ordered(right)
    BY ListsAssumption DEF ScanInit
  <2>2. lit - 1 = 0 /\ rit - 1 = 0
    BY DEF ScanInit
  <2>3. PairBag(left, right, pairs) = EmptyBag
    BY DEF ScanInit, PairBag, EmptyBag, SetToBag
  <2> QED
    BY <2>1, <2>2, <2>3 DEF Contract!Init, Contract!Ordered, Ordered, Contract!AtOrBefore,
       AtOrBefore, Contract!EmptyBag, EmptyBag, Contract!SetToBag, SetToBag
<1>2. ScanInv /\ ScanInv' /\ [ScanNext]_joinVars => [Contract!Pass]_(Contract!vars)
  <2> SUFFICES ASSUME ScanInv, ScanInv', [ScanNext]_joinVars PROVE [Contract!Pass]_(Contract!vars)
    OBVIOUS
  <2>1. CASE UNCHANGED joinVars
    BY <2>1 DEF joinVars, Contract!vars
  <2>2. CASE ScanNext
    <3>1. /\ left' = left /\ right' = right
          /\ lit' \in {lit, lit + 1} /\ rit' \in {rit, rit + 1}
      BY <2>2 DEF ScanNext, JoinLeft, JoinRight
    <3>2. /\ lit \in 1..(Len(left) + 1) /\ lit' \in 1..(Len(left) + 1)
          /\ rit \in 1..(Len(right) + 1) /\ rit' \in 1..(Len(right) + 1)
          /\ Len(left) \in Nat /\ Len(right) \in Nat
      BY <3>1, ListFields DEF ScanInv, ScanTypeOK
    <3>3. lit' - 1 \in (lit - 1)..Len(left) /\ rit' - 1 \in (rit - 1)..Len(right)
      <4>1. ASSUME NEW n \in Nat, NEW a \in 1..(n + 1), NEW b \in 1..(n + 1), b \in {a, a + 1}
            PROVE  b - 1 \in (a - 1)..n
        BY <4>1
      <4> QED
        BY <3>1, <3>2, <4>1
    <3>4. PairBag(left, right, pairs)' = Contract!Due(left, right, lit' - 1, rit' - 1)
      <4>1. (PairBag(left, right, pairs) = Contract!Due(left, right, lit - 1, rit - 1))'
        BY ScanDue, PTL
      <4> QED
        BY <3>1, <4>1
    <3> QED
      BY <3>1, <3>3, <3>4 DEF Contract!Pass
  <2> QED
    BY <2>1, <2>2
<1> QED
  BY <1>1, <1>2, ScanStarts, ScanStays, PTL DEF ScanSpec, ImplementsJoin, Contract!Spec

---------------------------------------------------------------------------------
(* The forests that the query runs over. *)

\* A forest is built one append after the other.
LEMMA ForestSteps ==
  ASSUME NEW s, NEW n \in Nat, n = Len(s)
  PROVE  \E w : /\ w[0] = EmptyForest /\ ForestOf(s) = w[n]
                /\ \A k \in 1..n : w[k] = AppendEvent(w[k - 1], s[k])
<1>1. PICK u : u = [k \in 0..n |-> u[k]] /\ StepsTo("append", 0, EmptyForest, s, n, 0, 0, u)
  BY StepsExist
<1>2. \A k \in 0..n : u[k] = IF k = 0 THEN EmptyForest ELSE AppendEvent(u[k - 1], s[k])
  BY <1>1 DEF StepsTo, OneStep
<1>3. IsAppends(s, u)
  BY <1>1, <1>2 DEF IsAppends
<1>4. PICK w : w = CHOOSE y : IsAppends(s, y)
  OBVIOUS
<1>5. IsAppends(s, w)
  BY <1>3, <1>4
<1>6. ForestOf(s) = (CHOOSE y : IsAppends(s, y))[n]
  BY DEF ForestOf, IsAppends
<1>7. ForestOf(s) = w[n]
  BY <1>4, <1>6
<1>8. w[0] = EmptyForest
  BY <1>5 DEF IsAppends
<1>9. ASSUME NEW k \in 1..n PROVE w[k] = AppendEvent(w[k - 1], s[k])
  <2>1. k \in 0..n /\ k # 0
    OBVIOUS
  <2>. QED
    BY <1>5, <2>1 DEF IsAppends
<1>. QED
  BY <1>7, <1>8, <1>9

\* A list that goes on as s does, up to its n-th event.
Begins(t, s, n) == t \in Seq(Event) /\ Len(t) = n /\ \A i \in 1..n : t[i] = s[i]

\* So it is one event further.
LEMMA BeginsOn ==
  ASSUME NEW s \in Seq(Event), NEW n \in Nat, n < Len(s), NEW t, Begins(t, s, n)
  PROVE  Begins(Append(t, s[n + 1]), s, n + 1)
<1>1. n + 1 \in 1..Len(s) /\ s[n + 1] \in Event
  OBVIOUS
<1>2. t \in Seq(Event) /\ Len(t) = n /\ \A i \in 1..n : t[i] = s[i]
  BY DEF Begins
<1>3. PICK u : u = Append(t, s[n + 1])
  OBVIOUS
<1>4. u \in Seq(Event) /\ Len(u) = n + 1 /\ u[n + 1] = s[n + 1] /\ \A i \in 1..n : u[i] = t[i]
  BY <1>1, <1>2, <1>3
<1>5. \A i \in 1..(n + 1) : i \in 1..n \/ i = n + 1
  OBVIOUS
<1>. QED
  BY <1>2, <1>3, <1>4, <1>5 DEF Begins

\* The forest of a list in order has the list, and its nodes hold what they should.
LEMMA ForestFits ==
  ASSUME NEW s \in Seq(Event), Ordered(s)
  PROVE  ContentInv(ForestOf(s)) /\ ForestOf(s).events = s
<1>1. PICK n \in Nat : n = Len(s) /\ \A k \in 1..n : s[k] \in Event
  OBVIOUS
<1>2. PICK w : /\ w[0] = EmptyForest /\ ForestOf(s) = w[n]
               /\ \A k \in 1..n : w[k] = AppendEvent(w[k - 1], s[k])
  BY <1>1, ForestSteps
<1>. DEFINE Good(k) == ContentInv(w[k]) /\ Begins(w[k].events, s, k)
            S == {k \in Nat : k <= n => Good(k)}
<1>3. Good(0)
  <2>1. ContentInv(w[0])
    BY <1>2, EmptyContent
  <2>2. w[0].events = <<>>
    BY <1>2 DEF EmptyForest
  <2>3. <<>> \in Seq(Event) /\ Len(<<>>) = 0
    OBVIOUS
  <2>. QED
    BY <2>1, <2>2, <2>3 DEF Begins
<1>4. ASSUME NEW k \in Nat, k + 1 <= n, Good(k) PROVE Good(k + 1)
  <2>1. k + 1 \in 1..n /\ (k + 1) - 1 = k /\ k < n
    BY <1>4
  <2>2. PICK e \in Event : e = s[k + 1]
    BY <1>1, <2>1
  <2>3. PICK f : f = w[k]
    OBVIOUS
  <2>4. w[k + 1] = AppendEvent(f, e)
    BY <1>2, <2>1, <2>2, <2>3
  <2>5. f.events # <<>> => AtOrBefore(Last(f.events), e)
    <3>. SUFFICES ASSUME f.events # <<>> PROVE AtOrBefore(Last(f.events), e)
      OBVIOUS
    <3>1. f.events \in Seq(Event) /\ Len(f.events) = k /\ \A i \in 1..k : f.events[i] = s[i]
      BY <1>4, <2>3 DEF Begins
    <3>2. k \in 1..n
      BY <1>4, <3>1
    <3>3. Last(f.events) = s[k]
      BY <3>1, <3>2 DEF Last
    <3>4. k \in DOMAIN s /\ k + 1 \in DOMAIN s /\ k < k + 1
      BY <1>1, <2>1, <3>2
    <3>. QED
      BY <2>2, <3>3, <3>4 DEF Ordered
  <2>6. ContentInv(f) /\ Begins(f.events, s, k)
    BY <1>4, <2>3
  <2>7. ContentInv(w[k + 1]) /\ w[k + 1].events = Append(f.events, e)
    BY <2>4, <2>5, <2>6, AppendContent
  <2>8. Begins(Append(f.events, e), s, k + 1)
    BY <1>1, <2>1, <2>2, <2>6, BeginsOn
  <2>. QED
    BY <2>7, <2>8
<1>. HIDE DEF Good
<1>5. S = Nat
  <2>1. S \in SUBSET Nat /\ 0 \in S
    BY <1>3
  <2>2. ASSUME NEW k \in S PROVE k + 1 \in S
    <3>1. k \in Nat /\ (k <= n => Good(k))
      OBVIOUS
    <3>2. k + 1 <= n => Good(k + 1)
      BY <1>4, <3>1
    <3>. QED
      BY <3>1, <3>2
  <2>. HIDE DEF S
  <2>. QED
    BY <2>1, <2>2, NatAll
<1>6. Good(n)
  BY <1>1, <1>5
<1>7. PICK t : t = ForestOf(s).events
  OBVIOUS
<1>8. ContentInv(ForestOf(s)) /\ Begins(t, s, n)
  BY <1>2, <1>6, <1>7 DEF Good
<1>9. t = s
  <2>1. \A u \in Seq(Event) : u = [i \in 1..Len(u) |-> u[i]]
    OBVIOUS
  <2>2. t \in Seq(Event) /\ Len(t) = n /\ \A i \in 1..n : t[i] = s[i]
    BY <1>8 DEF Begins
  <2>3. t = [i \in 1..n |-> t[i]] /\ s = [i \in 1..n |-> s[i]]
    BY <1>1, <2>1, <2>2
  <2>. QED
    BY <2>2, <2>3
<1>. QED
  BY <1>7, <1>8, <1>9

\* So it is of the forests of the model.
LEMMA TableFits ==
  ASSUME NEW s \in Lists
  PROVE  /\ s \in Seq(Event) /\ Ordered(s)
         /\ ContentInv(ForestTable[s]) /\ ForestTable[s].events = s
<1>1. s \in Seq(Event) /\ Ordered(s)
  BY ListsAssumption
<1>2. ForestTable[s] = ForestOf(s)
  BY ForestAssumption
<1>. QED
  BY <1>1, <1>2, ForestFits

---------------------------------------------------------------------------------
(* How often an event is in the first part of a list. *)

Among(s, n, e) == Occurrences(SubSeq(s, 1, n), e)
Amid(s, i, m, e) == Occurrences(SubSeq(s, i, m), e)

\* What comes to it from n to m.
LEMMA AmongPart ==
  ASSUME NEW s \in Seq(Event), NEW m \in 0..Len(s), NEW n \in 0..m, NEW e
  PROVE  /\ Amid(s, n + 1, m, e) \in Nat /\ Among(s, n, e) \in Nat
         /\ Among(s, m, e) = Among(s, n, e) + Amid(s, n + 1, m, e)
         /\ Amid(s, n + 1, m, e) = 0 <=> \A k \in (n + 1)..m : s[k] # e
<1>1. PICK l \in Nat : l = Len(s) /\ m \in 0..l /\ n \in 0..l
  OBVIOUS
<1>2. PICK t : t = SubSeq(s, 1, m)
  OBVIOUS
<1>3. t \in Seq(Event) /\ Len(t) = m /\ \A k \in 1..m : t[k] = s[k]
  BY <1>1, <1>2, TwoParts
<1>4. SubSeq(t, 1, n) = SubSeq(s, 1, n)
  BY <1>1, <1>2, <1>3
<1>5. SubSeq(t, n + 1, m) = SubSeq(s, n + 1, m)
  BY <1>1, <1>2, <1>3
<1>6. PICK a \in Seq(Event), b \in Seq(Event) : a = SubSeq(s, 1, n) /\ b = SubSeq(s, n + 1, m)
  BY <1>1, <1>3, <1>4, <1>5, TwoParts
<1>7. /\ t = a \o b /\ Len(b) = m - n /\ \A k \in 1..(m - n) : b[k] = t[n + k]
  <2>1. n \in 0..Len(t) /\ a = SubSeq(t, 1, n) /\ b = SubSeq(t, n + 1, Len(t))
    BY <1>1, <1>3, <1>4, <1>5, <1>6
  <2>2. /\ t = a \o b /\ Len(b) = Len(t) - n /\ \A k \in 1..(Len(t) - n) : b[k] = t[n + k]
    BY <1>3, <2>1, TwoParts, Zenon
  <2>. QED
    BY <1>3, <2>2, Zenon
<1>8. Occurrences(t, e) = Occurrences(a, e) + Occurrences(b, e)
  BY <1>6, <1>7, OccBoth
<1>9. Len(a) \in Nat /\ Len(b) \in Nat
  BY <1>6
<1>10. /\ Occurrences(a, e) \in Nat /\ Occurrences(b, e) \in Nat
       /\ Occurrences(b, e) = 0 <=> \A k \in 1..Len(b) : b[k] # e
  BY <1>9, OccNat
<1>11. (\A k \in 1..Len(b) : b[k] # e) <=> \A k \in (n + 1)..m : s[k] # e
  <2>1. ASSUME NEW k \in 1..(m - n) PROVE n + k \in (n + 1)..m /\ b[k] = s[n + k]
    <3>1. n + k \in 1..m /\ n + k \in (n + 1)..m
      BY <1>1
    <3>. QED
      BY <1>3, <1>7, <3>1
  <2>2. ASSUME NEW k \in (n + 1)..m PROVE k - n \in 1..(m - n) /\ s[k] = b[k - n]
    <3>1. k - n \in 1..(m - n) /\ n + (k - n) = k
      BY <1>1
    <3>. QED
      BY <2>1, <3>1
  <2>3. Len(b) = m - n
    BY <1>7
  <2>. QED
    BY <2>1, <2>2, <2>3, Zenon
<1>12. Among(s, n, e) = Occurrences(a, e) /\ Among(s, m, e) = Occurrences(t, e)
  BY <1>2, <1>6, Zenon DEF Among
<1>13. Amid(s, n + 1, m, e) = Occurrences(b, e)
  BY <1>6, Zenon DEF Amid
<1>. QED
  BY <1>8, <1>10, <1>11, <1>12, <1>13, Zenon

\* From the i-th to the m-th.
LEMMA AmongFrom ==
  ASSUME NEW s \in Seq(Event), NEW m \in 0..Len(s), NEW i \in 1..(m + 1), NEW e
  PROVE  /\ Amid(s, i, m, e) \in Nat /\ Among(s, i - 1, e) \in Nat
         /\ Among(s, m, e) = Among(s, i - 1, e) + Amid(s, i, m, e)
         /\ Amid(s, i, m, e) = 0 <=> \A k \in i..m : s[k] # e
<1>1. m \in Nat
  OBVIOUS
<1>2. PICK n : n = i - 1
  OBVIOUS
<1>3. n \in 0..m /\ n + 1 = i
  BY <1>1, <1>2
<1>4. /\ Amid(s, n + 1, m, e) \in Nat /\ Among(s, n, e) \in Nat
      /\ Among(s, m, e) = Among(s, n, e) + Amid(s, n + 1, m, e)
      /\ Amid(s, n + 1, m, e) = 0 <=> \A k \in (n + 1)..m : s[k] # e
  BY <1>3, AmongPart
<1>. QED
  BY <1>2, <1>3, <1>4, Zenon

\* The further, the more.
LEMMA AmongUp ==
  ASSUME NEW s \in Seq(Event), NEW i \in 1..(Len(s) + 1), NEW j \in i..(Len(s) + 1), NEW e
  PROVE  /\ Among(s, i - 1, e) \in Nat /\ Among(s, j - 1, e) \in Nat
         /\ Among(s, i - 1, e) <= Among(s, j - 1, e)
         /\ Amid(s, i, j - 1, e) \in Nat
         /\ Among(s, j - 1, e) = Among(s, i - 1, e) + Amid(s, i, j - 1, e)
         /\ Amid(s, i, j - 1, e) = 0 <=> \A k \in i..(j - 1) : s[k] # e
<1>1. PICK m : m = j - 1
  OBVIOUS
<1>2. m \in 0..Len(s) /\ i \in 1..(m + 1)
  <2>1. Len(s) \in Nat
    OBVIOUS
  <2>. QED
    BY <1>1, <2>1
<1>3. /\ Among(s, i - 1, e) \in Nat /\ Amid(s, i, m, e) \in Nat
      /\ Among(s, m, e) = Among(s, i - 1, e) + Amid(s, i, m, e)
      /\ Amid(s, i, m, e) = 0 <=> \A k \in i..m : s[k] # e
  BY <1>2, AmongFrom
<1>. QED
  BY <1>1, <1>3

\* None is among the first none, and all are among all.
LEMMA AmongEnds ==
  ASSUME NEW s \in Seq(Event), NEW e
  PROVE  Among(s, 0, e) = 0 /\ Among(s, Len(s), e) = Occurrences(s, e)
<1>1. SubSeq(s, 1, 0) = <<>> /\ SubSeq(s, 1, Len(s)) = s
  OBVIOUS
<1>. QED
  BY <1>1, OccFew DEF Among

\* All that is not among the first comes after them.
LEMMA AmongRest ==
  ASSUME NEW s \in Seq(Event), NEW i \in 1..(Len(s) + 1), NEW e
  PROVE  /\ Among(s, i - 1, e) \in Nat /\ Occurrences(s, e) \in Nat
         /\ Among(s, i - 1, e) <= Occurrences(s, e)
         /\ (\A k \in i..Len(s) : s[k] # e) => Among(s, i - 1, e) = Occurrences(s, e)
<1>1. Len(s) \in 0..Len(s)
  OBVIOUS
<1>2. /\ Among(s, i - 1, e) \in Nat /\ Amid(s, i, Len(s), e) \in Nat
      /\ Among(s, Len(s), e) = Among(s, i - 1, e) + Amid(s, i, Len(s), e)
      /\ Amid(s, i, Len(s), e) = 0 <=> \A k \in i..Len(s) : s[k] # e
  BY <1>1, AmongFrom
<1>3. Among(s, Len(s), e) = Occurrences(s, e)
  BY AmongEnds
<1>. QED
  BY <1>2, <1>3

\* One event more.
LEMMA AmongNext ==
  ASSUME NEW s \in Seq(Event), NEW n \in Nat, n < Len(s), NEW e
  PROVE  Among(s, n, e) \in Nat /\ Among(s, n + 1, e) = Among(s, n, e) + IF s[n + 1] = e THEN 1 ELSE 0
<1>1. n + 1 \in 0..Len(s) /\ n \in 0..(n + 1)
  OBVIOUS
<1>2. n + 1 \in 1..Len(s) /\ (n + 1) - (n + 1) + 1 = 1
  OBVIOUS
<1>3. PICK t \in Seq(Event) : t = SubSeq(s, n + 1, n + 1)
  <2>1. n + 1 \in 1..(Len(s) + 1) /\ n + 1 \in 0..Len(s)
    OBVIOUS
  <2>. QED
    BY <2>1, PartOf, Zenon
<1>4. Len(t) = 1 /\ t[1] = s[n + 1]
  BY <1>2, <1>3
<1>5. t = <<s[n + 1]>>
  BY <1>4
<1>6. Occurrences(t, e) = IF s[n + 1] = e THEN 1 ELSE 0
  BY <1>5, OccFew, Zenon
<1>7. Amid(s, n + 1, n + 1, e) = Occurrences(t, e)
  BY <1>3, Zenon DEF Amid
<1>8. Among(s, n, e) \in Nat /\ Among(s, n + 1, e) = Among(s, n, e) + Amid(s, n + 1, n + 1, e)
  <2>1. PICK m : m = n + 1
    OBVIOUS
  <2>2. m \in 0..Len(s) /\ n \in 0..m
    BY <1>1, <2>1
  <2>3. Among(s, n, e) \in Nat /\ Among(s, m, e) = Among(s, n, e) + Amid(s, n + 1, m, e)
    BY <2>2, AmongPart
  <2>. QED
    BY <2>1, <2>3, Zenon
<1>. QED
  BY <1>6, <1>7, <1>8, Zenon

\* An event is among the first n, none is.
LEMMA AmongNone ==
  ASSUME NEW s \in Seq(Event), NEW n \in 0..Len(s), NEW e
  PROVE  Among(s, n, e) \in Nat /\ (Among(s, n, e) = 0 <=> \A k \in 1..n : s[k] # e)
<1>1. 0 \in 0..n /\ n \in 0..Len(s) /\ 0 + 1 = 1
  OBVIOUS
<1>2. Amid(s, 1, n, e) \in Nat /\ (Amid(s, 1, n, e) = 0 <=> \A k \in 1..n : s[k] # e)
  BY <1>1, AmongFrom
<1>3. Among(s, n, e) = Amid(s, 1, n, e)
  BY Zenon DEF Among, Amid
<1>. QED
  BY <1>2, <1>3, Zenon

---------------------------------------------------------------------------------
(* The query over windows that follow each other. *)

\* Whether an event overlaps one of the first m windows of w.
InFirst(w, e, m) == \E k \in DOMAIN w : k <= m /\ Overlaps(e, w[k])

\* What has been passed of s when the helper is at i, the k-th window stabbed or not yet:
\* what starts by the end of the last window, or, after a stab, in it or before.
WindowPassed(s, w, i, k, stabbed) ==
  IF stabbed
  THEN /\ i > 1 => s[i - 1].start <= w[k].end
       /\ i <= Len(s) => w[k].start < s[i].start
  ELSE i > 1 => /\ k > 1 /\ s[i - 1].start <= w[k - 1].end
                /\ i <= Len(s) => w[k - 1].end < s[i].start

\* Of what is passed no event is written twice, and none outside the windows.
Few(s, w, i, k, out) ==
  \A e \in Event : /\ Occurrences(out, e) <= Among(s, i - 1, e)
                   /\ Occurrences(out, e) # 0 => InFirst(w, e, k)

\* A window that is stabbed comes after all that is passed, so stab_forward allows it.
LEMMA WindowAhead ==
  ASSUME NEW s \in Seq(Event), NEW w \in Seq(Event), Follow(w), NEW k \in 1..Len(w),
         NEW i \in 1..(Len(s) + 1), WindowPassed(s, w, i, k, FALSE), i > 1
  PROVE  /\ s[i - 1].start < w[k].start
         /\ i <= Len(s) => s[i].start # s[i - 1].start
<1>1. PICK n \in Nat : n = Len(s) /\ i \in 1..(n + 1) /\ \A j \in 1..n : s[j] \in Event
  OBVIOUS
<1>2. PICK m \in Nat : m = Len(w) /\ k \in 1..m /\ \A j \in 1..m : w[j] \in Event
  OBVIOUS
<1>3. k > 1 /\ s[i - 1].start <= w[k - 1].end /\ (i <= n => w[k - 1].end < s[i].start)
  BY <1>1 DEF WindowPassed
<1>4. k - 1 \in 1..m /\ i - 1 \in 1..n /\ k - 1 < k
  BY <1>1, <1>2, <1>3
<1>5. w[k - 1].end < w[k].start
  <2>1. k - 1 \in DOMAIN w /\ k \in DOMAIN w
    BY <1>2, <1>4
  <2>. QED
    BY <1>4, <2>1 DEF Follow
<1>6. s[i - 1].start \in Int /\ w[k - 1].end \in Int /\ w[k].start \in Int
  BY <1>1, <1>2, <1>4, EventTimes
<1>7. s[i - 1].start < w[k].start
  BY <1>3, <1>5, <1>6
<1>8. ASSUME i <= n PROVE s[i].start # s[i - 1].start
  <2>1. i \in 1..n
    BY <1>1, <1>8
  <2>2. s[i].start \in Int
    BY <1>1, <2>1, EventTimes
  <2>. QED
    BY <1>3, <1>6, <1>8, <2>2
<1>. QED
  BY <1>1, <1>7, <1>8

\* What a stab at v writes, having passed i - 1 events and then j - 1.
Fresher(s, i, j, v, t) ==
  \A e \in Event : Occurrences(t, e) # 0 =>
    ActiveAt(e, v) /\ Occurrences(t, e) <= Among(s, j - 1, e) /\ Among(s, i - 1, e) = 0

\* That is what every stab does of a helper that is asked.
LEMMA StabFresher ==
  ASSUME NEW f, ContentInv(f), NEW s, s = f.events, NEW i \in 1..(Len(s) + 1), NEW way, NEW v,
         MayAsk(f, i, way, v), NEW t \in Seq(Event), Right(f, t, i, v), NEW j, j = StartsAfter(s, v)
  PROVE  /\ j \in i..(Len(s) + 1) /\ \A k \in 1..Len(s) : s[k].start <= v <=> k < j
         /\ Fresher(s, i, j, v, t)
<1>1. s \in Seq(Event) /\ Ordered(s)
  BY DEF ContentInv, ForestInv, Shape, Typed, EventsOK
<1>2. PICK n \in Nat : n = Len(s) /\ \A k \in 1..n : s[k] \in Event
  BY <1>1
<1>3. PICK x : x = Passed(f, i)
  OBVIOUS
<1>4. x \in Int /\ x < v /\ \A k \in 1..n : s[k].start <= x <=> k < i
  <2>1. i \in 1..(Len(f.events) + 1)
    OBVIOUS
  <2>. QED
    BY <1>2, <1>3, <2>1, AskedPassed
<1>5. v \in Int
  BY EventAssumption DEF MayAsk, Timestamp
<1>6. \A k \in 1..n : s[k].start \in Int
  BY <1>2, EventTimes
<1>7. i <= j /\ j \in 1..(n + 1) /\ \A k \in 1..n : s[k].start <= v <=> k < j
  <2>1. ASSUME NEW k \in 1..(i - 1) PROVE s[k].start <= v
    <3>1. k \in 1..n /\ k < i
      BY <1>2
    <3>2. s[k].start <= x /\ s[k].start \in Int
      BY <1>4, <1>6, <3>1
    <3>. QED
      BY <1>4, <1>5, <3>2
  <2>. QED
    BY <1>1, <1>2, <1>5, <2>1, NextPlace
<1>8. j \in i..(n + 1)
  BY <1>2, <1>7
<1>9. Holds(ExpectedOf(s, i, v), s, Active(v) \cap Past(x))
  BY <1>1, <1>2, <1>4, <1>5, ListHolds
<1>10. ASSUME NEW e \in Event, Occurrences(t, e) # 0
       PROVE  ActiveAt(e, v) /\ Occurrences(t, e) <= Among(s, j - 1, e) /\ Among(s, i - 1, e) = 0
  <2>1. Occurrences(t, e) \in Nat /\ Occurrences(t, e) <= Occurrences(ExpectedOf(s, i, v), e)
    <3>1. Len(t) \in Nat
      OBVIOUS
    <3>. QED
      BY <3>1, OccNat DEF Right
  <2>2. Occurrences(ExpectedOf(s, i, v), e) = IF e \in Active(v) \cap Past(x) THEN Occurrences(s, e) ELSE 0
    BY <1>9 DEF Holds
  <2>3. e \in Active(v) \cap Past(x)
    BY <1>10, <2>1, <2>2
  <2>4. ActiveAt(e, v) /\ x < e.start /\ e.start <= v
    BY <2>3 DEF Active, Past, ActiveAt
  <2>5. Among(s, i - 1, e) = 0
    <3>1. i - 1 \in 0..n
      BY <1>2
    <3>2. ASSUME NEW k \in 1..(i - 1) PROVE s[k] # e
      <4>1. k \in 1..n /\ k < i
        BY <1>2
      <4>2. s[k].start <= x
        BY <1>4, <4>1
      <4>3. s[k].start \in Int
        BY <1>6, <4>1
      <4>. QED
        BY <1>4, <2>4, <4>2, <4>3
    <3>. QED
      BY <1>1, <1>2, <3>1, <3>2, AmongNone
  <2>6. Among(s, j - 1, e) = Occurrences(s, e)
    <3>1. i \in 1..(Len(s) + 1) /\ j \in 1..(Len(s) + 1)
      BY <1>2, <1>7
    <3>2. ASSUME NEW k \in j..Len(s) PROVE s[k] # e
      <4>1. k \in 1..n /\ ~(k < j)
        BY <1>2, <1>7, <3>2
      <4>2. ~(s[k].start <= v)
        BY <1>7, <4>1
      <4>. QED
        BY <2>4, <4>2
    <3>. QED
      BY <1>1, <3>1, <3>2, AmongRest, Zenon
  <2>. QED
    BY <2>1, <2>2, <2>3, <2>4, <2>5, <2>6
<1>. QED
  BY <1>2, <1>7, <1>8, <1>10 DEF Fresher

\* What a stab adds to the output.
LEMMA FewStab ==
  ASSUME NEW s \in Seq(Event), NEW i \in 1..(Len(s) + 1), NEW j \in i..(Len(s) + 1),
         NEW w \in Seq(Event), NEW k \in 1..Len(w), NEW out \in Seq(Event), Few(s, w, i, k, out),
         NEW t \in Seq(Event), Fresher(s, i, j, w[k].start, t)
  PROVE  Few(s, w, j, k, out \o t)
<1>1. PICK n \in Nat : n = Len(s) /\ i \in 1..(n + 1) /\ j \in i..(n + 1)
  OBVIOUS
<1>2. i - 1 \in 0..(j - 1) /\ j - 1 \in 0..n
  BY <1>1
<1>3. w[k] \in Event /\ k \in DOMAIN w /\ k <= k
  OBVIOUS
<1>4. ASSUME NEW e \in Event
      PROVE  /\ Occurrences(out \o t, e) <= Among(s, j - 1, e)
             /\ Occurrences(out \o t, e) # 0 => InFirst(w, e, k)
  <2>1. Occurrences(out \o t, e) = Occurrences(out, e) + Occurrences(t, e)
    BY OccBoth
  <2>2. Occurrences(out, e) \in Nat /\ Occurrences(t, e) \in Nat
    <3>1. Len(out) \in Nat /\ Len(t) \in Nat
      OBVIOUS
    <3>. QED
      BY <3>1, OccNat
  <2>3. Among(s, i - 1, e) \in Nat /\ Among(s, j - 1, e) \in Nat /\ Among(s, i - 1, e) <= Among(s, j - 1, e)
    BY AmongUp, Zenon
  <2>4. Occurrences(out, e) <= Among(s, i - 1, e) /\ (Occurrences(out, e) # 0 => InFirst(w, e, k))
    BY DEF Few
  <2>5. CASE Occurrences(t, e) = 0
    BY <2>1, <2>2, <2>3, <2>4, <2>5
  <2>6. CASE Occurrences(t, e) # 0
    <3>1. ActiveAt(e, w[k].start) /\ Occurrences(t, e) <= Among(s, j - 1, e) /\ Among(s, i - 1, e) = 0
      BY <2>6 DEF Fresher
    <3>2. e.start <= w[k].end /\ w[k].start <= e.end
      <4>1. e.start \in Int /\ w[k].start \in Int /\ w[k].end \in Int /\ w[k].start <= w[k].end
        BY <1>3, EventTimes
      <4>. QED
        BY <3>1, <4>1 DEF ActiveAt
    <3>3. InFirst(w, e, k)
      BY <1>3, <3>2 DEF InFirst, Overlaps
    <3>. QED
      BY <2>1, <2>2, <2>3, <2>4, <3>1, <3>3
  <2>. QED
    BY <2>5, <2>6
<1>. QED
  BY <1>4 DEF Few

\* So a stab keeps what holds over windows that follow each other.
LEMMA WindowStab ==
  ASSUME NEW f, ContentInv(f), NEW s, s = f.events, NEW w \in Seq(Event), Follow(w), NEW k \in 1..Len(w),
         NEW h, NEW i, h.it = i, Knows(f, h, Passed(f, i)), i > Len(s) => h.policy # "index",
         WindowPassed(s, w, i, k, FALSE), NEW out \in Seq(Event), Few(s, w, i, k, out),
         NEW g, g = StabForwardOp(f, h, w[k].start), NEW j, j = g.it
  PROVE  /\ Knows(f, g, Passed(f, j)) /\ out \o g.out \in Seq(Event)
         /\ WindowPassed(s, w, j, k, TRUE) /\ Few(s, w, j, k, out \o g.out)
<1>1. s \in Seq(Event)
  BY DEF ContentInv, ForestInv, Shape, Typed
<1>2. PICK n \in Nat : n = Len(s) /\ \A c \in 1..n : s[c] \in Event
  BY <1>1
<1>3. i \in 1..(n + 1)
  BY <1>1, <1>2, KnowsSome
<1>4. PICK v : v = w[k].start
  OBVIOUS
<1>5. w[k] \in Event /\ v \in Timestamp /\ v \in Int /\ w[k].end \in Int /\ v <= w[k].end
  <2>1. w[k] \in Event
    OBVIOUS
  <2>2. v \in Timestamp
    BY <1>4, <2>1, EventAssumption
  <2>. QED
    BY <1>4, <2>1, <2>2, EventTimes
<1>6. MayAsk(f, i, h.policy, v)
  <2>1. i > 1 => s[i - 1].start < v /\ (i <= n => s[i].start # s[i - 1].start)
    BY <1>1, <1>2, <1>3, <1>4, WindowAhead
  <2>2. i > 1 => v > f.events[i - 1].start /\ (i <= Len(f.events) => f.events[i].start # f.events[i - 1].start)
    <3>1. ASSUME i > 1 PROVE s[i - 1].start \in Int
      <4>1. i - 1 \in 1..n
        BY <1>3, <3>1
      <4>. QED
        BY <1>2, <4>1, EventTimes
    <3>. QED
      BY <1>2, <1>5, <2>1, <3>1
  <2>3. i > Len(f.events) => h.policy # "index"
    OBVIOUS
  <2>. QED
    BY <1>5, <2>2, <2>3 DEF MayAsk
<1>7. PICK x : x = Passed(f, i)
  OBVIOUS
<1>8. Knows(f, g, Passed(f, g.it)) /\ g.it = StartsAfter(f.events, v) /\ Right(f, g.out, i, v)
  BY <1>4, <1>6, <1>7, StabAhead
<1>9. PICK t : t = g.out
  OBVIOUS
<1>10. t \in Seq(Event)
  BY <1>8, <1>9 DEF Knows, Helpers
<1>11. j = StartsAfter(s, v)
  BY <1>8
<1>12. /\ j \in i..(n + 1) /\ \A c \in 1..n : s[c].start <= v <=> c < j
       /\ Fresher(s, i, j, v, t)
  BY <1>2, <1>3, <1>6, <1>8, <1>9, <1>10, <1>11, StabFresher
<1>13. WindowPassed(s, w, j, k, TRUE)
  <2>1. ASSUME j > 1 PROVE s[j - 1].start <= w[k].end
    <3>1. j - 1 \in 1..n /\ j - 1 < j
      BY <1>3, <1>12, <2>1
    <3>2. s[j - 1].start <= v /\ s[j - 1].start \in Int
      BY <1>2, <1>12, <3>1, EventTimes
    <3>. QED
      BY <1>5, <3>2
  <2>2. ASSUME j <= n PROVE w[k].start < s[j].start
    <3>1. j \in 1..n /\ ~(j < j)
      BY <1>3, <1>12, <2>2
    <3>2. ~(s[j].start <= v) /\ s[j].start \in Int
      BY <1>2, <1>12, <3>1, EventTimes
    <3>. QED
      BY <1>4, <1>5, <3>2
  <2>. QED
    BY <1>2, <2>1, <2>2 DEF WindowPassed
<1>14. Few(s, w, j, k, out \o t)
  BY <1>1, <1>2, <1>3, <1>4, <1>12, <1>10, FewStab
<1>15. out \o t \in Seq(Event)
  BY <1>10
<1>. QED
  BY <1>8, <1>9, <1>13, <1>14, <1>15

\* An event scanned in its window is one of those asked for.
LEMMA FewScan ==
  ASSUME NEW s \in Seq(Event), NEW w \in Seq(Event), NEW k \in 1..Len(w), NEW i \in 1..Len(s),
         w[k].start < s[i].start, s[i].start <= w[k].end, NEW out \in Seq(Event), Few(s, w, i, k, out)
  PROVE  Append(out, s[i]) \in Seq(Event) /\ Few(s, w, i + 1, k, Append(out, s[i]))
<1>1. PICK n \in Nat : n = Len(s) /\ i \in 1..n /\ \A c \in 1..n : s[c] \in Event
  OBVIOUS
<1>2. PICK a \in Event : a = s[i]
  BY <1>1
<1>3. PICK b \in Event : b = w[k]
  OBVIOUS
<1>4. a.start \in Int /\ a.end \in Int /\ a.start <= a.end /\ b.start \in Int /\ b.start < a.start /\ a.start <= b.end
  BY <1>2, <1>3, EventTimes
<1>5. InFirst(w, a, k)
  <2>1. k \in DOMAIN w /\ k <= k
    OBVIOUS
  <2>2. a.start <= w[k].end /\ w[k].start <= a.end
    BY <1>3, <1>4
  <2>. QED
    BY <2>1, <2>2 DEF InFirst, Overlaps
<1>6. Append(out, s[i]) = out \o <<a>> /\ <<a>> \in Seq(Event) /\ Append(out, s[i]) \in Seq(Event)
  <2>1. \A x \in Event : Append(out, x) = out \o <<x>> /\ <<x>> \in Seq(Event) /\ Append(out, x) \in Seq(Event)
    OBVIOUS
  <2>. QED
    BY <1>2, <2>1
<1>7. ASSUME NEW e \in Event
      PROVE  /\ Occurrences(out \o <<a>>, e) <= Among(s, i, e)
             /\ Occurrences(out \o <<a>>, e) # 0 => InFirst(w, e, k)
  <2>1. Occurrences(out \o <<a>>, e) = Occurrences(out, e) + IF a = e THEN 1 ELSE 0
    <3>1. Occurrences(out \o <<a>>, e) = Occurrences(out, e) + Occurrences(<<a>>, e)
      BY <1>6, OccBoth, Zenon
    <3>. QED
      BY <3>1, OccFew, Zenon
  <2>2. i - 1 \in Nat /\ i - 1 < n /\ (i - 1) + 1 = i
    BY <1>1
  <2>3. Among(s, i - 1, e) \in Nat /\ Among(s, i, e) = Among(s, i - 1, e) + IF a = e THEN 1 ELSE 0
    BY <1>1, <1>2, <2>2, AmongNext
  <2>4. Occurrences(out, e) \in Nat
    <3>1. Len(out) \in Nat
      OBVIOUS
    <3>. QED
      BY <3>1, OccNat
  <2>5. Occurrences(out, e) <= Among(s, i - 1, e) /\ (Occurrences(out, e) # 0 => InFirst(w, e, k))
    BY DEF Few
  <2>. QED
    BY <1>5, <2>1, <2>3, <2>4, <2>5
<1>8. (i + 1) - 1 = i
  BY <1>1
<1>. QED
  BY <1>6, <1>7, <1>8 DEF Few

\* So the scan keeps what holds over windows that follow each other.
LEMMA WindowScan ==
  ASSUME NEW s \in Seq(Event), Ordered(s), NEW w \in Seq(Event), NEW k \in 1..Len(w), NEW i \in 1..Len(s),
         WindowPassed(s, w, i, k, TRUE), s[i].start <= w[k].end,
         NEW out \in Seq(Event), Few(s, w, i, k, out)
  PROVE  /\ Append(out, s[i]) \in Seq(Event)
         /\ WindowPassed(s, w, i + 1, k, TRUE) /\ Few(s, w, i + 1, k, Append(out, s[i]))
<1>1. PICK n \in Nat : n = Len(s) /\ i \in 1..n /\ \A c \in 1..n : s[c] \in Event
  OBVIOUS
<1>2. w[k].start < s[i].start
  BY <1>1 DEF WindowPassed
<1>3. (i + 1) - 1 = i
  BY <1>1
<1>4. ASSUME i + 1 <= n PROVE w[k].start < s[i + 1].start
  <2>1. i + 1 \in 1..n /\ i <= i + 1
    BY <1>1, <1>4
  <2>2. s[i].start <= s[i + 1].start /\ s[i].start \in Int /\ s[i + 1].start \in Int
    BY <1>1, <2>1, StartsUp
  <2>3. w[k].start \in Int
    BY EventTimes
  <2>. QED
    BY <1>2, <2>2, <2>3
<1>5. WindowPassed(s, w, i + 1, k, TRUE)
  BY <1>1, <1>3, <1>4 DEF WindowPassed
<1>6. Append(out, s[i]) \in Seq(Event) /\ Few(s, w, i + 1, k, Append(out, s[i]))
  BY <1>1, <1>2, FewScan
<1>. QED
  BY <1>5, <1>6

\* With a window more to ask for, no less is asked for.
LEMMA FewMore ==
  ASSUME NEW s, NEW w \in Seq(Event), NEW k \in Nat, NEW i, NEW out, Few(s, w, i, k, out)
  PROVE  Few(s, w, i, k + 1, out)
<1>1. \A e : InFirst(w, e, k) => InFirst(w, e, k + 1)
  <2>1. \A c \in DOMAIN w : c <= k => c <= k + 1
    OBVIOUS
  <2>. QED
    BY <2>1 DEF InFirst
<1>. QED
  BY <1>1 DEF Few

\* A window left behind.
LEMMA WindowLeft ==
  ASSUME NEW s \in Seq(Event), NEW w \in Seq(Event), NEW k \in 1..Len(w), NEW i \in 1..(Len(s) + 1),
         WindowPassed(s, w, i, k, TRUE), ~(i <= Len(s) /\ s[i].start <= w[k].end),
         NEW out, Few(s, w, i, k, out)
  PROVE  WindowPassed(s, w, i, k + 1, FALSE) /\ Few(s, w, i, k + 1, out)
<1>1. PICK n \in Nat : n = Len(s) /\ i \in 1..(n + 1) /\ \A c \in 1..n : s[c] \in Event
  OBVIOUS
<1>2. PICK b \in Event : b = w[k]
  OBVIOUS
<1>3. (k + 1) - 1 = k /\ k + 1 > 1 /\ k \in Nat
  OBVIOUS
<1>4. i > 1 => s[i - 1].start <= w[k].end
  BY DEF WindowPassed
<1>5. ASSUME i <= n PROVE b.end < s[i].start
  <2>1. i \in 1..n
    BY <1>1, <1>5
  <2>2. b.end \in Int /\ s[i].start \in Int
    BY <1>1, <2>1, EventTimes
  <2>. QED
    BY <1>1, <1>2, <1>5, <2>2
<1>6. WindowPassed(s, w, i, k + 1, FALSE)
  BY <1>1, <1>2, <1>3, <1>4, <1>5 DEF WindowPassed
<1>7. Few(s, w, i, k + 1, out)
  BY <1>3, FewMore
<1>. QED
  BY <1>6, <1>7

---------------------------------------------------------------------------------
(* The query along the list. *)

\* What is written by then, with the first m windows asked for: all that is passed and
\* overlaps one of them.
All(s, w, i, m, out) ==
  \A e \in Event : Occurrences(out, e) = IF InFirst(w, e, m) THEN Among(s, i - 1, e) ELSE 0

\* The helper's place among the windows: what is ahead starts after the windows left behind
\* and, after a stab, after the start of this one; what is passed is written or ends before
\* the windows still to come.
Apart(s, w, i, k, stabbed, m) ==
  /\ \A c \in i..Len(s) : /\ \A d \in 1..(k - 1) : w[d].end < s[c].start
                          /\ stabbed => w[k].start < s[c].start
  /\ \A c \in 1..(i - 1) : InFirst(w, s[c], m) \/ \A d \in (m + 1)..Len(w) : s[c].end < w[d].start

\* What a stab along the list finds, position by position.
LEMMA ListFinds ==
  ASSUME NEW s \in Seq(Event), NEW i \in 1..(Len(s) + 1), NEW v \in Int, NEW j, j = NextFrom(s, i, v)
  PROVE  /\ j \in i..(Len(s) + 1) /\ \A c \in i..(j - 1) : s[c].start <= v
         /\ j <= Len(s) => v < s[j].start
         /\ ListWrites(s, i, v) \in Seq(Event)
         /\ \A e \in Event : Occurrences(ListWrites(s, i, v), e) =
                               IF v <= e.end THEN Amid(s, i, j - 1, e) ELSE 0
<1>1. PICK n \in Nat : n = Len(s) /\ i \in 1..(n + 1) /\ \A c \in 1..n : s[c] \in Event
  OBVIOUS
<1>2. FirstFrom(s, i, j, Started(v))
  BY NextFirst
<1>3. /\ j \in i..(n + 1) /\ \A c \in i..(j - 1) : s[c] \in Started(v)
      /\ j <= n => s[j] \notin Started(v)
  BY <1>1, <1>2 DEF FirstFrom
<1>4. \A c \in i..(j - 1) : s[c].start <= v
  BY <1>3 DEF Started
<1>5. ASSUME j <= n PROVE v < s[j].start
  <2>1. j \in 1..n
    BY <1>1, <1>3, <1>5
  <2>2. s[j] \in Event /\ s[j].start \in Int /\ ~(s[j].start <= v)
    BY <1>1, <1>3, <1>5, <2>1, EventTimes DEF Started
  <2>. QED
    BY <2>2
<1>6. PICK t : t = SubSeq(s, i, j - 1)
  OBVIOUS
<1>7. t \in Seq(Event)
  <2>1. j - 1 \in 0..n /\ i \in 1..(n + 1)
    BY <1>1, <1>3
  <2>. QED
    BY <1>1, <1>6, <2>1, PartOf
<1>8. Holds(Selected(t, LAMBDA e : v <= e.end), t, Event \cap Lasting(v))
  BY <1>7, HoldsItself, SelectedHolds
<1>9. ListWrites(s, i, v) = Selected(t, LAMBDA e : v <= e.end)
  BY <1>6 DEF ListWrites
<1>10. \A e \in Event : e \in Event \cap Lasting(v) <=> v <= e.end
  BY DEF Lasting
<1>11. ASSUME NEW e \in Event
       PROVE  Occurrences(ListWrites(s, i, v), e) = IF v <= e.end THEN Amid(s, i, j - 1, e) ELSE 0
  BY <1>6, <1>8, <1>9, <1>10, <1>11 DEF Holds, Amid
<1>12. ListWrites(s, i, v) \in Seq(Event)
  BY <1>8, <1>9 DEF Holds
<1>. QED
  BY <1>1, <1>3, <1>4, <1>5, <1>11, <1>12

\* How often it finds an event.
LEMMA ListCounts ==
  ASSUME NEW s \in Seq(Event), NEW i \in 1..(Len(s) + 1), NEW v \in Int, NEW e \in Event
  PROVE  Occurrences(ListWrites(s, i, v), e) =
           IF v <= e.end THEN Amid(s, i, NextFrom(s, i, v) - 1, e) ELSE 0
<1>1. PICK j : j = NextFrom(s, i, v)
  OBVIOUS
<1>2. Occurrences(ListWrites(s, i, v), e) = IF v <= e.end THEN Amid(s, i, j - 1, e) ELSE 0
  BY <1>1, ListFinds
<1>. QED
  BY <1>1, <1>2

\* One window more is asked for.
LEMMA FirstMore ==
  ASSUME NEW w \in Seq(Event), NEW k \in 1..Len(w), NEW e
  PROVE  InFirst(w, e, k) <=> InFirst(w, e, k - 1) \/ Overlaps(e, w[k])
<1>1. k \in DOMAIN w /\ k \in Int /\ \A d \in DOMAIN w : d \in Int
  OBVIOUS
<1>2. \A d \in DOMAIN w : d <= k <=> d <= k - 1 \/ d = k
  BY <1>1
<1>. QED
  BY <1>1, <1>2 DEF InFirst

\* An event that is ahead overlaps no window left behind.
LEMMA AheadApart ==
  ASSUME NEW s \in Seq(Event), NEW w \in Seq(Event), NEW k \in 1..(Len(w) + 1), NEW i, NEW stabbed, NEW m,
         Apart(s, w, i, k, stabbed, m), NEW c \in i..Len(s), c \in 1..Len(s)
  PROVE  ~InFirst(w, s[c], k - 1)
<1>1. s[c] \in Event /\ \A d \in DOMAIN w : d \in 1..Len(w) /\ w[d] \in Event
  OBVIOUS
<1>2. ASSUME NEW d \in DOMAIN w, d <= k - 1 PROVE ~Overlaps(s[c], w[d])
  <2>1. d \in 1..(k - 1)
    BY <1>1, <1>2
  <2>2. w[d].end < s[c].start
    BY <2>1 DEF Apart
  <2>3. w[d].end \in Int /\ s[c].start \in Int
    BY <1>1, EventTimes
  <2>. QED
    BY <2>2, <2>3 DEF Overlaps
<1>. QED
  BY <1>2 DEF InFirst

\* A stab along the list writes what has not been written and is asked for now.
LEMMA ListStabAll ==
  ASSUME NEW s \in Seq(Event), NEW w \in Seq(Event), NEW k \in 1..Len(w), NEW i \in 1..(Len(s) + 1),
         Apart(s, w, i, k, FALSE, k - 1), NEW out \in Seq(Event), All(s, w, i, k - 1, out),
         NEW v \in Int, v = w[k].start, NEW j, j = NextFrom(s, i, v), NEW t, t = ListWrites(s, i, v)
  PROVE  out \o t \in Seq(Event) /\ All(s, w, j, k, out \o t)
<1>1. PICK n \in Nat : n = Len(s) /\ i \in 1..(n + 1) /\ \A c \in 1..n : s[c] \in Event
  OBVIOUS
<1>2. PICK b \in Event : b = w[k]
  OBVIOUS
<1>4. /\ j \in i..(n + 1) /\ \A c \in i..(j - 1) : s[c].start <= v
      /\ t \in Seq(Event)
      /\ \A e \in Event : Occurrences(t, e) = IF v <= e.end THEN Amid(s, i, j - 1, e) ELSE 0
  <2>1. \A e \in Event : Occurrences(ListWrites(s, i, v), e) =
                            IF v <= e.end THEN Amid(s, i, NextFrom(s, i, v) - 1, e) ELSE 0
    BY ListCounts
  <2>2. /\ j \in i..(Len(s) + 1) /\ \A c \in i..(j - 1) : s[c].start <= v
        /\ t \in Seq(Event)
    BY ListFinds
  <2>. QED
    BY <1>1, <2>1, <2>2
<1>5. j - 1 \in 0..n /\ i - 1 \in 0..(j - 1) /\ (i - 1) + 1 = i
  BY <1>1, <1>4
<1>6. k \in 1..(Len(w) + 1)
  OBVIOUS
<1>7. ASSUME NEW e \in Event
      PROVE  Occurrences(out \o t, e) = IF InFirst(w, e, k) THEN Among(s, j - 1, e) ELSE 0
  <2>1. PICK a : a = Among(s, i - 1, e)
    OBVIOUS
  <2>2. PICK q : q = Amid(s, i, j - 1, e)
    OBVIOUS
  <2>3. /\ a \in Nat /\ q \in Nat /\ Among(s, j - 1, e) = a + q
        /\ q = 0 <=> \A c \in i..(j - 1) : s[c] # e
    <3>1. j \in i..(Len(s) + 1)
      BY <1>1, <1>4
    <3>2. /\ Among(s, i - 1, e) \in Nat /\ Amid(s, i, j - 1, e) \in Nat
          /\ Among(s, j - 1, e) = Among(s, i - 1, e) + Amid(s, i, j - 1, e)
          /\ Amid(s, i, j - 1, e) = 0 <=> \A c \in i..(j - 1) : s[c] # e
      BY <3>1, AmongUp
    <3>. QED
      BY <2>1, <2>2, <3>2, Zenon
  <2>4. Occurrences(out \o t, e) = Occurrences(out, e) + Occurrences(t, e)
    BY <1>4, OccBoth
  <2>5. Occurrences(out, e) = IF InFirst(w, e, k - 1) THEN a ELSE 0
    BY <2>1 DEF All
  <2>6. Occurrences(t, e) = IF v <= e.end THEN q ELSE 0
    BY <1>4, <2>2
  <2>7. InFirst(w, e, k) <=> InFirst(w, e, k - 1) \/ Overlaps(e, b)
    BY <1>2, FirstMore
  <2>8. e.start \in Int /\ e.end \in Int /\ b.start = v /\ b.end \in Int /\ b.start <= b.end
    BY <1>2, EventTimes
  <2>9. a # 0 => InFirst(w, e, k - 1) \/ e.end < v
    <3>1. a = 0 <=> \A c \in 1..(i - 1) : s[c] # e
      BY <1>1, <1>5, <2>1, AmongNone
    <3>2. ASSUME NEW c \in 1..(i - 1), s[c] = e PROVE InFirst(w, e, k - 1) \/ e.end < v
      <4>1. InFirst(w, e, k - 1) \/ \A d \in ((k - 1) + 1)..Len(w) : e.end < w[d].start
        BY <3>2 DEF Apart
      <4>2. k \in ((k - 1) + 1)..Len(w)
        OBVIOUS
      <4>. QED
        BY <4>1, <4>2
    <3>. QED
      BY <3>1, <3>2
  <2>10. q # 0 => e.start <= v /\ ~InFirst(w, e, k - 1)
    <3>1. ASSUME NEW c \in i..(j - 1), s[c] = e PROVE e.start <= v /\ ~InFirst(w, e, k - 1)
      <4>1. c \in i..Len(s) /\ c \in 1..Len(s)
        BY <1>1, <1>4
      <4>2. ~InFirst(w, s[c], k - 1)
        BY <1>6, <4>1, AheadApart
      <4>. QED
        BY <1>4, <3>1, <4>2
    <3>. QED
      BY <2>3, <3>1
  <2>11. CASE q = 0
    <3>1. a # 0 /\ Overlaps(e, b) => InFirst(w, e, k - 1)
      BY <2>8, <2>9 DEF Overlaps
    <3>. QED
      BY <2>3, <2>4, <2>5, <2>6, <2>7, <2>11, <3>1
  <2>12. CASE q # 0
    <3>1. e.start <= v /\ ~InFirst(w, e, k - 1) /\ Occurrences(out, e) = 0
      BY <2>5, <2>10, <2>12
    <3>2. InFirst(w, e, k) <=> v <= e.end
      BY <2>7, <2>8, <3>1 DEF Overlaps
    <3>3. v <= e.end => a = 0
      BY <2>8, <2>9, <3>1
    <3>. QED
      BY <2>3, <2>4, <2>6, <3>1, <3>2, <3>3
  <2>. QED
    BY <2>11, <2>12
<1>8. out \o t \in Seq(Event)
  BY <1>4
<1>. QED
  BY <1>7, <1>8 DEF All

\* It leaves the helper in its place.
LEMMA ListStabApart ==
  ASSUME NEW s \in Seq(Event), Ordered(s), NEW w \in Seq(Event), Ordered(w), NEW k \in 1..Len(w),
         NEW i \in 1..(Len(s) + 1), Apart(s, w, i, k, FALSE, k - 1),
         NEW v \in Int, v = w[k].start, NEW j, j = NextFrom(s, i, v)
  PROVE  j \in 1..(Len(s) + 1) /\ Apart(s, w, j, k, TRUE, k)
<1>1. PICK n \in Nat : n = Len(s) /\ i \in 1..(n + 1) /\ \A c \in 1..n : s[c] \in Event
  OBVIOUS
<1>2. PICK m \in Nat : m = Len(w) /\ k \in 1..m /\ \A d \in 1..m : w[d] \in Event
  OBVIOUS
<1>3. j \in i..(n + 1) /\ (\A c \in i..(j - 1) : s[c].start <= v) /\ (j <= n => v < s[j].start)
  BY <1>1, ListFinds
<1>4. ASSUME NEW c \in j..n
      PROVE  (\A d \in 1..(k - 1) : w[d].end < s[c].start) /\ w[k].start < s[c].start
  <2>1. c \in i..n /\ c \in 1..n /\ j \in 1..n /\ j <= c /\ j <= n
    BY <1>1, <1>3
  <2>2. s[j].start <= s[c].start /\ s[j].start \in Int /\ s[c].start \in Int
    BY <1>1, <2>1, StartsUp
  <2>3. v < s[c].start
    BY <1>3, <2>1, <2>2
  <2>4. \A d \in 1..(k - 1) : w[d].end < s[c].start
    BY <1>1, <2>1 DEF Apart
  <2>. QED
    BY <2>3, <2>4
<1>5. ASSUME NEW c \in 1..(j - 1)
      PROVE  InFirst(w, s[c], k) \/ \A d \in (k + 1)..m : s[c].end < w[d].start
  <2>1. c \in 1..n /\ s[c] \in Event
    BY <1>1, <1>3
  <2>2. CASE c < i
    <3>1. c \in 1..(i - 1)
      BY <1>1, <2>1, <2>2
    <3>2. InFirst(w, s[c], k - 1) \/ \A d \in ((k - 1) + 1)..m : s[c].end < w[d].start
      BY <1>2, <3>1 DEF Apart
    <3>3. InFirst(w, s[c], k - 1) => InFirst(w, s[c], k)
      BY FirstMore
    <3>4. \A d \in (k + 1)..m : d \in ((k - 1) + 1)..m
      BY <1>2
    <3>. QED
      BY <3>2, <3>3, <3>4
  <2>3. CASE i <= c
    <3>1. s[c].start <= v
      <4>1. c \in i..(j - 1)
        BY <1>3, <2>1, <2>3
      <4>. QED
        BY <1>3, <4>1
    <3>2. s[c].start \in Int /\ s[c].end \in Int /\ w[k].end \in Int /\ v <= w[k].end
      BY <1>2, <2>1, EventTimes
    <3>3. CASE v <= s[c].end
      <4>1. Overlaps(s[c], w[k])
        BY <3>1, <3>2, <3>3 DEF Overlaps
      <4>. QED
        BY <4>1, FirstMore
    <3>4. CASE ~(v <= s[c].end)
      <4>1. ASSUME NEW d \in (k + 1)..m PROVE s[c].end < w[d].start
        <5>1. d \in 1..m /\ k <= d
          BY <1>2
        <5>2. w[k].start <= w[d].start /\ w[d].start \in Int
          BY <1>2, <5>1, StartsUp
        <5>. QED
          BY <3>2, <3>4, <5>2
      <4>. QED
        BY <4>1
    <3>. QED
      BY <3>3, <3>4
  <2>4. c < i \/ i <= c
    BY <1>1, <2>1
  <2>. QED
    BY <2>2, <2>3, <2>4
<1>6. j \in 1..(n + 1)
  BY <1>1, <1>3
<1>. QED
  BY <1>1, <1>2, <1>4, <1>5, <1>6 DEF Apart

\* An event scanned in its window, ...
LEMMA ListScan ==
  ASSUME NEW s \in Seq(Event), NEW w \in Seq(Event), NEW k \in 1..Len(w), NEW i \in 1..Len(s),
         Apart(s, w, i, k, TRUE, k), s[i].start <= w[k].end,
         NEW out \in Seq(Event), All(s, w, i, k, out)
  PROVE  /\ Append(out, s[i]) \in Seq(Event)
         /\ Apart(s, w, i + 1, k, TRUE, k) /\ All(s, w, i + 1, k, Append(out, s[i]))
<1>1. PICK n \in Nat : n = Len(s) /\ i \in 1..n /\ \A c \in 1..n : s[c] \in Event
  OBVIOUS
<1>2. PICK a \in Event : a = s[i]
  BY <1>1
<1>3. PICK b \in Event : b = w[k]
  OBVIOUS
<1>4. InFirst(w, a, k)
  <2>1. i \in i..n
    BY <1>1
  <2>2. b.start < a.start /\ a.start <= b.end
    BY <1>1, <1>2, <1>3, <2>1 DEF Apart
  <2>3. Overlaps(a, b)
    BY <2>2, EventTimes DEF Overlaps
  <2>. QED
    BY <1>3, <2>3, FirstMore
<1>5. Apart(s, w, i + 1, k, TRUE, k)
  <2>1. \A c \in (i + 1)..n : c \in i..n
    BY <1>1
  <2>2. \A c \in 1..((i + 1) - 1) : c \in 1..(i - 1) \/ c = i
    BY <1>1
  <2>. QED
    BY <1>1, <1>2, <1>4, <2>1, <2>2 DEF Apart
<1>6. Append(out, s[i]) = out \o <<a>> /\ <<a>> \in Seq(Event) /\ Append(out, s[i]) \in Seq(Event)
  <2>1. \A x \in Event : Append(out, x) = out \o <<x>> /\ <<x>> \in Seq(Event) /\ Append(out, x) \in Seq(Event)
    OBVIOUS
  <2>. QED
    BY <1>2, <2>1
<1>7. ASSUME NEW e \in Event
      PROVE  Occurrences(out \o <<a>>, e) = IF InFirst(w, e, k) THEN Among(s, i, e) ELSE 0
  <2>1. Occurrences(out \o <<a>>, e) = Occurrences(out, e) + IF a = e THEN 1 ELSE 0
    <3>1. Occurrences(out \o <<a>>, e) = Occurrences(out, e) + Occurrences(<<a>>, e)
      BY <1>6, OccBoth, Zenon
    <3>. QED
      BY <3>1, OccFew, Zenon
  <2>2. i - 1 \in Nat /\ i - 1 < n /\ (i - 1) + 1 = i
    BY <1>1
  <2>3. Among(s, i - 1, e) \in Nat /\ Among(s, i, e) = Among(s, i - 1, e) + IF a = e THEN 1 ELSE 0
    BY <1>1, <1>2, <2>2, AmongNext
  <2>4. Occurrences(out, e) = IF InFirst(w, e, k) THEN Among(s, i - 1, e) ELSE 0
    BY DEF All
  <2>. QED
    BY <1>4, <2>1, <2>3, <2>4
<1>8. (i + 1) - 1 = i
  BY <1>1
<1>. QED
  BY <1>5, <1>6, <1>7, <1>8 DEF All

\* ... and a window left behind.
LEMMA ListLeft ==
  ASSUME NEW s \in Seq(Event), Ordered(s), NEW w \in Seq(Event), NEW k \in 1..Len(w),
         NEW i \in 1..(Len(s) + 1), Apart(s, w, i, k, TRUE, k), ~(i <= Len(s) /\ s[i].start <= w[k].end)
  PROVE  Apart(s, w, i, k + 1, FALSE, k)
<1>1. PICK n \in Nat : n = Len(s) /\ i \in 1..(n + 1) /\ \A c \in 1..n : s[c] \in Event
  OBVIOUS
<1>2. PICK b \in Event : b = w[k]
  OBVIOUS
<1>3. ASSUME NEW c \in i..n PROVE b.end < s[c].start
  <2>1. i \in 1..n /\ c \in 1..n /\ i <= c /\ i <= n
    BY <1>1
  <2>2. s[i].start <= s[c].start /\ s[i].start \in Int /\ s[c].start \in Int
    BY <1>1, <2>1, StartsUp
  <2>3. b.end \in Int
    BY EventTimes
  <2>. QED
    BY <1>1, <1>2, <2>1, <2>2, <2>3
<1>4. \A d \in 1..((k + 1) - 1) : d \in 1..(k - 1) \/ d = k
  OBVIOUS
<1>. QED
  BY <1>1, <1>2, <1>3, <1>4 DEF Apart

---------------------------------------------------------------------------------
(* The query over any windows, with a policy that scans when the value is near. *)

\* An event of s before which another with the same start has been passed.
Shares(s, i) == i > 1 /\ i <= Len(s) /\ s[i - 1].start = s[i].start

\* Where the helper is, the k-th window stabbed or not yet: at the first event of a start or, in
\* the middle of a window, at one that the scan is about to take.
AnyPassed(s, w, i, k, stabbed) ==
  IF stabbed
  THEN i <= Len(s) => w[k].start < s[i].start /\ (s[i].start <= w[k].end \/ ~Shares(s, i))
  ELSE ~Shares(s, i)

\* So the helper's memory misleads no later stab, and what is written is passed and asked for.
AnyInv(f, s, w, h, k, stabbed, out) ==
  /\ Knows(f, h, Passed(f, h.it)) /\ h.policy # "index" /\ out \in Seq(Event)
  /\ AnyPassed(s, w, h.it, k, stabbed) /\ Few(s, w, h.it, k, out)

\* A stab that goes back neither moves nor writes: it is so near that it goes along the list.
LEMMA StabBack ==
  ASSUME NEW f, ContentInv(f), NEW s, s = f.events, NEW h, NEW i, h.it = i, Knows(f, h, Passed(f, i)),
         h.policy # "index", i > 1, ~Shares(s, i), NEW v \in Int, v <= s[i - 1].start,
         NEW g, g = StabForwardOp(f, h, v)
  PROVE  /\ Knows(f, g, Passed(f, i)) /\ g.it = i /\ g.policy = h.policy
         /\ \A e \in Event : Occurrences(g.out, e) = 0
<1>1. s \in Seq(Event) /\ Ordered(s)
  BY DEF ContentInv, ForestInv, Shape, Typed, EventsOK
<1>2. PICK n \in Nat : n = Len(s) /\ \A c \in 1..n : s[c] \in Event
  BY <1>1
<1>3. i \in 1..(n + 1) /\ i - 1 \in 1..n
  <2>1. i \in 1..(n + 1)
    BY <1>1, <1>2, KnowsSome
  <2>. QED
    BY <2>1
<1>4. PICK k : k = Fresh(h)
  OBVIOUS
<1>5. PICK x : x = Passed(f, i)
  OBVIOUS
<1>6. Knows(f, k, x) /\ k.out = <<>> /\ k.it = i /\ k.policy = h.policy
  BY <1>4, <1>5, FreshKnows
<1>7. k \in Helpers(f) /\ k.policy \in {"list", "check"}
  <2>1. k \in Helpers(f)
    BY <1>6 DEF Knows
  <2>2. k.policy \in {"index", "list", "check"}
    BY <2>1, PolicyAssumption DEF Helpers
  <2>. QED
    BY <1>6, <2>1, <2>2
<1>8. NearEnough(f, k, v)
  <2>0. Shape(f)
    BY DEF ContentInv, ForestInv
  <2>1. PICK y \in Nat : y = Threshold(f)
    BY <2>0, ThresholdNat
  <2>2. ASSUME ~(n + 1 - i <= y) PROVE v <= s[i + y].start
    <3>1. i + y \in 1..n /\ i - 1 <= i + y
      BY <1>3, <2>2
    <3>2. s[i - 1].start <= s[i + y].start /\ s[i - 1].start \in Int /\ s[i + y].start \in Int
      BY <1>1, <1>2, <1>3, <3>1, StartsUp
    <3>. QED
      BY <3>2
  <2>. QED
    BY <1>2, <1>6, <2>1, <2>2 DEF NearEnough
<1>9. g = ListStabForward(f, k, v)
  BY <1>4, <1>7, <1>8 DEF StabForwardOp, Fresh
<1>10. PICK j, t : j = NextFrom(s, i, v) /\ t = ListWrites(s, i, v)
  OBVIOUS
<1>11. /\ j \in i..(n + 1) /\ \A c \in i..(j - 1) : s[c].start <= v
       /\ t \in Seq(Event)
       /\ \A e \in Event : Occurrences(t, e) = IF v <= e.end THEN Amid(s, i, j - 1, e) ELSE 0
  <2>1. i \in 1..(Len(s) + 1)
    BY <1>2, <1>3
  <2>2. /\ j \in i..(Len(s) + 1) /\ \A c \in i..(j - 1) : s[c].start <= v
        /\ ListWrites(s, i, v) \in Seq(Event)
    BY <1>1, <1>10, <2>1, ListFinds
  <2>3. \A e \in Event : Occurrences(ListWrites(s, i, v), e) = IF v <= e.end THEN Amid(s, i, j - 1, e) ELSE 0
    BY <1>1, <1>10, <2>1, ListFinds
  <2>. QED
    BY <1>2, <1>10, <2>2, <2>3
<1>12. j = i
  <2>. SUFFICES ASSUME i < j PROVE FALSE
    BY <1>3, <1>11
  <2>1. i \in i..(j - 1) /\ i \in 1..n /\ i - 1 <= i
    BY <1>3, <1>11
  <2>2. s[i].start <= v
    BY <1>11, <2>1
  <2>3. s[i - 1].start <= s[i].start /\ s[i - 1].start \in Int /\ s[i].start \in Int
    BY <1>1, <1>2, <1>3, <2>1, StartsUp
  <2>4. s[i - 1].start = s[i].start
    BY <2>2, <2>3
  <2>. QED
    BY <1>2, <2>1, <2>4 DEF Shares
<1>13. /\ g \in Helpers(f) /\ g.it = i /\ g.visited = k.visited
       /\ g.startAt = k.startAt /\ g.firstLeft = k.firstLeft /\ g.policy = k.policy
       /\ g.out = t
  <2>1. NextFrom(f.events, k.it, v) = j /\ ListWrites(f.events, k.it, v) = t /\ j \in 1..(Len(f.events) + 1)
    BY <1>2, <1>3, <1>6, <1>10, <1>12
  <2>. QED
    BY <1>6, <1>7, <1>9, <1>11, <1>12, <2>1, ListWritten
<1>14. Knows(f, g, x)
  BY <1>6, <1>13 DEF Knows
<1>15. ASSUME NEW e \in Event PROVE Occurrences(t, e) = 0
  <2>1. SubSeq(s, i, j - 1) = <<>>
    BY <1>1, <1>2, <1>3, <1>12
  <2>2. Amid(s, i, j - 1, e) = 0
    BY <2>1, OccFew DEF Amid
  <2>. QED
    BY <1>11, <2>2
<1>. QED
  BY <1>5, <1>6, <1>13, <1>14, <1>15

\* A stab at the start of a window, wherever that is.
LEMMA AnyStab ==
  ASSUME NEW f, ContentInv(f), NEW s, f.events = s, NEW w \in Seq(Event), NEW k \in 1..Len(w),
         NEW h, NEW out, AnyInv(f, s, w, h, k, FALSE, out),
         NEW g, g = StabForwardOp(f, h, w[k].start)
  PROVE  AnyInv(f, s, w, g, k, TRUE, out \o g.out)
<1>0. PICK i, j : i = h.it /\ j = g.it
  OBVIOUS
<1>. /\ Knows(f, h, Passed(f, i)) /\ h.policy # "index" /\ out \in Seq(Event)
     /\ ~Shares(s, i) /\ Few(s, w, i, k, out)
  BY <1>0 DEF AnyInv, AnyPassed
<1>1. s \in Seq(Event) /\ Ordered(s)
  BY DEF ContentInv, ForestInv, Shape, Typed, EventsOK
<1>2. PICK n \in Nat : n = Len(s) /\ \A c \in 1..n : s[c] \in Event
  BY <1>1
<1>3. i \in 1..(n + 1)
  BY <1>0, <1>1, <1>2, KnowsSome
<1>4. PICK v : v = w[k].start
  OBVIOUS
<1>5. v \in Timestamp /\ v \in Int
  <2>1. w[k] \in Event
    OBVIOUS
  <2>2. v \in Timestamp
    BY <1>4, <2>1, EventAssumption
  <2>. QED
    BY <1>4, <2>1, <2>2, EventTimes
<1>6. PICK t : t = g.out
  OBVIOUS
<1>7. CASE i = 1 \/ s[i - 1].start < v
  <2>1. ASSUME i > 1 PROVE v > s[i - 1].start /\ (i <= n => s[i].start # s[i - 1].start)
    <3>1. i - 1 \in 1..n
      BY <1>3, <2>1
    <3>2. s[i - 1].start \in Int
      BY <1>2, <3>1, EventTimes
    <3>3. i <= n => s[i].start # s[i - 1].start
      BY <1>2, <2>1 DEF Shares
    <3>. QED
      BY <1>5, <1>7, <2>1, <3>2, <3>3
  <2>2. MayAsk(f, i, h.policy, v)
    BY <1>2, <1>5, <2>1 DEF MayAsk
  <2>3. PICK x : x = Passed(f, i)
    OBVIOUS
  <2>4. /\ Knows(f, g, Passed(f, g.it)) /\ g.it = StartsAfter(f.events, v) /\ Right(f, g.out, i, v)
        /\ g.policy = h.policy
    BY <1>0, <1>4, <2>2, <2>3, StabAhead
  <2>5. t \in Seq(Event)
    BY <1>6, <2>4 DEF Knows, Helpers
  <2>6. j = StartsAfter(s, v)
    BY <1>0, <2>4
  <2>7. /\ j \in i..(n + 1) /\ \A c \in 1..n : s[c].start <= v <=> c < j
        /\ Fresher(s, i, j, v, t)
    BY <1>2, <1>3, <1>6, <2>2, <2>4, <2>5, <2>6, StabFresher
  <2>8. ASSUME j <= n PROVE v < s[j].start /\ ~Shares(s, j)
    <3>1. j \in 1..n /\ ~(j < j)
      BY <1>3, <2>7, <2>8
    <3>2. ~(s[j].start <= v) /\ s[j].start \in Int
      BY <1>2, <2>7, <3>1, EventTimes
    <3>3. ASSUME j > 1 PROVE s[j - 1].start <= v
      <4>1. j - 1 \in 1..n /\ j - 1 < j
        BY <3>1, <3>3
      <4>. QED
        BY <2>7, <4>1
    <3>4. ~Shares(s, j)
      BY <3>2, <3>3 DEF Shares
    <3>. QED
      BY <1>5, <3>2, <3>4
  <2>9. AnyPassed(s, w, j, k, TRUE)
    BY <1>2, <1>4, <2>8 DEF AnyPassed
  <2>10. Few(s, w, j, k, out \o t)
    BY <1>1, <1>2, <1>3, <1>4, <2>5, <2>7, FewStab
  <2>11. out \o t \in Seq(Event)
    BY <2>5
  <2>. QED
    BY <1>0, <1>6, <2>4, <2>9, <2>10, <2>11 DEF AnyInv
<1>8. CASE i > 1 /\ v <= s[i - 1].start
  <2>1. PICK x : x = Passed(f, i)
    OBVIOUS
  <2>2. /\ Knows(f, g, x) /\ g.it = i /\ g.policy = h.policy
        /\ \A e \in Event : Occurrences(t, e) = 0
    BY <1>0, <1>4, <1>5, <1>6, <1>8, <2>1, StabBack
  <2>3. t \in Seq(Event)
    BY <1>6, <2>2 DEF Knows, Helpers
  <2>4. Fresher(s, i, i, v, t)
    BY <2>2 DEF Fresher
  <2>5. i \in i..(n + 1)
    BY <1>3
  <2>6. Few(s, w, i, k, out \o t)
    BY <1>1, <1>2, <1>3, <1>4, <2>3, <2>4, <2>5, FewStab
  <2>7. ASSUME i <= n PROVE v < s[i].start
    <3>1. i \in 1..n /\ i - 1 \in 1..n /\ i - 1 <= i
      BY <1>3, <1>8, <2>7
    <3>2. s[i - 1].start <= s[i].start /\ s[i - 1].start \in Int /\ s[i].start \in Int
      BY <1>1, <1>2, <3>1, StartsUp
    <3>3. s[i - 1].start # s[i].start
      BY <1>2, <1>8, <2>7 DEF Shares
    <3>. QED
      BY <1>5, <1>8, <3>2, <3>3
  <2>8. AnyPassed(s, w, i, k, TRUE)
    BY <1>2, <1>4, <2>7 DEF AnyPassed
  <2>9. out \o t \in Seq(Event)
    BY <2>3
  <2>. QED
    BY <1>0, <1>6, <2>1, <2>2, <2>6, <2>8, <2>9 DEF AnyInv
<1>9. (i = 1 \/ s[i - 1].start < v) \/ (i > 1 /\ v <= s[i - 1].start)
  <2>. SUFFICES ASSUME i # 1 PROVE s[i - 1].start < v \/ (i > 1 /\ v <= s[i - 1].start)
    OBVIOUS
  <2>1. i - 1 \in 1..n /\ i > 1
    BY <1>3
  <2>2. s[i - 1].start \in Int
    BY <1>2, <2>1, EventTimes
  <2>. QED
    BY <1>5, <2>1, <2>2
<1>. QED
  BY <1>7, <1>8, <1>9

\* An event scanned in its window.
LEMMA AnyScan ==
  ASSUME NEW s \in Seq(Event), Ordered(s), NEW w \in Seq(Event), NEW k \in 1..Len(w), NEW i \in 1..Len(s),
         AnyPassed(s, w, i, k, TRUE), s[i].start <= w[k].end,
         NEW out \in Seq(Event), Few(s, w, i, k, out)
  PROVE  /\ Append(out, s[i]) \in Seq(Event)
         /\ AnyPassed(s, w, i + 1, k, TRUE) /\ Few(s, w, i + 1, k, Append(out, s[i]))
<1>1. PICK n \in Nat : n = Len(s) /\ i \in 1..n /\ \A c \in 1..n : s[c] \in Event
  OBVIOUS
<1>2. w[k].start < s[i].start
  BY <1>1 DEF AnyPassed
<1>3. PICK b, z : b = w[k].start /\ z = w[k].end /\ b \in Int /\ z \in Int
  <2>1. w[k] \in Event
    OBVIOUS
  <2>. QED
    BY <2>1, EventTimes
<1>4. ASSUME i + 1 <= n PROVE b < s[i + 1].start /\ (s[i + 1].start <= z \/ ~Shares(s, i + 1))
  <2>1. i + 1 \in 1..n /\ i <= i + 1 /\ (i + 1) - 1 = i
    BY <1>1, <1>4
  <2>2. s[i].start <= s[i + 1].start /\ s[i].start \in Int /\ s[i + 1].start \in Int
    BY <1>1, <2>1, StartsUp
  <2>3. ASSUME Shares(s, i + 1) PROVE s[i].start = s[i + 1].start
    BY <2>1, <2>3 DEF Shares
  <2>. QED
    BY <1>2, <1>3, <2>2, <2>3
<1>5. AnyPassed(s, w, i + 1, k, TRUE)
  BY <1>1, <1>3, <1>4 DEF AnyPassed
<1>6. Append(out, s[i]) \in Seq(Event) /\ Few(s, w, i + 1, k, Append(out, s[i]))
  BY <1>1, <1>2, FewScan
<1>. QED
  BY <1>5, <1>6

\* A window left behind.
LEMMA AnyLeft ==
  ASSUME NEW s \in Seq(Event), NEW w, NEW k, NEW i \in 1..(Len(s) + 1),
         AnyPassed(s, w, i, k, TRUE), ~(i <= Len(s) /\ s[i].start <= w[k].end)
  PROVE  AnyPassed(s, w, i, k + 1, FALSE)
BY DEF AnyPassed, Shares

---------------------------------------------------------------------------------
(* The states of the query. *)

\* Over windows that follow each other, whatever the policy: the helper's memory misleads no
\* later stab, and what is written is passed and asked for.
FollowInv(f, s, w, h, k, stabbed, out) ==
  /\ Knows(f, h, Passed(f, h.it)) /\ out \in Seq(Event)
  /\ WindowPassed(s, w, h.it, k, stabbed) /\ Few(s, w, h.it, k, out)

\* Over any windows, along the list: what is passed and asked for is written.
Stabbed(k, stabbed) == IF stabbed THEN k ELSE k - 1
ListInv(f, s, w, h, k, stabbed, out) ==
  /\ h \in Helpers(f) /\ h.policy = "list" /\ out \in Seq(Event)
  /\ Apart(s, w, h.it, k, stabbed, Stabbed(k, stabbed))
  /\ All(s, w, h.it, Stabbed(k, stabbed), out)

\* What every state of the query is in.
QueryInv ==
  /\ left \in Lists /\ right \in Lists
  /\ scanning \in BOOLEAN /\ wit \in 1..(Len(right) + 1) /\ (scanning => wit <= Len(right))
  /\ Follow(right) => FollowInv(ForestTable[left], left, right, it, wit, scanning, output)
  /\ policy # "index" => AnyInv(ForestTable[left], left, right, it, wit, scanning, output)
  /\ policy = "list" => ListInv(ForestTable[left], left, right, it, wit, scanning, output)

\* Nothing is passed, and nothing written, at the start.
LEMMA QueryStarts == QueryInit => QueryInv
<1>. SUFFICES ASSUME QueryInit PROVE QueryInv
  OBVIOUS
<1>1. left \in Lists /\ right \in Lists /\ policy \in Policies /\ wit = 1 /\ scanning = FALSE /\ output = <<>>
  BY DEF QueryInit
<1>2. PICK f : f = ForestTable[left]
  OBVIOUS
<1>3. PICK s, w : s = left /\ w = right
  OBVIOUS
<1>4. s \in Seq(Event) /\ f.events = s /\ w \in Seq(Event)
  BY <1>1, <1>2, <1>3, TableFits
<1>5. it = NewHelper(f, policy)
  BY <1>2 DEF QueryInit, events
<1>6. Knows(f, it, Passed(f, it.it))
  BY <1>1, <1>4, <1>5, NewKnows
<1>7. it.it = 1 /\ it.policy = policy
  BY <1>5 DEF NewHelper
<1>8. \A e : Among(s, 1 - 1, e) = 0 /\ Occurrences(output, e) = 0
  <2>1. \A e : Among(s, 0, e) = 0
    BY <1>4, AmongEnds
  <2>2. 1 - 1 = 0
    OBVIOUS
  <2>. QED
    BY <1>1, <2>1, <2>2, OccFew
<1>9. output \in Seq(Event)
  <2>1. <<>> \in Seq(Event)
    OBVIOUS
  <2>. QED
    BY <1>1, <2>1
<1>10. WindowPassed(s, w, 1, 1, FALSE) /\ Few(s, w, 1, 1, output)
  BY <1>8 DEF WindowPassed, Few
<1>11. Apart(s, w, 1, 1, FALSE, Stabbed(1, FALSE)) /\ All(s, w, 1, Stabbed(1, FALSE), output)
  BY <1>8 DEF Apart, All, Stabbed
<1>12. FollowInv(f, s, w, it, 1, FALSE, output)
  BY <1>6, <1>7, <1>9, <1>10 DEF FollowInv
<1>13. it \in Helpers(f)
  BY <1>6 DEF Knows
<1>14. policy = "list" => ListInv(f, s, w, it, 1, FALSE, output)
  BY <1>7, <1>9, <1>11, <1>13 DEF ListInv
<1>15. policy # "index" => AnyInv(f, s, w, it, 1, FALSE, output)
  <2>1. AnyPassed(s, w, 1, 1, FALSE)
    BY DEF AnyPassed, Shares
  <2>. QED
    BY <1>6, <1>7, <1>9, <1>10, <2>1 DEF AnyInv
<1>16. 1 \in 1..(Len(right) + 1)
  BY <1>3, <1>4
<1>. QED
  BY <1>1, <1>2, <1>3, <1>12, <1>14, <1>15, <1>16 DEF QueryInv

\* What the model knows of a forest and its list.
LEMMA FitsTyped ==
  ASSUME NEW f, ContentInv(f), NEW s, f.events = s
  PROVE  s \in Seq(Event) /\ Ordered(s) /\ Len(s) \in Nat
BY DEF ContentInv, ForestInv, Shape, Typed, EventsOK

\* A stab at the start of a window ...
LEMMA FollowStab ==
  ASSUME NEW f, ContentInv(f), NEW s, f.events = s, NEW w \in Seq(Event), Follow(w), NEW k \in 1..Len(w),
         NEW h, h.it > Len(s) => h.policy # "index", NEW out, FollowInv(f, s, w, h, k, FALSE, out),
         NEW g, g = StabForwardOp(f, h, w[k].start)
  PROVE  FollowInv(f, s, w, g, k, TRUE, out \o g.out)
<1>1. PICK i : h.it = i
  OBVIOUS
<1>2. PICK j : j = g.it
  OBVIOUS
<1>3. /\ Knows(f, h, Passed(f, i)) /\ out \in Seq(Event)
      /\ WindowPassed(s, w, i, k, FALSE) /\ Few(s, w, i, k, out)
  BY <1>1 DEF FollowInv
<1>4. /\ Knows(f, g, Passed(f, j)) /\ out \o g.out \in Seq(Event)
      /\ WindowPassed(s, w, j, k, TRUE) /\ Few(s, w, j, k, out \o g.out)
  BY <1>1, <1>2, <1>3, WindowStab
<1>. QED
  BY <1>2, <1>4 DEF FollowInv

\* ... along the list ...
LEMMA ListStab ==
  ASSUME NEW f, ContentInv(f), NEW s, f.events = s, NEW w \in Seq(Event), Ordered(w), NEW k \in 1..Len(w),
         NEW h, NEW out, ListInv(f, s, w, h, k, FALSE, out),
         NEW g, g = StabForwardOp(f, h, w[k].start)
  PROVE  ListInv(f, s, w, g, k, TRUE, out \o g.out)
<1>1. s \in Seq(Event) /\ Ordered(s) /\ Len(s) \in Nat
  BY FitsTyped
<1>2. h \in Helpers(f) /\ h.policy = "list" /\ out \in Seq(Event)
  BY DEF ListInv
<1>3. PICK v : v = w[k].start
  OBVIOUS
<1>4. v \in Int
  <2>1. w[k] \in Event
    OBVIOUS
  <2>. QED
    BY <1>3, <2>1, EventTimes
<1>5. PICK h2 : h2 = Fresh(h)
  OBVIOUS
<1>6. h2 \in Helpers(f) /\ h2.out = <<>> /\ h2.it = h.it /\ h2.policy = "list"
  BY <1>2, <1>5, FreshHelper
<1>7. g = ListStabForward(f, h2, v)
  BY <1>3, <1>5, <1>6 DEF StabForwardOp, Fresh
<1>8. PICK i : i = h.it
  OBVIOUS
<1>9. i \in 1..(Len(s) + 1)
  BY <1>2, <1>8 DEF Helpers
<1>10. Apart(s, w, i, k, FALSE, k - 1) /\ All(s, w, i, k - 1, out)
  BY <1>8 DEF ListInv, Stabbed
<1>11. PICK j : j = NextFrom(s, i, v)
  OBVIOUS
<1>12. PICK t : t = ListWrites(s, i, v)
  OBVIOUS
<1>13. j \in 1..(Len(s) + 1) /\ Apart(s, w, j, k, TRUE, k)
  BY <1>1, <1>3, <1>4, <1>9, <1>10, <1>11, ListStabApart
<1>14. t \in Seq(Event)
  BY <1>1, <1>4, <1>9, <1>11, <1>12, ListFinds
<1>15. out \o t \in Seq(Event) /\ All(s, w, j, k, out \o t)
  BY <1>1, <1>2, <1>3, <1>4, <1>9, <1>10, <1>11, <1>12, ListStabAll
<1>16. NextFrom(f.events, h2.it, v) = j /\ ListWrites(f.events, h2.it, v) = t /\ j \in 1..(Len(f.events) + 1)
  BY <1>6, <1>8, <1>11, <1>12, <1>13
<1>17. g \in Helpers(f) /\ g.it = j /\ g.out = t /\ g.policy = "list"
  BY <1>6, <1>7, <1>14, <1>16, ListWritten
<1>. QED
  BY <1>13, <1>15, <1>17 DEF ListInv, Stabbed

\* ... an event scanned in it ...
LEMMA FollowScan ==
  ASSUME NEW f, ContentInv(f), NEW s, f.events = s, NEW w \in Seq(Event), NEW k \in 1..Len(w),
         NEW h, ~(h.it > Len(s)), s[h.it].start <= w[k].end, NEW out, FollowInv(f, s, w, h, k, TRUE, out),
         NEW g, g = ItAt(h, h.it + 1)
  PROVE  FollowInv(f, s, w, g, k, TRUE, Append(out, s[h.it]))
<1>1. s \in Seq(Event) /\ Ordered(s) /\ Len(s) \in Nat
  BY FitsTyped
<1>2. PICK i : h.it = i
  OBVIOUS
<1>3. /\ Knows(f, h, Passed(f, h.it)) /\ out \in Seq(Event)
      /\ WindowPassed(s, w, i, k, TRUE) /\ Few(s, w, i, k, out)
  BY <1>2 DEF FollowInv
<1>4. i \in 1..Len(s)
  <2>1. h.it \in 1..(Len(s) + 1)
    BY <1>1, <1>3, KnowsSome
  <2>. QED
    BY <1>1, <1>2, <2>1
<1>5. Knows(f, g, Passed(f, g.it)) /\ g.it = i + 1
  <2>1. Knows(f, g, Passed(f, g.it))
    <3>1. h.it <= Len(f.events)
      BY <1>2, <1>4
    <3>. QED
      BY <1>3, <3>1, StepKnows
  <2>2. h \in Helpers(f)
    BY <1>3 DEF Knows
  <2>3. g.it = h.it + 1
    BY <2>2 DEF ItAt, Helpers
  <2>. QED
    BY <1>2, <2>1, <2>3
<1>6. /\ Append(out, s[i]) \in Seq(Event)
      /\ WindowPassed(s, w, i + 1, k, TRUE) /\ Few(s, w, i + 1, k, Append(out, s[i]))
  BY <1>1, <1>2, <1>3, <1>4, WindowScan
<1>. QED
  BY <1>2, <1>5, <1>6 DEF FollowInv

\* ... over any windows ...
LEMMA AnyScanned ==
  ASSUME NEW f, ContentInv(f), NEW s, f.events = s, NEW w \in Seq(Event), NEW k \in 1..Len(w),
         NEW h, ~(h.it > Len(s)), s[h.it].start <= w[k].end, NEW out, AnyInv(f, s, w, h, k, TRUE, out),
         NEW g, g = ItAt(h, h.it + 1)
  PROVE  AnyInv(f, s, w, g, k, TRUE, Append(out, s[h.it]))
<1>1. s \in Seq(Event) /\ Ordered(s) /\ Len(s) \in Nat
  BY FitsTyped
<1>2. PICK i : h.it = i
  OBVIOUS
<1>3. /\ Knows(f, h, Passed(f, h.it)) /\ h.policy # "index" /\ out \in Seq(Event)
      /\ AnyPassed(s, w, i, k, TRUE) /\ Few(s, w, i, k, out)
  BY <1>2 DEF AnyInv
<1>4. i \in 1..Len(s)
  <2>1. h.it \in 1..(Len(s) + 1)
    BY <1>1, <1>3, KnowsSome
  <2>. QED
    BY <1>1, <1>2, <2>1
<1>5. Knows(f, g, Passed(f, g.it))
  <2>1. h.it <= Len(f.events)
    BY <1>2, <1>4
  <2>. QED
    BY <1>3, <2>1, StepKnows
<1>6. g.it = i + 1 /\ g.policy = h.policy
  <2>1. h \in Helpers(f)
    BY <1>3 DEF Knows
  <2>. QED
    BY <1>2, <2>1 DEF ItAt, Helpers
<1>7. /\ Append(out, s[i]) \in Seq(Event)
      /\ AnyPassed(s, w, i + 1, k, TRUE) /\ Few(s, w, i + 1, k, Append(out, s[i]))
  BY <1>1, <1>2, <1>3, <1>4, AnyScan
<1>. QED
  BY <1>2, <1>3, <1>5, <1>6, <1>7 DEF AnyInv

\* ... along the list ...
LEMMA ListScanned ==
  ASSUME NEW f, ContentInv(f), NEW s, f.events = s, NEW w \in Seq(Event), NEW k \in 1..Len(w),
         NEW h, ~(h.it > Len(s)), s[h.it].start <= w[k].end, NEW out, ListInv(f, s, w, h, k, TRUE, out),
         NEW g, g = ItAt(h, h.it + 1)
  PROVE  ListInv(f, s, w, g, k, TRUE, Append(out, s[h.it]))
<1>1. s \in Seq(Event) /\ Ordered(s) /\ Len(s) \in Nat
  BY FitsTyped
<1>2. PICK i : h.it = i
  OBVIOUS
<1>3. h \in Helpers(f) /\ h.policy = "list" /\ out \in Seq(Event)
  BY DEF ListInv
<1>4. Apart(s, w, i, k, TRUE, k) /\ All(s, w, i, k, out)
  BY <1>2 DEF ListInv, Stabbed
<1>5. i \in 1..Len(s) /\ i + 1 \in 1..(Len(f.events) + 1)
  <2>1. h.it \in 1..(Len(s) + 1)
    BY <1>3 DEF Helpers
  <2>. QED
    BY <1>1, <1>2, <2>1
<1>6. g \in Helpers(f) /\ g.it = i + 1 /\ g.policy = "list"
  BY <1>2, <1>3, <1>5 DEF ItAt, Helpers
<1>7. /\ Append(out, s[i]) \in Seq(Event)
      /\ Apart(s, w, i + 1, k, TRUE, k) /\ All(s, w, i + 1, k, Append(out, s[i]))
  BY <1>1, <1>2, <1>3, <1>4, <1>5, ListScan
<1>. QED
  BY <1>2, <1>6, <1>7 DEF ListInv, Stabbed

\* ... and a window left behind.
LEMMA AllLeft ==
  ASSUME NEW f, ContentInv(f), NEW s, f.events = s, NEW w \in Seq(Event), NEW k \in 1..Len(w),
         NEW h, ~(~(h.it > Len(s)) /\ s[h.it].start <= w[k].end), NEW out
  PROVE  /\ FollowInv(f, s, w, h, k, TRUE, out) => FollowInv(f, s, w, h, k + 1, FALSE, out)
         /\ AnyInv(f, s, w, h, k, TRUE, out) => AnyInv(f, s, w, h, k + 1, FALSE, out)
         /\ ListInv(f, s, w, h, k, TRUE, out) => ListInv(f, s, w, h, k + 1, FALSE, out)
<1>1. s \in Seq(Event) /\ Ordered(s) /\ Len(s) \in Nat
  BY FitsTyped
<1>2. PICK i : h.it = i
  OBVIOUS
<1>3. ASSUME FollowInv(f, s, w, h, k, TRUE, out) PROVE FollowInv(f, s, w, h, k + 1, FALSE, out)
  <2>1. /\ Knows(f, h, Passed(f, h.it)) /\ out \in Seq(Event)
        /\ WindowPassed(s, w, i, k, TRUE) /\ Few(s, w, i, k, out)
    BY <1>2, <1>3 DEF FollowInv
  <2>2. i \in 1..(Len(s) + 1)
    BY <1>1, <1>2, <2>1, KnowsSome
  <2>3. ~(i <= Len(s) /\ s[i].start <= w[k].end)
    BY <1>1, <1>2, <2>2
  <2>4. WindowPassed(s, w, i, k + 1, FALSE) /\ Few(s, w, i, k + 1, out)
    BY <1>1, <2>1, <2>2, <2>3, WindowLeft
  <2>. QED
    BY <1>2, <2>1, <2>4 DEF FollowInv
<1>4. ASSUME ListInv(f, s, w, h, k, TRUE, out) PROVE ListInv(f, s, w, h, k + 1, FALSE, out)
  <2>1. h \in Helpers(f) /\ h.policy = "list" /\ out \in Seq(Event)
    BY <1>4 DEF ListInv
  <2>2. Apart(s, w, i, k, TRUE, k) /\ All(s, w, i, k, out)
    BY <1>2, <1>4 DEF ListInv, Stabbed
  <2>3. i \in 1..(Len(s) + 1)
    BY <1>2, <2>1 DEF Helpers
  <2>4. ~(i <= Len(s) /\ s[i].start <= w[k].end)
    BY <1>1, <1>2, <2>3
  <2>5. Apart(s, w, i, k + 1, FALSE, k)
    BY <1>1, <2>2, <2>3, <2>4, ListLeft
  <2>6. Stabbed(k + 1, FALSE) = k
    BY DEF Stabbed
  <2>. QED
    BY <1>2, <2>1, <2>2, <2>5, <2>6 DEF ListInv
<1>5. ASSUME AnyInv(f, s, w, h, k, TRUE, out) PROVE AnyInv(f, s, w, h, k + 1, FALSE, out)
  <2>1. /\ Knows(f, h, Passed(f, h.it)) /\ h.policy # "index" /\ out \in Seq(Event)
        /\ AnyPassed(s, w, i, k, TRUE) /\ Few(s, w, i, k, out)
    BY <1>2, <1>5 DEF AnyInv
  <2>2. i \in 1..(Len(s) + 1)
    BY <1>1, <1>2, <2>1, KnowsSome
  <2>3. ~(i <= Len(s) /\ s[i].start <= w[k].end)
    BY <1>1, <1>2, <2>2
  <2>4. AnyPassed(s, w, i, k + 1, FALSE)
    BY <1>1, <2>1, <2>2, <2>3, AnyLeft
  <2>5. Few(s, w, i, k + 1, out)
    BY <2>1, FewMore
  <2>. QED
    BY <1>2, <2>1, <2>4, <2>5 DEF AnyInv
<1>. QED
  BY <1>3, <1>4, <1>5

\* Each step keeps it so.
LEMMA QueryStay == QueryInv /\ [QueryNext]_queryVars => QueryInv'
<1>. SUFFICES ASSUME QueryInv, [QueryNext]_queryVars PROVE QueryInv'
  OBVIOUS
<1>1. PICK f : f = ForestTable[left]
  OBVIOUS
<1>2. PICK s, w, k, out : s = left /\ w = right /\ k = wit /\ out = output
  OBVIOUS
<1>3. s \in Lists /\ w \in Lists /\ s \in Seq(Event) /\ w \in Seq(Event) /\ Ordered(w) /\ ContentInv(f) /\ f.events = s
  <2>1. s \in Lists /\ w \in Lists
    BY <1>2 DEF QueryInv
  <2>. QED
    BY <1>1, <1>2, <2>1, TableFits
<1>4. PICK m \in Nat : m = Len(w)
  BY <1>3
<1>5. /\ scanning \in BOOLEAN /\ k \in 1..(m + 1) /\ (scanning => k <= m)
      /\ Follow(w) => FollowInv(f, s, w, it, k, scanning, out)
      /\ policy # "index" => AnyInv(f, s, w, it, k, scanning, out)
      /\ policy = "list" => ListInv(f, s, w, it, k, scanning, out)
  BY <1>1, <1>2, <1>4 DEF QueryInv
<1>6. CASE Stab
  <2>1. /\ k <= m /\ scanning = FALSE /\ (it.it > Len(s) => it.policy # "index")
        /\ it' = StabForwardOp(f, it, w[k].start) /\ output' = out \o it'.out
        /\ scanning' = TRUE /\ left' = s /\ right' = w /\ policy' = policy /\ wit' = k
    BY <1>1, <1>2, <1>4, <1>5, <1>6 DEF Stab, NoneLeft, Window, events, windows
  <2>2. PICK g : g = it'
    OBVIOUS
  <2>3. k \in 1..Len(w)
    BY <1>4, <1>5, <2>1
  <2>4. Follow(w) => FollowInv(f, s, w, g, k, TRUE, out \o g.out)
    BY <1>3, <1>5, <2>1, <2>2, <2>3, FollowStab
  <2>5. policy = "list" => ListInv(f, s, w, g, k, TRUE, out \o g.out)
    BY <1>3, <1>5, <2>1, <2>2, <2>3, ListStab
  <2>6. policy # "index" => AnyInv(f, s, w, g, k, TRUE, out \o g.out)
    BY <1>3, <1>5, <2>1, <2>2, <2>3, AnyStab
  <2>. QED
    BY <1>1, <1>2, <1>3, <1>4, <1>5, <2>1, <2>2, <2>4, <2>5, <2>6 DEF QueryInv
<1>7. CASE Scan
  <2>1. /\ scanning = TRUE /\ ~(it.it > Len(s)) /\ s[it.it].start <= w[k].end
        /\ output' = Append(out, s[it.it]) /\ it' = ItAt(it, it.it + 1)
        /\ scanning' = TRUE /\ left' = s /\ right' = w /\ policy' = policy /\ wit' = k
    BY <1>2, <1>5, <1>7 DEF Scan, InWindow, NoneLeft, Window, events, windows, ItAt
  <2>2. PICK g : g = it'
    OBVIOUS
  <2>3. k \in 1..Len(w)
    BY <1>4, <1>5, <2>1
  <2>4. Follow(w) => FollowInv(f, s, w, g, k, TRUE, Append(out, s[it.it]))
    BY <1>3, <1>5, <2>1, <2>2, <2>3, FollowScan
  <2>5. policy = "list" => ListInv(f, s, w, g, k, TRUE, Append(out, s[it.it]))
    BY <1>3, <1>5, <2>1, <2>2, <2>3, ListScanned
  <2>6. policy # "index" => AnyInv(f, s, w, g, k, TRUE, Append(out, s[it.it]))
    BY <1>3, <1>5, <2>1, <2>2, <2>3, AnyScanned
  <2>. QED
    BY <1>1, <1>2, <1>3, <1>4, <1>5, <2>1, <2>2, <2>4, <2>5, <2>6 DEF QueryInv
<1>8. CASE NextWindow
  <2>1. /\ scanning = TRUE /\ ~(~(it.it > Len(s)) /\ s[it.it].start <= w[k].end)
        /\ output' = out /\ it' = it /\ scanning' = FALSE
        /\ left' = s /\ right' = w /\ policy' = policy /\ wit' = k + 1
    BY <1>2, <1>5, <1>8 DEF NextWindow, InWindow, NoneLeft, Window, events, windows
  <2>2. k \in 1..Len(w) /\ k + 1 \in 1..(m + 1)
    BY <1>4, <1>5, <2>1
  <2>3. Follow(w) => FollowInv(f, s, w, it, k + 1, FALSE, out)
    BY <1>3, <1>5, <2>1, <2>2, AllLeft
  <2>4. policy = "list" => ListInv(f, s, w, it, k + 1, FALSE, out)
    BY <1>3, <1>5, <2>1, <2>2, AllLeft
  <2>5. policy # "index" => AnyInv(f, s, w, it, k + 1, FALSE, out)
    BY <1>3, <1>5, <2>1, <2>2, AllLeft
  <2>. QED
    BY <1>1, <1>2, <1>3, <1>4, <2>1, <2>2, <2>3, <2>4, <2>5 DEF QueryInv
<1>9. CASE UNCHANGED queryVars
  <2>1. /\ left' = left /\ right' = right /\ policy' = policy /\ it' = it /\ wit' = wit
        /\ scanning' = scanning /\ output' = output
    BY <1>9 DEF queryVars
  <2>. QED
    BY <2>1 DEF QueryInv
<1>. QED
  BY <1>6, <1>7, <1>8, <1>9 DEF QueryNext

\* What the invariant says of the output.
LEMMA QueryAnswers ==
  ASSUME QueryInv
  PROVE  WindowsOnly /\ AnswersSoFar
<1>1. PICK s, w : s = left /\ w = right
  OBVIOUS
<1>2. s \in Lists /\ w \in Lists /\ s \in Seq(Event) /\ w \in Seq(Event)
  <2>1. s \in Lists /\ w \in Lists
    BY <1>1 DEF QueryInv
  <2>. QED
    BY <2>1, ListsAssumption
<1>3. PICK n \in Nat : n = Len(s)
  BY <1>2
<1>4. PICK f : f = ForestTable[left]
  OBVIOUS
<1>5. f.events = s
  BY <1>1, <1>2, <1>4, TableFits
<1>6. \A e, c : InSome(e, c) <=> InFirst(w, e, c)
  BY <1>1 DEF InSome, InFirst, windows
<1>7. PICK i : i = it.it
  OBVIOUS
<1>8. ASSUME Follow(w) \/ policy # "index", NEW e \in Event
      PROVE  Occurrences(output, e) <= IF InSome(e, wit) THEN Occurrences(events, e) ELSE 0
  <2>1. Knows(f, it, Passed(f, i)) /\ output \in Seq(Event) /\ Few(s, w, i, wit, output)
    BY <1>1, <1>4, <1>7, <1>8 DEF QueryInv, FollowInv, AnyInv
  <2>2. i \in 1..(n + 1)
    BY <1>2, <1>3, <1>5, <1>7, <2>1, KnowsSome
  <2>3. /\ Occurrences(output, e) <= Among(s, i - 1, e)
        /\ Occurrences(output, e) # 0 => InFirst(w, e, wit)
    BY <2>1 DEF Few
  <2>4. Among(s, i - 1, e) \in Nat /\ Occurrences(s, e) \in Nat /\ Among(s, i - 1, e) <= Occurrences(s, e)
    <3>1. i \in 1..(Len(s) + 1)
      BY <1>3, <2>2
    <3>. QED
      BY <1>2, <3>1, AmongRest, Zenon
  <2>5. Occurrences(output, e) \in Nat
    <3>1. Len(output) \in Nat
      BY <2>1
    <3>. QED
      BY <3>1, OccNat
  <2>6. events = s
    BY <1>1 DEF events
  <2>. QED
    BY <1>6, <2>3, <2>4, <2>5, <2>6
<1>9. WindowsOnly
  BY <1>1, <1>8 DEF WindowsOnly, windows
<1>10. ASSUME policy = "list", ~scanning, NEW e \in Event
       PROVE  Occurrences(output, e) = Occurrences(Answer(wit - 1), e)
  <2>1. PICK k : k = wit
    OBVIOUS
  <2>2. k \in 1..(Len(w) + 1) /\ k - 1 <= Len(w)
    BY <1>1, <1>2, <2>1 DEF QueryInv
  <2>3. scanning = FALSE
    BY <1>10 DEF QueryInv
  <2>4. it \in Helpers(f) /\ Apart(s, w, i, k, FALSE, k - 1) /\ All(s, w, i, k - 1, output)
    BY <1>1, <1>4, <1>7, <1>10, <2>1, <2>3 DEF QueryInv, ListInv, Stabbed
  <2>5. i \in 1..(n + 1)
    BY <1>3, <1>5, <1>7, <2>4 DEF Helpers
  <2>6. Occurrences(output, e) = IF InFirst(w, e, k - 1) THEN Among(s, i - 1, e) ELSE 0
    BY <2>4 DEF All
  <2>7. InFirst(w, e, k - 1) => Among(s, i - 1, e) = Occurrences(s, e)
    <3>. SUFFICES ASSUME InFirst(w, e, k - 1) PROVE Among(s, i - 1, e) = Occurrences(s, e)
      OBVIOUS
    <3>1. i \in 1..(Len(s) + 1)
      BY <1>3, <2>5
    <3>2. ASSUME NEW c \in i..Len(s) PROVE s[c] # e
      <4>1. c \in i..Len(s) /\ c \in 1..Len(s)
        BY <3>1, <3>2
      <4>2. ~InFirst(w, s[c], k - 1)
        BY <1>2, <2>2, <2>4, <4>1, AheadApart
      <4>. QED
        BY <4>2
    <3>. QED
      BY <1>2, <3>1, <3>2, AmongRest, Zenon
  <2>8. Occurrences(Answer(k - 1), e) = IF InFirst(w, e, k - 1) THEN Occurrences(s, e) ELSE 0
    <3>1. PICK C : C = {a \in Event : InFirst(w, a, k - 1)}
      OBVIOUS
    <3>2. PICK kept : kept = {c \in DOMAIN s : s[c] \in C}
      OBVIOUS
    <3>3. \A c \in DOMAIN s : s[c] \in C <=> InSome(s[c], k - 1)
      <4>1. \A c \in DOMAIN s : s[c] \in Event
        BY <1>2
      <4>. QED
        BY <1>6, <3>1, <4>1
    <3>4. kept = {c \in DOMAIN s : InSome(s[c], k - 1)}
      BY <3>2, <3>3
    <3>5. Answer(k - 1) = ElementsAt(s, kept)
      BY <1>1, <3>4 DEF Answer, Selected, events
    <3>6. Holds(ElementsAt(s, kept), s, Event \cap C)
      BY <1>2, <3>2, HoldsItself, HoldsKept
    <3>. QED
      BY <3>1, <3>5, <3>6 DEF Holds
  <2>. QED
    BY <2>1, <2>6, <2>7, <2>8
<1>. QED
  BY <1>9, <1>10 DEF AnswersSoFar

\* A stab that must be ahead is.
LEMMA QueryStabs ==
  ASSUME QueryInv
  PROVE  StabAllowed
<1>. SUFFICES ASSUME Stab, it.it > 1, MustBeAhead
              PROVE  /\ events[it.it - 1].start < Window.start
                     /\ ~NoneLeft => events[it.it - 1].start # events[it.it].start
  BY DEF StabAllowed
<1>1. PICK s, w, k, i : s = left /\ w = right /\ k = wit /\ i = it.it
  OBVIOUS
<1>2. PICK f : f = ForestTable[left]
  OBVIOUS
<1>3. s \in Seq(Event) /\ w \in Seq(Event) /\ Ordered(s) /\ ContentInv(f) /\ f.events = s
  <2>1. s \in Lists /\ w \in Lists
    BY <1>1 DEF QueryInv
  <2>. QED
    BY <1>1, <1>2, <2>1, TableFits, ListsAssumption
<1>4. scanning = FALSE /\ k \in 1..Len(w)
  <2>1. wit <= Len(right) /\ ~scanning
    BY DEF Stab, windows
  <2>. QED
    BY <1>1, <1>3, <2>1 DEF QueryInv
<1>5. CASE Follow(w)
  <2>1. Knows(f, it, Passed(f, i)) /\ WindowPassed(s, w, i, k, FALSE)
    BY <1>1, <1>2, <1>4, <1>5 DEF QueryInv, FollowInv
  <2>2. i \in 1..(Len(s) + 1)
    BY <1>1, <1>3, <2>1, KnowsSome
  <2>3. /\ s[i - 1].start < w[k].start
        /\ i <= Len(s) => s[i].start # s[i - 1].start
    BY <1>1, <1>3, <1>4, <1>5, <2>1, <2>2, WindowAhead
  <2>4. ~(i > Len(s)) => i <= Len(s)
    BY <1>3, <2>2
  <2>. QED
    BY <1>1, <2>3, <2>4 DEF events, windows, Window, NoneLeft
\* What the check policy answers from the index is behind an event that is not yet passed.
<1>6. CASE policy = "check" /\ ~NearEnough(f, it, w[k].start)
  <2>1. Knows(f, it, Passed(f, i)) /\ ~Shares(s, i)
    BY <1>1, <1>2, <1>4, <1>6 DEF QueryInv, AnyInv, AnyPassed
  <2>2. PICK n \in Nat : n = Len(s) /\ i \in 2..(n + 1) /\ \A c \in 1..n : s[c] \in Event
    <3>1. i \in 1..(Len(s) + 1)
      BY <1>1, <1>3, <2>1, KnowsSome
    <3>. QED
      BY <1>1, <1>3, <3>1
  <2>3. PICK y \in Nat : y = Threshold(f)
    <3>1. Shape(f)
      BY <1>3 DEF ContentInv, ForestInv
    <3>. QED
      BY <3>1, ThresholdNat
  <2>4. ~(n + 1 - i <= y) /\ ~(w[k].start <= s[i + y].start)
    BY <1>1, <1>3, <1>6, <2>2, <2>3 DEF NearEnough
  <2>5. i + y \in 1..n /\ i - 1 \in 1..n /\ i \in 1..n /\ i - 1 <= i + y
    BY <2>2, <2>4
  <2>6. s[i - 1].start <= s[i + y].start /\ s[i - 1].start \in Int /\ s[i + y].start \in Int
    BY <1>3, <2>2, <2>5, StartsUp
  <2>7. w[k].start \in Int
    BY <1>3, <1>4, EventTimes
  <2>8. s[i - 1].start < w[k].start
    BY <2>4, <2>6, <2>7
  <2>9. s[i - 1].start # s[i].start
    BY <2>1, <2>2, <2>5 DEF Shares
  <2>. QED
    BY <1>1, <2>8, <2>9 DEF events, windows, Window
<1>. QED
  BY <1>1, <1>2, <1>5, <1>6 DEF MustBeAhead, events, windows, Window

---------------------------------------------------------------------------------
(* The places of the skipping join. *)

\* Which of two current events is taken first: the left one of two that start together.
\* side is the side of the first.
First(side, a, b) == IF side = "left" THEN a.start <= b.start ELSE a.start < b.start

\* Between two events of s with one start the join is only while the current event of t, the other
\* list, starts no sooner and overlaps the first of the two.
Together(side, s, t, i, j) ==
  Shares(s, i) /\ j <= Len(t) => First(side, s[i], t[j]) /\ t[j].start <= s[i - 1].end

\* A jump is therefore one that stab_forward allows.
LEMMA JumpAsked ==
  ASSUME NEW side, NEW f, ContentInv(f), NEW s, s = f.events, NEW t \in Seq(Event),
         NEW i \in 1..Len(s), NEW j \in 1..Len(t), Together(side, s, t, i, j),
         First(side, s[i], t[j]), ~(t[j].start <= s[i].end), NEW way
  PROVE  MayAsk(f, i, way, t[j].start) /\ (i > 1 => s[i - 1].start # s[i].start)
<1>1. s \in Seq(Event) /\ Ordered(s)
  BY DEF ContentInv, ForestInv, Shape, Typed, EventsOK
<1>2. PICK n \in Nat : n = Len(s) /\ i \in 1..n /\ \A k \in 1..n : s[k] \in Event
  BY <1>1
<1>3. PICK v : v = t[j].start
  OBVIOUS
<1>4. s[i] \in Event /\ t[j] \in Event
  BY <1>2
<1>5. /\ v \in Int /\ v \in Timestamp /\ s[i].start \in Int /\ s[i].end \in Int /\ s[i].start <= s[i].end
      /\ s[i].end < v
  <2>1. /\ t[j].start \in Int /\ s[i].start \in Int /\ s[i].end \in Int /\ s[i].start <= s[i].end
    BY <1>4, EventTimes
  <2>2. t[j].start \in Timestamp
    BY <1>4, EventAssumption
  <2>. QED
    BY <1>3, <2>1, <2>2
<1>6. ASSUME i > 1 PROVE s[i - 1].start < v /\ s[i - 1].start # s[i].start
  <2>1. i - 1 \in 1..n /\ i - 1 < i
    BY <1>2, <1>6
  <2>2. /\ s[i - 1].start \in Int /\ s[i - 1].end \in Int
        /\ s[i - 1].start <= s[i].start
    <3>1. s[i - 1] \in Event /\ i - 1 <= i
      BY <1>2, <2>1
    <3>2. s[i - 1].start <= s[i].start
      BY <1>1, <1>2, <2>1, <3>1, StartsUp
    <3>. QED
      BY <3>1, <3>2, EventTimes
  <2>3. ASSUME s[i - 1].start = s[i].start PROVE FALSE
    <3>1. Shares(s, i)
      BY <1>2, <1>6, <2>3 DEF Shares
    <3>2. v <= s[i - 1].end
      BY <1>3, <3>1 DEF Together
    <3>3. s[i - 1].end <= s[i].end
      <4>1. i - 1 \in DOMAIN s /\ i \in DOMAIN s
        BY <1>1, <1>2, <2>1
      <4>2. AtOrBefore(s[i - 1], s[i])
        BY <1>1, <2>1, <4>1 DEF Ordered
      <4>. QED
        BY <2>2, <2>3, <4>2, <1>5 DEF AtOrBefore
    <3>. QED
      BY <1>5, <2>2, <3>2, <3>3
  <2>. QED
    BY <1>5, <2>2, <2>3
<1>. QED
  BY <1>1, <1>2, <1>3, <1>5, <1>6 DEF MayAsk

\* A step keeps the places, ...
LEMMA StepTogether ==
  ASSUME NEW side, NEW s \in Seq(Event), NEW t \in Seq(Event), NEW i \in 1..Len(s), NEW j \in 1..Len(t),
         First(side, s[i], t[j]), t[j].start <= s[i].end
  PROVE  Together(side, s, t, i + 1, j)
<1>. SUFFICES ASSUME Shares(s, i + 1)
              PROVE  First(side, s[i + 1], t[j]) /\ t[j].start <= s[(i + 1) - 1].end
  BY DEF Together
<1>1. (i + 1) - 1 = i
  OBVIOUS
<1>2. s[i].start = s[i + 1].start
  BY <1>1 DEF Shares
<1>. QED
  BY <1>1, <1>2 DEF First

\* ... a jump does, as the event it leads to starts later than those before it, ...
LEMMA JumpTogether ==
  ASSUME NEW side, NEW s \in Seq(Event), NEW t, NEW v \in Int, NEW j,
         NEW k \in 1..(Len(s) + 1), \A c \in 1..Len(s) : s[c].start <= v <=> c < k
  PROVE  Together(side, s, t, k, j)
<1>. SUFFICES ASSUME Shares(s, k) PROVE FALSE
  BY DEF Together
<1>1. k - 1 \in 1..Len(s) /\ k \in 1..Len(s) /\ k - 1 < k
  BY DEF Shares
<1>2. s[k - 1].start <= v /\ ~(s[k].start <= v)
  BY <1>1
<1>. QED
  BY <1>2 DEF Shares

\* A place of a list has an event.
LEMMA InList ==
  ASSUME NEW s \in Seq(Event), NEW i \in 1..Len(s)
  PROVE  s[i] \in Event
OBVIOUS

\* ... and the other place is not between two such events.
LEMMA OtherTogether ==
  ASSUME NEW side, NEW other, (side = "left" /\ other = "right") \/ (side = "right" /\ other = "left"),
         NEW s \in Seq(Event), NEW t \in Seq(Event), NEW i \in 1..Len(s), NEW j \in 1..Len(t),
         First(side, s[i], t[j]), Together(other, t, s, j, i), NEW k
  PROVE  Together(other, t, s, j, k)
<1>1. s[i].start \in Int /\ t[j].start \in Int
  <2>1. s[i] \in Event /\ t[j] \in Event
    BY InList
  <2>. QED
    BY <2>1, EventTimes
<1>2. ~First(other, t[j], s[i])
  <2>2. CASE side = "left" /\ other = "right"
    BY <1>1, <2>2 DEF First
  <2>3. CASE side = "right" /\ other = "left"
    BY <1>1, <2>3 DEF First
  <2>. QED
    BY <2>2, <2>3
<1>3. ~Shares(t, j)
  BY <1>2 DEF Together
<1>. QED
  BY <1>3 DEF Together

---------------------------------------------------------------------------------
(* What one turn of the skipping join writes. *)

\* A pair with x of the list of one side, and y of the other.
PairOf(side, x, y) == IF side = "left" THEN <<x, y>> ELSE <<y, x>>

\* Pairs are the same only of the same events.
LEMMA PairSame ==
  ASSUME NEW side, NEW a, NEW b, NEW x, NEW y
  PROVE  PairOf(side, x, y) = PairOf(side, a, b) <=> x = a /\ y = b
BY DEF PairOf

\* The rows of JoinedLeft and JoinedRight, one for each event of es.
Row(side, e, found) ==
  IF side = "left" THEN [k \in DOMAIN found |-> <<e, found[k]>>] ELSE [k \in DOMAIN found |-> <<found[k], e>>]
Rows(side, es, t, j) ==
  IF side = "left"
  THEN [n \in DOMAIN es |-> LET found == Partners(es[n], t, j) IN [k \in DOMAIN found |-> <<es[n], found[k]>>]]
  ELSE [n \in DOMAIN es |-> LET found == Partners(es[n], t, j) IN [k \in DOMAIN found |-> <<found[k], es[n]>>]]

\* Each row is that of one event.
LEMMA RowsAt ==
  ASSUME NEW side, NEW es, NEW t, NEW j
  PROVE  /\ DOMAIN Rows(side, es, t, j) = DOMAIN es
         /\ Rows(side, es, t, j) = [n \in DOMAIN es |-> Rows(side, es, t, j)[n]]
         /\ \A n \in DOMAIN es : Rows(side, es, t, j)[n] = Row(side, es[n], Partners(es[n], t, j))
<1>1. CASE side = "left"
  BY <1>1 DEF Rows, Row
<1>2. CASE side # "left"
  BY <1>2 DEF Rows, Row
<1>. QED
  BY <1>1, <1>2

FirstNumbers(r, n) == DOMAIN r = 1..n /\ r = [k \in 1..n |-> r[k]]

\* A function on the first n numbers is a list.
LEMMA ListOf ==
  ASSUME NEW S, NEW n \in Nat, NEW r, FirstNumbers(r, n), \A k \in 1..n : r[k] \in S
  PROVE  r \in Seq(S) /\ Len(r) = n
<1>1. r \in [1..n -> S]
  BY DEF FirstNumbers
<1>. QED
  BY <1>1

\* A row has a pair as often as its partner is found.
LEMMA RowCounts ==
  ASSUME NEW side, NEW e \in Event, NEW found \in Seq(Event), NEW r, r = Row(side, e, found)
  PROVE  /\ r \in Seq(Event \X Event)
         /\ \A a, b \in Event : Occurrences(r, PairOf(side, a, b)) =
                                  IF e = a THEN Occurrences(found, b) ELSE 0
<1>1. PICK n \in Nat : n = Len(found) /\ DOMAIN found = 1..n /\ \A k \in 1..n : found[k] \in Event
  OBVIOUS
<1>2. FirstNumbers(r, n) /\ \A k \in 1..n : r[k] = PairOf(side, e, found[k])
  <2>1. CASE side = "left"
    BY <1>1, <2>1 DEF Row, PairOf, FirstNumbers
  <2>2. CASE side # "left"
    BY <1>1, <2>2 DEF Row, PairOf, FirstNumbers
  <2>. QED
    BY <2>1, <2>2
<1>3. ASSUME NEW k \in 1..n PROVE r[k] \in Event \X Event
  <2>1. found[k] \in Event /\ r[k] = PairOf(side, e, found[k])
    BY <1>1, <1>2
  <2>2. r[k] = <<e, found[k]>> \/ r[k] = <<found[k], e>>
    BY <2>1 DEF PairOf
  <2>. QED
    BY <2>1, <2>2
<1>4. r \in Seq(Event \X Event) /\ Len(r) = n
  BY <1>2, <1>3, ListOf
<1>5. ASSUME NEW a \in Event, NEW b \in Event
      PROVE  Occurrences(r, PairOf(side, a, b)) = IF e = a THEN Occurrences(found, b) ELSE 0
  <2>1. \A k \in 1..n : r[k] = PairOf(side, a, b) <=> e = a /\ found[k] = b
    BY <1>2, PairSame
  <2>2. CASE e = a
    <3>1. Places(r, PairOf(side, a, b)) = Places(found, b)
      BY <1>1, <1>4, <2>1, <2>2 DEF Places
    <3>2. Len(r) \in Nat /\ Len(found) \in Nat
      BY <1>1, <1>4
    <3>. QED
      BY <2>2, <3>1, <3>2, OccNat
  <2>3. CASE e # a
    <3>1. \A k \in 1..Len(r) : r[k] # PairOf(side, a, b)
      BY <1>4, <2>1, <2>3
    <3>2. Len(r) \in Nat
      BY <1>4
    <3>. QED
      BY <2>3, <3>1, <3>2, OccNat
  <2>. QED
    BY <2>2, <2>3
<1>. QED
  BY <1>4, <1>5

\* So many pairs of as many of one list and of another.
Times(x, y) == x * y

\* The rows of the n events of es, and that each row of an a, and no other, has p c times.
RowsOf(rows, n, S) == FirstNumbers(rows, n) /\ \A k \in 1..n : rows[k] \in Seq(S)
EachHas(rows, es, n, p, a, c) == \A k \in 1..n : Occurrences(rows[k], p) = IF es[k] = a THEN c ELSE 0

\* Then the rows one behind the other have p so many times.
LEMMA FlatCounts ==
  ASSUME NEW S, NEW es \in Seq(Event), NEW n \in Nat, n = Len(es), NEW rows, RowsOf(rows, n, S),
         NEW p, NEW a, NEW c \in Nat, EachHas(rows, es, n, p, a, c)
  PROVE  /\ FlattenSeq(rows) \in Seq(S)
         /\ Occurrences(FlattenSeq(rows), p) = Times(Occurrences(es, a), c)
<1>0. /\ FirstNumbers(rows, n) /\ \A k \in 1..n : rows[k] \in Seq(S)
      /\ \A k \in 1..n : Occurrences(rows[k], p) = IF es[k] = a THEN c ELSE 0
  BY DEF RowsOf, EachHas
<1>1. Len(rows) = n
  <2>1. rows \in Seq(Seq(S)) /\ Len(rows) = n
    BY <1>0, ListOf
  <2>. QED
    BY <2>1
<1>2. CASE n = 0
  <2>1. FlattenSeq(rows) = rows
    BY <1>1, <1>2, FlatSteps
  <2>2. rows \in Seq(S)
    <3>1. \A k \in 1..n : rows[k] \in S
      BY <1>2
    <3>. QED
      BY <1>0, <3>1, ListOf
  <2>3. Occurrences(rows, p) = 0 /\ Occurrences(es, a) = 0
    <3>1. Len(rows) \in Nat /\ Len(es) \in Nat /\ \A k \in 1..Len(rows) : FALSE
      BY <1>1, <1>2
    <3>2. \A k \in 1..Len(es) : FALSE
      BY <1>2
    <3>. QED
      BY <3>1, <3>2, OccNat
  <2>4. 0 * c = 0
    OBVIOUS
  <2>. QED
    BY <2>1, <2>2, <2>3, <2>4 DEF Times
<1>3. CASE n > 0
  <2>1. PICK g : FlatBy(rows, n, g)
    BY <1>1, <1>3, FlatSteps
  <2>2. /\ g[1] = rows[1] /\ FlattenSeq(rows) = g[n]
        /\ \A k \in 1..n : k + 1 <= n => g[k + 1] = g[k] \o rows[k + 1]
    BY <2>1 DEF FlatBy
  <2>. DEFINE Good(k) == g[k] \in Seq(S) /\ Occurrences(g[k], p) = Among(es, k, a) * c
              K == {k \in Nat : k + 1 \in 1..n => Good(k + 1)}
  <2>3. \A k \in 0..n : Among(es, k, a) \in Nat
    BY AmongNone
  <2>4. \A k \in Nat : k + 1 <= n => Among(es, k + 1, a) = Among(es, k, a) + IF es[k + 1] = a THEN 1 ELSE 0
    <3>1. ASSUME NEW k \in Nat, k + 1 <= n
          PROVE  Among(es, k + 1, a) = Among(es, k, a) + IF es[k + 1] = a THEN 1 ELSE 0
      <4>1. k < Len(es)
        BY <3>1
      <4>. QED
        BY <4>1, AmongNext
    <3>. QED
      BY <3>1
  <2>5. 0 \in K
    <3>1. g[1] \in Seq(S)
      BY <1>0, <1>3, <2>2
    <3>2. Among(es, 1, a) = IF es[1] = a THEN 1 ELSE 0
      <4>1. Among(es, 0, a) = 0
        BY AmongEnds
      <4>2. 0 \in Nat /\ 0 + 1 <= n /\ 0 + 1 = 1
        BY <1>3
      <4>3. Among(es, 0 + 1, a) = Among(es, 0, a) + IF es[0 + 1] = a THEN 1 ELSE 0
        BY <2>4, <4>2
      <4>. QED
        BY <4>1, <4>2, <4>3
    <3>3. Occurrences(g[1], p) = IF es[1] = a THEN c ELSE 0
      <4>1. 1 \in 1..n
        BY <1>3
      <4>. QED
        BY <1>0, <2>2, <4>1
    <3>4. 1 * c = c /\ 0 * c = 0
      OBVIOUS
    <3>5. Occurrences(g[1], p) = Among(es, 1, a) * c
      BY <3>2, <3>3, <3>4
    <3>6. 0 + 1 = 1
      OBVIOUS
    <3>. QED
      BY <3>1, <3>5, <3>6
  <2>6. ASSUME NEW k \in K PROVE k + 1 \in K
    <3>1. SUFFICES ASSUME (k + 1) + 1 \in 1..n PROVE Good((k + 1) + 1)
      OBVIOUS
    <3>2. PICK m \in 1..n : m = k + 1 /\ m + 1 \in 1..n /\ m + 1 <= n
      BY <3>1
    <3>3. Good(m)
      BY <3>2
    <3>. HIDE DEF K
    <3>4. g[m + 1] = g[m] \o rows[m + 1] /\ rows[m + 1] \in Seq(S)
      BY <1>0, <2>2, <3>2
    <3>5. Occurrences(g[m + 1], p) = Occurrences(g[m], p) + Occurrences(rows[m + 1], p)
      BY <3>3, <3>4, OccBoth
    <3>6. Occurrences(rows[m + 1], p) = IF es[m + 1] = a THEN c ELSE 0
      BY <1>0, <3>2
    <3>7. PICK x \in Nat, y \in Nat : x = Among(es, m, a) /\ y = Among(es, m + 1, a)
      <4>1. m \in 0..n /\ m + 1 \in 0..n
        BY <3>2
      <4>. QED
        BY <2>3, <4>1
    <3>8. y = x + IF es[m + 1] = a THEN 1 ELSE 0
      BY <2>4, <3>2, <3>7
    <3>9. (x + 1) * c = x * c + c
      OBVIOUS
    <3>10. Occurrences(g[m + 1], p) = y * c
      <4>1. Occurrences(g[m], p) = x * c /\ x * c \in Nat
        BY <3>3, <3>7
      <4>2. CASE es[m + 1] = a
        BY <3>5, <3>6, <3>8, <3>9, <4>1, <4>2
      <4>3. CASE es[m + 1] # a
        BY <3>5, <3>6, <3>8, <4>1, <4>3
      <4>. QED
        BY <4>2, <4>3
    <3>11. g[m + 1] \in Seq(S)
      BY <3>3, <3>4
    <3>12. Good(m + 1)
      BY <3>7, <3>10, <3>11
    <3>. QED
      BY <3>2, <3>12
  <2>7. K = Nat
    <3>. HIDE DEF Good
    <3>1. K \in SUBSET Nat
      OBVIOUS
    <3>. HIDE DEF K
    <3>. QED
      BY <2>5, <2>6, <3>1, NatAll
  <2>8. Good(n)
    <3>. HIDE DEF Good
    <3>1. n - 1 \in Nat /\ (n - 1) + 1 = n /\ n \in 1..n
      BY <1>3
    <3>2. n - 1 \in K
      BY <2>7, <3>1
    <3>. QED
      BY <3>1, <3>2
  <2>9. Among(es, n, a) = Occurrences(es, a)
    BY AmongEnds
  <2>. QED
    BY <2>2, <2>8, <2>9 DEF Times
<1>. QED
  BY <1>2, <1>3

\* How often an event is from the i-th on.
Ahead(s, i, e) == Amid(s, i, Len(s), e)

\* Passing some of s, as many are no longer ahead.
LEMMA AheadLess ==
  ASSUME NEW s \in Seq(Event), NEW i \in 1..(Len(s) + 1), NEW k \in i..(Len(s) + 1), NEW e
  PROVE  /\ Ahead(s, i, e) \in Nat /\ Ahead(s, k, e) \in Nat /\ Amid(s, i, k - 1, e) \in Nat
         /\ Amid(s, i, k - 1, e) + Ahead(s, k, e) = Ahead(s, i, e)
<1>1. PICK n \in Nat : n = Len(s)
  OBVIOUS
<1>2. n \in 0..Len(s) /\ i \in 1..(n + 1) /\ k \in 1..(n + 1)
  BY <1>1
<1>3. /\ Amid(s, i, n, e) \in Nat /\ Among(s, i - 1, e) \in Nat
      /\ Among(s, n, e) = Among(s, i - 1, e) + Amid(s, i, n, e)
      /\ Amid(s, i, n, e) = 0 <=> \A c \in i..n : s[c] # e
  BY <1>2, AmongFrom, Zenon
<1>4. /\ Amid(s, k, n, e) \in Nat /\ Among(s, k - 1, e) \in Nat
      /\ Among(s, n, e) = Among(s, k - 1, e) + Amid(s, k, n, e)
      /\ Amid(s, k, n, e) = 0 <=> \A c \in k..n : s[c] # e
  BY <1>2, AmongFrom, Zenon
<1>5. /\ Among(s, i - 1, e) \in Nat /\ Among(s, k - 1, e) \in Nat
      /\ Among(s, i - 1, e) <= Among(s, k - 1, e)
      /\ Amid(s, i, k - 1, e) \in Nat
      /\ Among(s, k - 1, e) = Among(s, i - 1, e) + Amid(s, i, k - 1, e)
      /\ Amid(s, i, k - 1, e) = 0 <=> \A c \in i..(k - 1) : s[c] # e
  BY AmongUp
<1>6. Ahead(s, i, e) = Amid(s, i, n, e) /\ Ahead(s, k, e) = Amid(s, k, n, e)
  BY <1>1 DEF Ahead
<1>7. PICK x, y, z, w, u : /\ x = Amid(s, i, n, e) /\ y = Among(s, i - 1, e) /\ z = Among(s, n, e)
                           /\ w = Amid(s, k, n, e) /\ u = Amid(s, i, k - 1, e)
  OBVIOUS
<1>8. u + w = x
  <2>1. x \in Nat /\ y \in Nat /\ w \in Nat /\ u \in Nat /\ z = y + x /\ z = (y + u) + w
    BY <1>3, <1>4, <1>5, <1>7, Zenon
  <2>. QED
    BY <2>1
<1>. QED
  BY <1>1, <1>3, <1>4, <1>5, <1>6, <1>7, <1>8, Zenon

\* None is ahead, or between, where the event is not.
LEMMA AheadNone ==
  ASSUME NEW s \in Seq(Event), NEW i \in 1..(Len(s) + 1), NEW e
  PROVE  Ahead(s, i, e) = 0 <=> \A c \in i..Len(s) : s[c] # e
<1>1. PICK n \in Nat : n = Len(s)
  OBVIOUS
<1>2. n \in 0..Len(s) /\ i \in 1..(n + 1)
  BY <1>1
<1>3. Amid(s, i, n, e) = 0 <=> \A c \in i..n : s[c] # e
  BY <1>2, AmongFrom
<1>. QED
  BY <1>1, <1>3 DEF Ahead

\* Nor is it amid a list where no position there holds it.
LEMMA AmidNone ==
  ASSUME NEW s \in Seq(Event), NEW i \in 1..(Len(s) + 1), NEW k \in i..(Len(s) + 1), NEW e
  PROVE  Amid(s, i, k - 1, e) = 0 <=> \A c \in i..(k - 1) : s[c] # e
BY AmongUp

\* The partners of an event that starts no later than the j-th of t: all from there on that
\* overlap it.
LEMMA PartnersCount ==
  ASSUME NEW t \in Seq(Event), Ordered(t), NEW j \in 1..Len(t), NEW e \in Event, e.start <= t[j].start
  PROVE  /\ Partners(e, t, j) \in Seq(Event)
         /\ \A b \in Event : Occurrences(Partners(e, t, j), b) = IF Overlaps(e, b) THEN Ahead(t, j, b) ELSE 0
<1>1. PICK n \in Nat : n = Len(t) /\ j \in 1..n /\ \A k \in 1..n : t[k] \in Event
  OBVIOUS
<1>2. PICK v : v = e.end
  OBVIOUS
<1>3. v \in Int /\ e.start \in Int
  BY <1>2, EventTimes
<1>4. \A k \in 1..n : t[k].start \in Int /\ t[k].end \in Int /\ t[k].start <= t[k].end
  BY <1>1, EventTimes
<1>5. PICK m : m = NextFrom(t, j, v)
  OBVIOUS
<1>6. j \in 1..(Len(t) + 1)
  BY <1>1
<1>7. /\ m \in j..(n + 1) /\ \A c \in j..(m - 1) : t[c].start <= v
      /\ m <= n => v < t[m].start
  BY <1>1, <1>3, <1>5, <1>6, ListFinds
<1>8. Partners(e, t, j) = SubSeq(t, j, m - 1)
  BY <1>2, <1>5 DEF Partners, NextFrom
<1>9. SubSeq(t, j, m - 1) \in Seq(Event)
  <2>1. j \in 1..(Len(t) + 1) /\ m - 1 \in 0..Len(t)
    BY <1>1, <1>7
  <2>. QED
    BY <2>1, PartOf, Zenon
<1>10. ASSUME NEW b \in Event
       PROVE  Occurrences(Partners(e, t, j), b) = IF Overlaps(e, b) THEN Ahead(t, j, b) ELSE 0
  <2>1. Occurrences(Partners(e, t, j), b) = Amid(t, j, m - 1, b)
    BY <1>8 DEF Amid
  <2>2. m \in j..(Len(t) + 1) /\ m \in 1..(Len(t) + 1) /\ m \in m..(Len(t) + 1)
    BY <1>1, <1>7
  <2>3. /\ Ahead(t, j, b) \in Nat /\ Ahead(t, m, b) \in Nat /\ Amid(t, j, m - 1, b) \in Nat
        /\ Amid(t, j, m - 1, b) + Ahead(t, m, b) = Ahead(t, j, b)
    <3>1. m \in j..(Len(t) + 1)
      BY <2>2
    <3>. QED
      BY <1>6, <3>1, AheadLess, Zenon
  <2>4. /\ Ahead(t, m, b) = 0 <=> \A c \in m..Len(t) : t[c] # b
        /\ Amid(t, j, m - 1, b) = 0 <=> \A c \in j..(m - 1) : t[c] # b
    <3>1. Ahead(t, m, b) = 0 <=> \A c \in m..Len(t) : t[c] # b
      BY <2>2, AheadNone, Zenon
    <3>2. Amid(t, j, m - 1, b) = 0 <=> \A c \in j..(m - 1) : t[c] # b
      BY <1>6, <2>2, AmidNone, Zenon
    <3>. QED
      BY <3>1, <3>2
  <2>5. b.start \in Int /\ b.end \in Int
    BY EventTimes
  <2>6. CASE Overlaps(e, b)
    <3>1. ASSUME NEW c \in m..Len(t) PROVE t[c] # b
      <4>1. c \in 1..n /\ m \in 1..n /\ m <= c /\ m <= n
        BY <1>1, <1>7, <3>1
      <4>2. t[m].start <= t[c].start /\ v < t[m].start
        BY <1>1, <1>7, <4>1, StartsUp
      <4>3. b.start <= v
        BY <1>2, <2>6 DEF Overlaps
      <4>. QED
        BY <1>3, <1>4, <2>5, <4>1, <4>2, <4>3
    <3>2. Ahead(t, m, b) = 0
      BY <2>4, <3>1, Zenon
    <3>. QED
      BY <2>1, <2>3, <2>6, <3>2
  <2>7. CASE ~Overlaps(e, b)
    <3>1. ASSUME NEW c \in j..(m - 1) PROVE t[c] # b
      <4>1. c \in 1..n /\ j <= c
        BY <1>1, <1>7, <3>1
      <4>2. t[j].start <= t[c].start /\ t[c].start <= v
        BY <1>1, <1>7, <3>1, <4>1, StartsUp
      <4>3. t[j].start \in Int /\ t[c].start \in Int /\ t[c].end \in Int /\ t[c].start <= t[c].end
        BY <1>1, <1>4, <4>1
      <4>4. e.start <= t[c].end /\ t[c].start <= e.end
        BY <1>2, <1>3, <4>2, <4>3
      <4>. QED
        BY <2>7, <4>4 DEF Overlaps
    <3>. QED
      BY <2>1, <2>4, <2>7, <3>1
  <2>. QED
    BY <2>6, <2>7
<1>. QED
  BY <1>8, <1>9, <1>10

\* Of all that is to be written, with some still ahead.
Fits(n, ahead, all, exact) == n + ahead <= all /\ (exact => n + ahead = all)

\* Passing c of x, each joined with y.
LEMMA FitsOn ==
  ASSUME NEW n \in Nat, NEW all \in Nat, NEW x \in Nat, NEW x2 \in Nat, NEW y \in Nat, NEW c \in Nat, NEW exact,
         c + x2 <= x, exact => y = 0 \/ c + x2 = x, Fits(n, x * y, all, exact)
  PROVE  Fits(n + c * y, x2 * y, all, exact)
<1>1. PICK z \in Nat : z = c + x2
  OBVIOUS
<1>2. z * y = c * y + x2 * y /\ c * y \in Nat /\ x2 * y \in Nat /\ x * y \in Nat /\ z * y \in Nat
  BY <1>1
<1>3. z * y <= x * y
  <2>1. PICK d \in Nat : x = z + d
    <3>1. x - z \in Nat /\ x = z + (x - z)
      BY <1>1
    <3>. QED
      BY <3>1
  <2>2. x * y = z * y + d * y /\ d * y \in Nat
    BY <2>1
  <2>. QED
    BY <1>2, <2>2
<1>4. exact => z * y = x * y
  <2>1. CASE y = 0
    <3>1. z * 0 = 0 /\ x * 0 = 0
      OBVIOUS
    <3>. QED
      BY <2>1, <3>1
  <2>2. CASE y # 0
    BY <1>1, <2>2
  <2>. QED
    BY <2>1, <2>2
<1>5. PICK p, q, r : p = c * y /\ q = x2 * y /\ r = x * y
  OBVIOUS
<1>6. p \in Nat /\ q \in Nat /\ r \in Nat /\ p + q <= r /\ (exact => p + q = r)
  BY <1>2, <1>3, <1>4, <1>5
<1>7. Fits(n, r, all, exact)
  BY <1>5
<1>8. Fits(n + p, q, all, exact)
  BY <1>6, <1>7 DEF Fits
<1>. QED
  BY <1>5, <1>8

\* Events that start no later than v, and what es writes: each pair that overlaps as often as
\* its partner is ahead.
StartBy(es, v) == \A e \in Event : Occurrences(es, e) # 0 => e.start <= v
RowsHave(side, t, j, es, new) ==
  /\ new \in Seq(Event \X Event)
  /\ \A a, b \in Event : Occurrences(new, PairOf(side, a, b)) =
                           Times(Occurrences(es, a), IF Overlaps(a, b) THEN Ahead(t, j, b) ELSE 0)

\* What is written of es, events that start no later than the j-th of t.
LEMMA RowsCount ==
  ASSUME NEW side, NEW t \in Seq(Event), Ordered(t), NEW j \in 1..Len(t), NEW es \in Seq(Event),
         StartBy(es, t[j].start), NEW new, new = FlattenSeq(Rows(side, es, t, j))
  PROVE  RowsHave(side, t, j, es, new)
<1>1. PICK n \in Nat : n = Len(es) /\ DOMAIN es = 1..n /\ \A k \in 1..n : es[k] \in Event
  OBVIOUS
<1>2. PICK rows : rows = Rows(side, es, t, j)
  OBVIOUS
<1>3. /\ FirstNumbers(rows, n)
      /\ \A k \in 1..n : rows[k] = Row(side, es[k], Partners(es[k], t, j))
  BY <1>1, <1>2, RowsAt DEF FirstNumbers
<1>4. ASSUME NEW k \in 1..n
      PROVE  /\ rows[k] \in Seq(Event \X Event)
             /\ \A a, b \in Event : Occurrences(rows[k], PairOf(side, a, b)) =
                  IF es[k] = a THEN (IF Overlaps(a, b) THEN Ahead(t, j, b) ELSE 0) ELSE 0
  <2>1. PICK e \in Event : e = es[k]
    BY <1>1
  <2>2. e.start <= t[j].start
    <3>1. Occurrences(es, e) # 0
      <4>1. Len(es) \in Nat /\ k \in 1..Len(es)
        BY <1>1
      <4>. QED
        BY <2>1, <4>1, OccNat
    <3>. QED
      BY <2>1, <3>1 DEF StartBy
  <2>3. PICK found \in Seq(Event) : found = Partners(e, t, j)
    BY <2>2, PartnersCount
  <2>4. \A b \in Event : Occurrences(found, b) = IF Overlaps(e, b) THEN Ahead(t, j, b) ELSE 0
    BY <2>2, <2>3, PartnersCount
  <2>5. rows[k] = Row(side, e, found)
    BY <1>3, <2>1, <2>3
  <2>6. /\ rows[k] \in Seq(Event \X Event)
        /\ \A a, b \in Event : Occurrences(rows[k], PairOf(side, a, b)) =
                                 IF e = a THEN Occurrences(found, b) ELSE 0
    <3>1. PICK r : r = rows[k] /\ r = Row(side, e, found)
      BY <2>5
    <3>2. /\ r \in Seq(Event \X Event)
          /\ \A a, b \in Event : Occurrences(r, PairOf(side, a, b)) =
                                   IF e = a THEN Occurrences(found, b) ELSE 0
      BY <2>1, <2>3, <3>1, RowCounts
    <3>. QED
      BY <3>1, <3>2, Zenon
  <2>. QED
    BY <2>1, <2>4, <2>6
<1>5. ASSUME NEW a \in Event, NEW b \in Event
      PROVE  /\ new \in Seq(Event \X Event)
             /\ Occurrences(new, PairOf(side, a, b)) =
                  Times(Occurrences(es, a), IF Overlaps(a, b) THEN Ahead(t, j, b) ELSE 0)
  <2>1. PICK c \in Nat : c = IF Overlaps(a, b) THEN Ahead(t, j, b) ELSE 0
    <3>1. j \in 1..(Len(t) + 1) /\ j \in j..(Len(t) + 1)
      OBVIOUS
    <3>2. Ahead(t, j, b) \in Nat
      BY <3>1, AheadLess
    <3>. QED
      BY <3>2
  <2>2. PICK p : p = PairOf(side, a, b)
    OBVIOUS
  <2>3. PICK S : S = Event \X Event
    OBVIOUS
  <2>4. RowsOf(rows, n, S)
    BY <1>3, <1>4, <2>3 DEF RowsOf
  <2>5. EachHas(rows, es, n, p, a, c)
    BY <1>4, <2>1, <2>2 DEF EachHas
  <2>6. n = Len(es) /\ n \in Nat /\ c \in Nat
    BY <1>1, <2>1
  <2>7. FlattenSeq(rows) \in Seq(S) /\ Occurrences(FlattenSeq(rows), p) = Times(Occurrences(es, a), c)
    BY <2>4, <2>5, <2>6, FlatCounts
  <2>. QED
    BY <1>2, <2>1, <2>2, <2>3, <2>7
<1>6. new \in Seq(Event \X Event)
  <2>1. t[j] \in Event
    BY InList
  <2>. QED
    BY <1>5, <2>1
<1>. QED
  BY <1>5, <1>6 DEF RowsHave

\* How often each pair is written: never if its events do not overlap; else no more often than
\* leaves, of all its places in the two lists, those still ahead in both, or just as often.
Counts(side, s, t, i, j, out, exact) ==
  /\ out \in Seq(Event \X Event)
  /\ \A a, b \in Event :
       IF Overlaps(a, b)
       THEN Fits(Occurrences(out, PairOf(side, a, b)), Ahead(s, i, a) * Ahead(t, j, b),
                 Occurrences(s, a) * Occurrences(t, b), exact)
       ELSE Occurrences(out, PairOf(side, a, b)) = 0

\* From either side.
LEMMA CountsTurned ==
  ASSUME NEW side, NEW other, (side = "left" /\ other = "right") \/ (side = "right" /\ other = "left"),
         NEW s \in Seq(Event), NEW t \in Seq(Event), NEW i \in 1..(Len(s) + 1), NEW j \in 1..(Len(t) + 1),
         NEW out, NEW exact, Counts(side, s, t, i, j, out, exact)
  PROVE  Counts(other, t, s, j, i, out, exact)
<1>1. ASSUME NEW a \in Event, NEW b \in Event
      PROVE  IF Overlaps(b, a)
             THEN Fits(Occurrences(out, PairOf(other, b, a)), Ahead(t, j, b) * Ahead(s, i, a),
                       Occurrences(t, b) * Occurrences(s, a), exact)
             ELSE Occurrences(out, PairOf(other, b, a)) = 0
  <2>1. PairOf(side, a, b) = PairOf(other, b, a)
    BY DEF PairOf
  <2>2. Overlaps(a, b) <=> Overlaps(b, a)
    BY DEF Overlaps
  <2>3. PICK x \in Nat, y \in Nat, z \in Nat, w \in Nat :
          x = Ahead(s, i, a) /\ y = Ahead(t, j, b) /\ z = Occurrences(s, a) /\ w = Occurrences(t, b)
    <3>1. i \in i..(Len(s) + 1) /\ j \in j..(Len(t) + 1) /\ Len(s) \in Nat /\ Len(t) \in Nat
      OBVIOUS
    <3>2. Ahead(s, i, a) \in Nat /\ Ahead(t, j, b) \in Nat
      BY <3>1, AheadLess
    <3>3. Occurrences(s, a) \in Nat /\ Occurrences(t, b) \in Nat
      BY <3>1, OccNat
    <3>. QED
      BY <3>2, <3>3
  <2>4. x * y = y * x /\ z * w = w * z
    OBVIOUS
  <2>5. IF Overlaps(a, b)
        THEN Fits(Occurrences(out, PairOf(side, a, b)), x * y, z * w, exact)
        ELSE Occurrences(out, PairOf(side, a, b)) = 0
    BY <2>3 DEF Counts
  <2>. QED
    BY <2>1, <2>2, <2>3, <2>4, <2>5
<1>2. out \in Seq(Event \X Event)
  BY DEF Counts
<1>. QED
  BY <1>1, <1>2 DEF Counts

\* What a turn takes of s from i to k, the other list being at an event that starts at v: none
\* that starts later, none twice, and all that last until v if exact.
Takes(s, i, k, v, es, exact) ==
  /\ es \in Seq(Event)
  /\ \A e \in Event : /\ Occurrences(es, e) # 0 => e.start <= v
                      /\ Occurrences(es, e) <= Amid(s, i, k - 1, e)
                      /\ exact /\ v <= e.end => Occurrences(es, e) = Amid(s, i, k - 1, e)

\* A turn keeps the count.
LEMMA TurnCounts ==
  ASSUME NEW side, NEW s \in Seq(Event), NEW t \in Seq(Event), Ordered(t),
         NEW i \in 1..(Len(s) + 1), NEW k \in i..(Len(s) + 1), NEW j \in 1..Len(t), NEW out, NEW exact,
         Counts(side, s, t, i, j, out, exact), NEW es, Takes(s, i, k, t[j].start, es, exact),
         NEW new, new = FlattenSeq(Rows(side, es, t, j))
  PROVE  Counts(side, s, t, k, j, out \o new, exact)
<1>1. /\ es \in Seq(Event)
      /\ \A e \in Event : /\ Occurrences(es, e) # 0 => e.start <= t[j].start
                          /\ Occurrences(es, e) <= Amid(s, i, k - 1, e)
                          /\ exact /\ t[j].start <= e.end => Occurrences(es, e) = Amid(s, i, k - 1, e)
  BY DEF Takes
<1>2. RowsHave(side, t, j, es, new)
  <2>1. StartBy(es, t[j].start)
    BY <1>1 DEF StartBy
  <2>2. es \in Seq(Event)
    BY <1>1
  <2>. QED
    BY <2>1, <2>2, RowsCount
<1>3. out \in Seq(Event \X Event) /\ out \o new \in Seq(Event \X Event)
  BY <1>2 DEF Counts, RowsHave
<1>4. j \in 1..(Len(t) + 1) /\ j \in j..(Len(t) + 1) /\ Len(es) \in Nat /\ Len(out) \in Nat
      /\ Len(s) \in Nat /\ Len(t) \in Nat
  BY <1>1, <1>3
<1>5. ASSUME NEW a \in Event, NEW b \in Event
      PROVE  IF Overlaps(a, b)
             THEN Fits(Occurrences(out \o new, PairOf(side, a, b)), Ahead(s, k, a) * Ahead(t, j, b),
                       Occurrences(s, a) * Occurrences(t, b), exact)
             ELSE Occurrences(out \o new, PairOf(side, a, b)) = 0
  <2>1. PICK p : p = PairOf(side, a, b)
    OBVIOUS
  <2>2. Occurrences(out \o new, p) = Occurrences(out, p) + Occurrences(new, p)
    BY <1>2, <1>3, OccBoth DEF RowsHave
  <2>3. PICK n \in Nat, c \in Nat : n = Occurrences(out, p) /\ c = Occurrences(es, a)
    BY <1>4, OccNat
  <2>4. PICK x \in Nat, x2 \in Nat, u \in Nat :
          x = Ahead(s, i, a) /\ x2 = Ahead(s, k, a) /\ u = Amid(s, i, k - 1, a) /\ u + x2 = x
    BY AheadLess
  <2>5. PICK y \in Nat : y = Ahead(t, j, b) /\ (y = 0 <=> \A d \in j..Len(t) : t[d] # b)
    <3>1. Ahead(t, j, b) \in Nat
      BY <1>4, AheadLess
    <3>. QED
      BY <1>4, <3>1, AheadNone
  <2>6. PICK all \in Nat : all = Occurrences(s, a) * Occurrences(t, b)
    <3>1. Occurrences(s, a) \in Nat /\ Occurrences(t, b) \in Nat
      BY <1>4, OccNat
    <3>. QED
      BY <3>1
  <2>7. IF Overlaps(a, b) THEN Fits(n, x * y, all, exact) ELSE n = 0
    BY <2>1, <2>3, <2>4, <2>5, <2>6 DEF Counts
  <2>8. Occurrences(new, p) = c * (IF Overlaps(a, b) THEN y ELSE 0)
    BY <1>2, <2>1, <2>3, <2>5 DEF Times, RowsHave
  <2>9. CASE ~Overlaps(a, b)
    <3>1. c * 0 = 0
      OBVIOUS
    <3>. QED
      BY <2>1, <2>2, <2>3, <2>7, <2>8, <2>9, <3>1
  <2>10. CASE Overlaps(a, b)
    <3>1. c <= u /\ (exact /\ t[j].start <= a.end => c = u)
      BY <1>1, <2>3, <2>4
    <3>2. ASSUME y # 0 PROVE t[j].start <= a.end
      <4>1. PICK d \in j..Len(t) : t[d] = b
        BY <2>5, <3>2
      <4>2. d \in 1..Len(t) /\ j \in 1..Len(t) /\ j <= d
        OBVIOUS
      <4>3. t[j].start <= b.start /\ t[j].start \in Int
        BY <4>1, <4>2, StartsUp
      <4>4. b.start <= a.end /\ b.start \in Int /\ a.end \in Int
        BY <2>10, EventTimes DEF Overlaps
      <4>. QED
        BY <4>3, <4>4
    <3>3. c + x2 <= x /\ (exact => y = 0 \/ c + x2 = x)
      BY <2>4, <3>1, <3>2
    <3>4. Fits(n, x * y, all, exact)
      BY <2>7, <2>10
    <3>5. Fits(n + c * y, x2 * y, all, exact)
      BY <3>3, <3>4, FitsOn
    <3>6. Occurrences(out \o new, p) = n + c * y
      BY <2>2, <2>3, <2>8, <2>10
    <3>. QED
      BY <2>1, <2>4, <2>5, <2>6, <2>10, <3>5, <3>6
  <2>. QED
    BY <2>9, <2>10
<1>. QED
  BY <1>3, <1>5 DEF Counts

\* A step takes the event it passes.
LEMMA StepTakes ==
  ASSUME NEW s \in Seq(Event), NEW i \in 1..Len(s), NEW v, s[i].start <= v, NEW exact
  PROVE  Takes(s, i, i + 1, v, <<s[i]>>, exact)
<1>1. PICK n \in Nat, m \in Nat, k \in Nat : n = Len(s) /\ m = i - 1 /\ k = i + 1 /\ m < n /\ m + 1 = i /\ k - 1 = i
  OBVIOUS
<1>2. i \in 1..(Len(s) + 1) /\ k \in i..(Len(s) + 1)
  BY <1>1
<1>3. s[i] \in Event
  BY InList
<1>4. ASSUME NEW e \in Event
      PROVE  /\ Occurrences(<<s[i]>>, e) # 0 => e.start <= v
             /\ Occurrences(<<s[i]>>, e) = Amid(s, i, k - 1, e)
  <2>1. Occurrences(<<s[i]>>, e) = IF s[i] = e THEN 1 ELSE 0
    BY OccFew
  <2>2. Among(s, m, e) \in Nat /\ Among(s, m + 1, e) = Among(s, m, e) + IF s[m + 1] = e THEN 1 ELSE 0
    BY <1>1, AmongNext
  <2>3. Amid(s, i, k - 1, e) \in Nat /\ Among(s, k - 1, e) = Among(s, i - 1, e) + Amid(s, i, k - 1, e)
    BY <1>2, AmongUp
  <2>4. PICK x, y, z : x = Among(s, m, e) /\ y = Amid(s, i, k - 1, e) /\ z = Among(s, i, e)
    OBVIOUS
  <2>5. z = x + IF s[i] = e THEN 1 ELSE 0
    BY <1>1, <2>2, <2>4
  <2>6. z = x + y
    BY <1>1, <2>3, <2>4
  <2>7. y = IF s[i] = e THEN 1 ELSE 0
    <3>1. x \in Nat /\ y \in Nat
      BY <2>2, <2>3, <2>4
    <3>. QED
      BY <2>5, <2>6, <3>1
  <2>. QED
    BY <2>1, <2>4, <2>7
<1>5. <<s[i]>> \in Seq(Event)
  BY <1>3
<1>6. \A e \in Event : Amid(s, i, k - 1, e) \in Nat
  BY <1>2, AmongUp
<1>7. Takes(s, i, k, v, <<s[i]>>, exact)
  BY <1>4, <1>5, <1>6 DEF Takes
<1>. QED
  BY <1>1, <1>7

\* What a stab should write.
LEMMA ExpectedCounts ==
  ASSUME NEW s \in Seq(Event), NEW i \in 1..(Len(s) + 1), NEW v
  PROVE  \A e \in Event : Occurrences(ExpectedOf(s, i, v), e) = IF ActiveAt(e, v) THEN Ahead(s, i, e) ELSE 0
<1>1. PICK t : t = SubSeq(s, i, Len(s))
  OBVIOUS
<1>2. t \in Seq(Event)
  <2>1. Len(s) \in 0..Len(s)
    OBVIOUS
  <2>. QED
    BY <1>1, <2>1, PartOf
<1>3. Holds(Selected(t, LAMBDA e : ActiveAt(e, v)), t, Event \cap Active(v))
  BY <1>2, HoldsItself, SelectedHolds
<1>4. ExpectedOf(s, i, v) = Selected(t, LAMBDA e : ActiveAt(e, v))
  BY <1>1 DEF ExpectedOf
<1>5. \A e \in Event : e \in Event \cap Active(v) <=> ActiveAt(e, v)
  BY DEF Active
<1>. QED
  BY <1>1, <1>3, <1>4, <1>5 DEF Holds, Amid, Ahead

\* A jump under any policy takes what is active; all of it where starts are distinct, as the
\* event it jumps from, which alone may be lost, has ended.
LEMMA JumpTakes ==
  ASSUME NEW f, ContentInv(f), NEW s, s = f.events, NEW i \in 1..Len(s), NEW way, NEW v,
         MayAsk(f, i, way, v), s[i].end < v, NEW t \in Seq(Event), Right(f, t, i, v),
         NEW k, k = StartsAfter(s, v), NEW exact, exact => DistinctStarts(s)
  PROVE  /\ k \in i..(Len(s) + 1) /\ \A c \in 1..Len(s) : s[c].start <= v <=> c < k
         /\ Takes(s, i, k, v, t, exact)
<1>1. s \in Seq(Event) /\ Ordered(s)
  BY DEF ContentInv, ForestInv, Shape, Typed, EventsOK
<1>2. i \in 1..(Len(s) + 1) /\ Len(s) \in Nat
  BY <1>1
<1>3. /\ k \in i..(Len(s) + 1) /\ \A c \in 1..Len(s) : s[c].start <= v <=> c < k
      /\ Fresher(s, i, k, v, t)
  BY <1>2, StabFresher
<1>4. v \in Int
  BY EventAssumption DEF MayAsk, Timestamp
<1>5. s[i] \in Event /\ s[i].end \in Int
  BY <1>1, InList, EventTimes
<1>6. ASSUME NEW e \in Event
      PROVE  /\ Occurrences(t, e) # 0 => e.start <= v
             /\ Occurrences(t, e) <= Amid(s, i, k - 1, e)
             /\ exact /\ v <= e.end => Occurrences(t, e) = Amid(s, i, k - 1, e)
  <2>1. PICK c \in Nat : c = Occurrences(t, e)
    <3>1. Len(t) \in Nat
      OBVIOUS
    <3>. QED
      BY <3>1, OccNat
  <2>2. Among(s, i - 1, e) \in Nat /\ Amid(s, i, k - 1, e) \in Nat
        /\ Among(s, k - 1, e) = Among(s, i - 1, e) + Amid(s, i, k - 1, e)
    BY <1>1, <1>2, <1>3, AmongUp
  <2>3. PICK x \in Nat, u \in Nat : x = Among(s, i - 1, e) /\ u = Amid(s, i, k - 1, e) /\ Among(s, k - 1, e) = x + u
    BY <2>2
  <2>4. c # 0 => ActiveAt(e, v) /\ c <= x + u /\ x = 0
    BY <1>3, <2>1, <2>3 DEF Fresher
  <2>5. c <= u
    BY <2>4
  <2>6. ASSUME exact, v <= e.end, u # 0 PROVE u <= c
    <3>1. PICK d \in i..(k - 1) : s[d] = e
      <4>1. Amid(s, i, k - 1, e) = 0 <=> \A d \in i..(k - 1) : s[d] # e
        BY <1>1, <1>2, <1>3, AmidNone
      <4>. QED
        BY <2>3, <2>6, <4>1
    <3>2. d \in 1..Len(s) /\ d < k /\ d \in DOMAIN s /\ i \in DOMAIN s
      BY <1>1, <1>2, <1>3, <3>1
    <3>3. e.start <= v
      BY <1>3, <3>1, <3>2
    <3>4. e.end \in Int
      BY EventTimes
    <3>5. d # i
      BY <1>4, <1>5, <2>6, <3>1, <3>4
    <3>6. e.start # s[i].start
      BY <2>6, <3>1, <3>2, <3>5 DEF DistinctStarts
    <3>7. Occurrences(t, e) = Occurrences(ExpectedOf(s, i, v), e)
      BY <3>6 DEF Right
    <3>8. Occurrences(ExpectedOf(s, i, v), e) = Ahead(s, i, e)
      BY <1>1, <1>2, <2>6, <3>3, ExpectedCounts DEF ActiveAt
    <3>9. /\ Ahead(s, i, e) \in Nat /\ Ahead(s, k, e) \in Nat
          /\ Amid(s, i, k - 1, e) + Ahead(s, k, e) = Ahead(s, i, e)
      BY <1>1, <1>2, <1>3, AheadLess
    <3>10. PICK y \in Nat, z \in Nat : y = Ahead(s, i, e) /\ z = Ahead(s, k, e) /\ u + z = y
      BY <2>3, <3>9
    <3>. QED
      BY <2>1, <3>7, <3>8, <3>10
  <2>7. exact /\ v <= e.end => c = u
    BY <2>5, <2>6
  <2>8. c # 0 => e.start <= v
    BY <2>4 DEF ActiveAt
  <2>. QED
    BY <2>1, <2>3, <2>5, <2>7, <2>8
<1>. QED
  BY <1>3, <1>6 DEF Takes

\* A jump along the list takes all that last.
LEMMA ListTakes ==
  ASSUME NEW s \in Seq(Event), NEW i \in 1..(Len(s) + 1), NEW v \in Int, NEW k, k = NextFrom(s, i, v), NEW exact
  PROVE  Takes(s, i, k, v, ListWrites(s, i, v), exact)
<1>1. k \in i..(Len(s) + 1) /\ \A c \in i..(k - 1) : s[c].start <= v
  BY ListFinds
<1>2. ListWrites(s, i, v) \in Seq(Event)
  BY ListFinds
<1>3. ASSUME NEW e \in Event
      PROVE  /\ Occurrences(ListWrites(s, i, v), e) # 0 => e.start <= v
             /\ Occurrences(ListWrites(s, i, v), e) <= Amid(s, i, k - 1, e)
             /\ exact /\ v <= e.end => Occurrences(ListWrites(s, i, v), e) = Amid(s, i, k - 1, e)
  <2>1. Occurrences(ListWrites(s, i, v), e) = IF v <= e.end THEN Amid(s, i, k - 1, e) ELSE 0
    BY ListCounts
  <2>2. Amid(s, i, k - 1, e) \in Nat /\ (Amid(s, i, k - 1, e) = 0 <=> \A c \in i..(k - 1) : s[c] # e)
    BY <1>1, AmongUp
  <2>3. ASSUME Occurrences(ListWrites(s, i, v), e) # 0 PROVE e.start <= v
    <3>1. PICK c \in i..(k - 1) : s[c] = e
      BY <2>1, <2>2, <2>3
    <3>. QED
      BY <1>1, <3>1
  <2>. QED
    BY <2>1, <2>2, <2>3
<1>. QED
  BY <1>2, <1>3 DEF Takes

---------------------------------------------------------------------------------
(* The states of the skipping join. *)

\* A place: a helper whose memory misleads no later stab, and which scans where it is told to.
InPlace(f, h, way) == Knows(f, h, Passed(f, h.it)) /\ (way = "list" => h.policy = "list")

\* The two places together, and the count of what is written.
Turns(side, other, s, t, i, j, out, exact) ==
  Together(side, s, t, i, j) /\ Together(other, t, s, j, i) /\ Counts(side, s, t, i, j, out, exact)

\* Two sides, of which it is the turn of one.
Opposite(side, other) == (side = "left" /\ other = "right") \/ (side = "right" /\ other = "left")

\* From either side.
LEMMA TurnsTurned ==
  ASSUME NEW side, NEW other, Opposite(side, other), NEW s \in Seq(Event), NEW t \in Seq(Event),
         NEW i \in 1..(Len(s) + 1), NEW j \in 1..(Len(t) + 1), NEW out, NEW exact,
         Turns(side, other, s, t, i, j, out, exact)
  PROVE  Turns(other, side, t, s, j, i, out, exact)
<1>1. Counts(other, t, s, j, i, out, exact)
  <2>1. Counts(side, s, t, i, j, out, exact)
    BY DEF Turns
  <2>. QED
    BY <2>1, CountsTurned DEF Opposite
<1>. QED
  BY <1>1 DEF Turns

\* It is the turn of a side, s its list and t the other.
TurnOf(side, other, f, s, t, h, way, j, out, exact) ==
  /\ Opposite(side, other) /\ ContentInv(f) /\ f.events = s /\ t \in Seq(Event) /\ Ordered(t)
  /\ InPlace(f, h, way) /\ h.it <= Len(s) /\ j \in 1..Len(t) /\ First(side, s[h.it], t[j])
  /\ Turns(side, other, s, t, h.it, j, out, exact)

\* A step of one side.
LEMMA StepTurns ==
  ASSUME NEW side, NEW other, NEW f, NEW s, NEW t, NEW h, NEW way, NEW j, NEW out, NEW exact,
         TurnOf(side, other, f, s, t, h, way, j, out, exact), t[j].start <= s[h.it].end,
         NEW g, g = ItAt(h, h.it + 1), NEW new, new = FlattenSeq(Rows(side, <<s[h.it]>>, t, j))
  PROVE  InPlace(f, g, way) /\ Turns(side, other, s, t, g.it, j, out \o new, exact)
<1>0. /\ Opposite(side, other) /\ ContentInv(f) /\ f.events = s /\ t \in Seq(Event) /\ Ordered(t)
      /\ InPlace(f, h, way) /\ h.it <= Len(s) /\ j \in 1..Len(t) /\ First(side, s[h.it], t[j])
      /\ Turns(side, other, s, t, h.it, j, out, exact)
  BY DEF TurnOf
<1>1. s \in Seq(Event) /\ Ordered(s) /\ Len(s) \in Nat
  BY <1>0, FitsTyped
<1>2. PICK i : i = h.it
  OBVIOUS
<1>3. h \in Helpers(f) /\ i \in 1..Len(s) /\ i \in 1..(Len(s) + 1)
  <2>1. h \in Helpers(f) /\ i \in 1..(Len(s) + 1)
    BY <1>0, <1>2 DEF InPlace, Knows, Helpers
  <2>. QED
    BY <1>0, <1>1, <1>2, <2>1
<1>4. PICK k \in i..(Len(s) + 1) : k = i + 1
  BY <1>0, <1>1, <1>3
<1>5. Knows(f, g, Passed(f, g.it))
  BY <1>0, StepKnows DEF InPlace
<1>6. g.it = k /\ g.policy = h.policy
  BY <1>0, <1>2, <1>3, <1>4 DEF Helpers, ItAt
<1>7. s[i].start <= t[j].start
  <2>1. s[i].start \in Int /\ t[j].start \in Int
    <3>1. s[i] \in Event /\ t[j] \in Event
      BY <1>0, <1>1, <1>3, InList
    <3>. QED
      BY <1>0, <3>1, EventTimes
  <2>. QED
    BY <1>0, <1>2, <2>1 DEF First
<1>8. Takes(s, i, k, t[j].start, <<s[i]>>, exact)
  BY <1>0, <1>1, <1>3, <1>4, <1>7, StepTakes
<1>9. Counts(side, s, t, k, j, out \o new, exact)
  <2>1. Counts(side, s, t, i, j, out, exact) /\ new = FlattenSeq(Rows(side, <<s[i]>>, t, j))
    BY <1>0, <1>2 DEF Turns
  <2>2. PICK es : es = <<s[i]>>
    OBVIOUS
  <2>. QED
    BY <1>0, <1>1, <1>3, <1>4, <1>8, <2>1, <2>2, TurnCounts
<1>10. Together(side, s, t, k, j)
  BY <1>0, <1>1, <1>2, <1>3, <1>4, StepTogether
<1>11. Together(other, t, s, j, k)
  <2>1. Together(other, t, s, j, i) /\ First(side, s[i], t[j])
    BY <1>0, <1>2 DEF Turns
  <2>. QED
    BY <1>0, <1>1, <1>3, <2>1, OtherTogether DEF Opposite
<1>. QED
  BY <1>0, <1>5, <1>6, <1>9, <1>10, <1>11 DEF InPlace, Turns

\* A jump of one side.
LEMMA JumpTurns ==
  ASSUME NEW side, NEW other, NEW f, NEW s, NEW t, NEW h, NEW way, NEW j, NEW out, NEW exact,
         TurnOf(side, other, f, s, t, h, way, j, out, exact), ~(t[j].start <= s[h.it].end),
         exact => way = "list" \/ DistinctStarts(s),
         NEW g, g = StabForwardOp(f, h, t[j].start), NEW new, new = FlattenSeq(Rows(side, g.out, t, j))
  PROVE  /\ InPlace(f, g, way) /\ h.it <= g.it /\ g.it <= Len(s) + 1
         /\ Turns(side, other, s, t, g.it, j, out \o new, exact)
<1>0. /\ Opposite(side, other) /\ ContentInv(f) /\ f.events = s /\ t \in Seq(Event) /\ Ordered(t)
      /\ InPlace(f, h, way) /\ h.it <= Len(s) /\ j \in 1..Len(t) /\ First(side, s[h.it], t[j])
      /\ Turns(side, other, s, t, h.it, j, out, exact)
  BY DEF TurnOf
<1>1. s \in Seq(Event) /\ Ordered(s) /\ Len(s) \in Nat
  BY <1>0, FitsTyped
<1>2. PICK i : i = h.it
  OBVIOUS
<1>3. h \in Helpers(f) /\ i \in 1..Len(s) /\ i \in 1..(Len(s) + 1)
  <2>1. h \in Helpers(f) /\ i \in 1..(Len(s) + 1)
    BY <1>0, <1>2 DEF InPlace, Knows, Helpers
  <2>. QED
    BY <1>0, <1>1, <1>2, <2>1
<1>4. PICK v : v = t[j].start
  OBVIOUS
<1>5. v \in Int /\ s[i].end \in Int /\ s[i].end < v
  <2>1. s[i] \in Event /\ t[j] \in Event
    BY <1>0, <1>1, <1>3, InList
  <2>2. v \in Int /\ s[i].end \in Int
    BY <1>0, <1>4, <2>1, EventTimes
  <2>. QED
    BY <1>0, <1>2, <1>4, <2>2
<1>6. Together(side, s, t, i, j) /\ Together(other, t, s, j, i) /\ Counts(side, s, t, i, j, out, exact)
  BY <1>0, <1>2 DEF Turns
<1>7. MayAsk(f, i, h.policy, v)
  BY <1>0, <1>1, <1>2, <1>3, <1>4, <1>6, JumpAsked
<1>8. PICK x : x = Passed(f, i)
  OBVIOUS
<1>9. Knows(f, h, x)
  BY <1>0, <1>2, <1>8 DEF InPlace
<1>10. PICK k : k = g.it
  OBVIOUS
<1>11. Knows(f, g, Passed(f, g.it)) /\ k = StartsAfter(s, v) /\ Right(f, g.out, i, v)
  BY <1>0, <1>2, <1>4, <1>7, <1>8, <1>9, <1>10, StabAhead
<1>12. PICK es : es = g.out
  OBVIOUS
<1>13. es \in Seq(Event)
  BY <1>0, <1>11, <1>12 DEF Knows, Helpers
<1>14. /\ k \in i..(Len(s) + 1) /\ \A c \in 1..Len(s) : s[c].start <= v <=> c < k
       /\ exact /\ ~(way = "list") => Takes(s, i, k, v, es, exact)
  <2>1. PICK sure : sure = (exact /\ ~(way = "list"))
    OBVIOUS
  <2>2. sure => DistinctStarts(s)
    BY <1>0, <2>1
  <2>3. Right(f, es, i, v)
    BY <1>0, <1>11, <1>12
  <2>4. /\ k \in i..(Len(s) + 1) /\ \A c \in 1..Len(s) : s[c].start <= v <=> c < k
        /\ Takes(s, i, k, v, es, sure)
    BY <1>0, <1>3, <1>5, <1>7, <1>11, <1>13, <2>2, <2>3, JumpTakes
  <2>. QED
    BY <1>0, <2>1, <2>4 DEF Takes
<1>15. Takes(s, i, k, v, es, FALSE)
  <2>1. Right(f, es, i, v)
    BY <1>0, <1>11, <1>12
  <2>. QED
    BY <1>0, <1>3, <1>5, <1>7, <1>11, <1>13, <2>1, JumpTakes
<1>16. way = "list" => g.policy = "list" /\ Takes(s, i, k, v, es, exact)
  <2>. SUFFICES ASSUME way = "list" PROVE g.policy = "list" /\ Takes(s, i, k, v, es, exact)
    OBVIOUS
  <2>1. h.policy = "list"
    BY <1>0 DEF InPlace
  <2>2. PICK h2 : h2 = Fresh(h)
    OBVIOUS
  <2>3. h2 \in Helpers(f) /\ h2.out = <<>> /\ h2.it = i /\ h2.policy = "list"
    BY <1>0, <1>2, <1>3, <2>1, <2>2, FreshHelper
  <2>4. g = ListStabForward(f, h2, v)
    BY <1>0, <1>4, <2>1, <2>2, <2>3 DEF StabForwardOp, Fresh
  <2>5. PICK m, w : m = NextFrom(s, i, v) /\ w = ListWrites(s, i, v)
    OBVIOUS
  <2>6. m \in i..(Len(s) + 1) /\ w \in Seq(Event)
    BY <1>0, <1>1, <1>3, <1>5, <2>5, ListFinds
  <2>7. m \in 1..(Len(f.events) + 1)
    BY <1>0, <1>1, <1>3, <2>6
  <2>8. g.it = m /\ g.policy = h2.policy /\ g.out = w
    BY <1>0, <2>3, <2>4, <2>5, <2>6, <2>7, ListWritten
  <2>9. Takes(s, i, m, v, w, exact)
    BY <1>0, <1>1, <1>3, <1>5, <2>5, ListTakes
  <2>. QED
    BY <1>0, <1>10, <1>12, <2>3, <2>8, <2>9
<1>17. Takes(s, i, k, v, es, exact)
  <2>1. CASE way = "list"
    BY <1>0, <1>16, <2>1
  <2>2. CASE way # "list" /\ exact
    BY <1>0, <1>14, <2>2
  <2>3. CASE ~exact
    BY <1>0, <1>15, <2>3 DEF Takes
  <2>. QED
    BY <1>0, <2>1, <2>2, <2>3
<1>18. Counts(side, s, t, k, j, out \o new, exact)
  <2>1. new = FlattenSeq(Rows(side, es, t, j))
    BY <1>0, <1>12
  <2>2. Takes(s, i, k, t[j].start, es, exact)
    BY <1>0, <1>4, <1>17
  <2>. QED
    BY <1>0, <1>1, <1>3, <1>6, <1>14, <2>1, <2>2, TurnCounts
<1>19. i \in Int /\ k \in 1..(Len(s) + 1) /\ i <= k /\ k <= Len(s) + 1
  BY <1>0, <1>1, <1>3, <1>14
<1>20. Together(side, s, t, k, j)
  BY <1>0, <1>1, <1>5, <1>14, <1>19, JumpTogether
<1>21. Together(other, t, s, j, k)
  BY <1>0, <1>1, <1>2, <1>3, <1>6, OtherTogether DEF Opposite
<1>. QED
  BY <1>0, <1>2, <1>10, <1>11, <1>16, <1>18, <1>19, <1>20, <1>21 DEF InPlace, Turns

\* What every state of the skipping join is in.
SkipInv ==
  /\ left \in Lists /\ right \in Lists
  /\ InPlace(ForestTable[left], lit, policy_l) /\ InPlace(ForestTable[right], rit, policy_r)
  /\ Turns("left", "right", left, right, lit.it, rit.it, pairs, Lossless)

\* At the start all is ahead, ...
LEMMA AheadAll ==
  ASSUME NEW s \in Seq(Event), NEW e
  PROVE  Ahead(s, 1, e) = Occurrences(s, e) /\ Ahead(s, 1, e) \in Nat
<1>1. Among(s, 0, e) = 0 /\ Among(s, Len(s), e) = Occurrences(s, e)
  BY AmongEnds
<1>2. 1 \in 1..(Len(s) + 1) /\ Len(s) \in 0..Len(s) /\ 1 - 1 = 0
  OBVIOUS
<1>3. Amid(s, 1, Len(s), e) \in Nat /\ Among(s, Len(s), e) = Among(s, 1 - 1, e) + Amid(s, 1, Len(s), e)
  <2>1. 1 \in 1..(Len(s) + 1) /\ Len(s) \in 0..Len(s)
    BY <1>2
  <2>. QED
    BY <2>1, AmongFrom
<1>. QED
  BY <1>1, <1>2, <1>3 DEF Ahead

\* ... and nothing written.
LEMMA SkipStarts == SkipInit => SkipInv
<1>. SUFFICES ASSUME SkipInit PROVE SkipInv
  OBVIOUS
<1>1. /\ left \in Lists /\ right \in Lists /\ policy_l \in Policies /\ policy_r \in Policies
      /\ lit = NewHelper(ForestTable[left], policy_l) /\ rit = NewHelper(ForestTable[right], policy_r)
      /\ pairs = <<>>
  BY DEF SkipInit
<1>2. ASSUME NEW s \in Lists, NEW way \in Policies, NEW h, h = NewHelper(ForestTable[s], way)
      PROVE  InPlace(ForestTable[s], h, way) /\ h.it = 1
  <2>1. PICK f : f = ForestTable[s]
    OBVIOUS
  <2>2. f.events \in Seq(Event)
    BY <2>1, TableFits
  <2>3. Knows(f, h, Passed(f, h.it))
    BY <1>2, <2>1, <2>2, NewKnows
  <2>4. h.it = 1 /\ h.policy = way
    BY <1>2 DEF NewHelper
  <2>. QED
    BY <2>1, <2>3, <2>4 DEF InPlace
<1>3. /\ InPlace(ForestTable[left], lit, policy_l) /\ lit.it = 1
      /\ InPlace(ForestTable[right], rit, policy_r) /\ rit.it = 1
  BY <1>1, <1>2
<1>4. left \in Seq(Event) /\ right \in Seq(Event)
  BY <1>1, TableFits
<1>5. ASSUME NEW a \in Event, NEW b \in Event, NEW exact
      PROVE  /\ Fits(Occurrences(<<>>, PairOf("left", a, b)), Ahead(left, 1, a) * Ahead(right, 1, b),
                     Occurrences(left, a) * Occurrences(right, b), exact)
             /\ Occurrences(<<>>, PairOf("left", a, b)) = 0
  <2>1. Occurrences(<<>>, PairOf("left", a, b)) = 0
    BY OccFew
  <2>2. PICK x \in Nat, y \in Nat : /\ x = Ahead(left, 1, a) /\ x = Occurrences(left, a)
                                    /\ y = Ahead(right, 1, b) /\ y = Occurrences(right, b)
    BY <1>4, AheadAll
  <2>3. PICK z \in Nat : z = x * y
    OBVIOUS
  <2>4. Fits(0, z, z, exact)
    BY DEF Fits
  <2>. QED
    BY <2>1, <2>2, <2>3, <2>4
<1>6. <<>> \in Seq(Event \X Event)
  OBVIOUS
<1>7. Counts("left", left, right, 1, 1, <<>>, Lossless)
  BY <1>5, <1>6 DEF Counts
<1>8. Together("left", left, right, 1, 1) /\ Together("right", right, left, 1, 1)
  BY DEF Together, Shares
<1>. QED
  BY <1>1, <1>3, <1>7, <1>8 DEF SkipInv, Turns

\* What the invariant says of the two lists and places.
LEMMA SkipLists ==
  ASSUME SkipInv
  PROVE  /\ left \in Seq(Event) /\ Ordered(left) /\ right \in Seq(Event) /\ Ordered(right)
         /\ ContentInv(ForestTable[left]) /\ ForestTable[left].events = left
         /\ ContentInv(ForestTable[right]) /\ ForestTable[right].events = right
         /\ lit.it \in 1..(Len(left) + 1) /\ rit.it \in 1..(Len(right) + 1)
<1>1. /\ left \in Seq(Event) /\ Ordered(left) /\ right \in Seq(Event) /\ Ordered(right)
      /\ ContentInv(ForestTable[left]) /\ ForestTable[left].events = left
      /\ ContentInv(ForestTable[right]) /\ ForestTable[right].events = right
  BY TableFits DEF SkipInv
<1>2. lit.it \in 1..(Len(left) + 1)
  BY <1>1, KnowsSome DEF SkipInv, InPlace
<1>3. rit.it \in 1..(Len(right) + 1)
  BY <1>1, KnowsSome DEF SkipInv, InPlace
<1>. QED
  BY <1>1, <1>2, <1>3

\* What the two sides write.
LEMMA JoinedRows ==
  ASSUME NEW es
  PROVE  /\ JoinedLeft(es) = FlattenSeq(Rows("left", es, right, rit.it))
         /\ JoinedRight(es) = FlattenSeq(Rows("right", es, left, lit.it))
BY DEF JoinedLeft, JoinedRight, Rows

\* Whose turn it is.
LEMMA SkipTurns ==
  ASSUME SkipInv, Skipping
  PROVE  /\ lit.it \in 1..Len(left) /\ rit.it \in 1..Len(right)
         /\ LeftFirst(lit.it, rit.it) <=> First("left", L, R)
         /\ ~LeftFirst(lit.it, rit.it) <=> First("right", R, L)
<1>1. /\ left \in Seq(Event) /\ right \in Seq(Event)
      /\ lit.it \in 1..(Len(left) + 1) /\ rit.it \in 1..(Len(right) + 1)
  BY SkipLists
<1>2. lit.it \in 1..Len(left) /\ rit.it \in 1..Len(right)
  BY <1>1 DEF Skipping, Running
<1>3. L \in Event /\ R \in Event
  BY <1>1, <1>2 DEF L, R
<1>4. L.start \in Int /\ R.start \in Int
  BY <1>3, EventTimes
<1>5. LeftFirst(lit.it, rit.it) <=> L.start <= R.start
  BY DEF LeftFirst, L, R
<1>. QED
  BY <1>2, <1>4, <1>5 DEF First

\* A step of the left side keeps it so.
LEMMA StepLeftStays ==
  ASSUME SkipInv, StepLeft
  PROVE  SkipInv' /\ UNCHANGED <<left, right, policy_l, policy_r>>
         /\ lit.it <= lit'.it /\ rit.it <= rit'.it
<1>1. /\ Skipping /\ First("left", L, R) /\ (R.start <= L.end)
      /\ lit' = ItAt(lit, lit.it + 1) /\ pairs' = pairs \o JoinedLeft(<<L>>) /\ rit' = rit
      /\ left' = left /\ right' = right /\ policy_l' = policy_l /\ policy_r' = policy_r
  BY SkipTurns DEF StepLeft, Reaches, policies, ItAt
<1>2. /\ left \in Seq(Event) /\ Ordered(left) /\ right \in Seq(Event) /\ Ordered(right)
      /\ ContentInv(ForestTable[left]) /\ ForestTable[left].events = left
      /\ ContentInv(ForestTable[right]) /\ ForestTable[right].events = right
  BY SkipLists
<1>3. lit.it \in 1..Len(left) /\ rit.it \in 1..Len(right)
  BY <1>1, SkipTurns
<1>4. PICK f, g, i, j : f = ForestTable[left] /\ g = lit' /\ i = lit.it /\ j = rit.it
  OBVIOUS
<1>5. /\ i \in 1..Len(left) /\ j \in 1..Len(right) /\ i <= Len(left)
      /\ i \in 1..(Len(left) + 1) /\ j \in 1..(Len(right) + 1)
  BY <1>2, <1>3, <1>4
<1>6. L = left[i] /\ R = right[j]
  BY <1>4 DEF L, R
<1>7. PICK new : new = FlattenSeq(Rows("left", <<left[lit.it]>>, right, j))
  OBVIOUS
<1>8. pairs' = pairs \o new
  BY <1>1, <1>4, <1>6, <1>7, JoinedRows
<1>9. InPlace(f, lit, policy_l) /\ InPlace(ForestTable[right], rit, policy_r)
  BY <1>4 DEF SkipInv
<1>10. Opposite("left", "right") /\ Opposite("right", "left")
  BY DEF Opposite
<1>11. PICK exact : exact = Lossless
  OBVIOUS
<1>12. Turns("left", "right", left, right, i, j, pairs, exact)
  BY <1>4, <1>11 DEF SkipInv
<1>13. g = ItAt(lit, lit.it + 1) /\ f.events = left /\ ContentInv(f)
  BY <1>1, <1>2, <1>4
<1>14. InPlace(f, g, policy_l) /\ Turns("left", "right", left, right, g.it, j, pairs \o new, exact)
  <2>1. Turns("left", "right", left, right, lit.it, j, pairs, exact) /\ lit.it <= Len(left)
    BY <1>4, <1>5, <1>12
  <2>2. First("left", left[lit.it], right[j]) /\ right[j].start <= left[lit.it].end
    BY <1>1, <1>4, <1>6
  <2>. QED
    <3>1. TurnOf("left", "right", f, left, right, lit, policy_l, j, pairs, exact)
      BY <1>2, <1>5, <1>9, <1>10, <1>13, <2>1, <2>2 DEF TurnOf
    <3>. QED
      BY <1>7, <1>13, <2>2, <3>1, StepTurns
<1>15. g.it = i + 1
  <2>1. lit \in Helpers(f)
    BY <1>9 DEF InPlace, Knows
  <2>. QED
    BY <1>4, <1>13, <2>1 DEF Helpers, ItAt
<1>16. i <= g.it /\ g.it \in 1..(Len(left) + 1)
  BY <1>2, <1>5, <1>15
<1>17. Turns("left", "right", left, right, lit'.it, rit'.it, pairs', exact)
  BY <1>1, <1>4, <1>8, <1>14
<1>18. Lossless' <=> Lossless
  BY <1>1 DEF Lossless, DistinctStarts
<1>19. rit.it <= rit'.it /\ lit.it <= lit'.it
  BY <1>1, <1>4, <1>5, <1>16
<1>20. Turns("left", "right", left, right, lit'.it, rit'.it, pairs', Lossless')
  BY <1>11, <1>17, <1>18 DEF Turns, Counts, Fits
<1>21. InPlace(ForestTable[left], lit', policy_l) /\ InPlace(ForestTable[right], rit', policy_r)
  BY <1>1, <1>4, <1>9, <1>14
<1>22. left \in Lists /\ right \in Lists
  BY DEF SkipInv
<1>. QED
  BY <1>1, <1>19, <1>20, <1>21, <1>22 DEF SkipInv

\* A jump of the left side keeps it so.
LEMMA JumpLeftStays ==
  ASSUME SkipInv, JumpLeft
  PROVE  SkipInv' /\ UNCHANGED <<left, right, policy_l, policy_r>>
         /\ lit.it <= lit'.it /\ rit.it <= rit'.it
<1>1. /\ Skipping /\ First("left", L, R) /\ ~(R.start <= L.end)
      /\ lit' = StabForwardOp(ForestTable[left], lit, R.start) /\ pairs' = pairs \o JoinedLeft(lit'.out) /\ rit' = rit
      /\ left' = left /\ right' = right /\ policy_l' = policy_l /\ policy_r' = policy_r
  BY SkipTurns DEF JumpLeft, Reaches, policies
<1>2. /\ left \in Seq(Event) /\ Ordered(left) /\ right \in Seq(Event) /\ Ordered(right)
      /\ ContentInv(ForestTable[left]) /\ ForestTable[left].events = left
      /\ ContentInv(ForestTable[right]) /\ ForestTable[right].events = right
  BY SkipLists
<1>3. lit.it \in 1..Len(left) /\ rit.it \in 1..Len(right)
  BY <1>1, SkipTurns
<1>4. PICK f, g, i, j : f = ForestTable[left] /\ g = lit' /\ i = lit.it /\ j = rit.it
  OBVIOUS
<1>5. /\ i \in 1..Len(left) /\ j \in 1..Len(right) /\ i <= Len(left)
      /\ i \in 1..(Len(left) + 1) /\ j \in 1..(Len(right) + 1)
  BY <1>2, <1>3, <1>4
<1>6. L = left[i] /\ R = right[j]
  BY <1>4 DEF L, R
<1>7. PICK new : new = FlattenSeq(Rows("left", g.out, right, j))
  OBVIOUS
<1>8. pairs' = pairs \o new
  BY <1>1, <1>4, <1>6, <1>7, JoinedRows
<1>9. InPlace(f, lit, policy_l) /\ InPlace(ForestTable[right], rit, policy_r)
  BY <1>4 DEF SkipInv
<1>10. Opposite("left", "right") /\ Opposite("right", "left")
  BY DEF Opposite
<1>11. PICK exact : exact = Lossless
  OBVIOUS
<1>12. Turns("left", "right", left, right, i, j, pairs, exact)
  BY <1>4, <1>11 DEF SkipInv
<1>13. g = StabForwardOp(f, lit, right[j].start) /\ f.events = left /\ ContentInv(f)
  BY <1>1, <1>2, <1>4, <1>6
<1>14. /\ InPlace(f, g, policy_l) /\ i <= g.it
       /\ Turns("left", "right", left, right, g.it, j, pairs \o new, exact)
  <2>1. Turns("left", "right", left, right, lit.it, j, pairs, exact) /\ lit.it <= Len(left)
    BY <1>4, <1>5, <1>12
  <2>2. First("left", left[lit.it], right[j]) /\ ~(right[j].start <= left[lit.it].end)
    BY <1>1, <1>4, <1>6
  <2>3. exact => policy_l = "list" \/ DistinctStarts(left)
    BY <1>11 DEF Lossless
  <2>4. /\ InPlace(f, g, policy_l) /\ lit.it <= g.it
        /\ Turns("left", "right", left, right, g.it, j, pairs \o new, exact)
    <3>1. TurnOf("left", "right", f, left, right, lit, policy_l, j, pairs, exact)
      BY <1>2, <1>5, <1>9, <1>10, <1>13, <2>1, <2>2 DEF TurnOf
    <3>. QED
      BY <1>7, <1>13, <2>2, <2>3, <3>1, JumpTurns
  <2>. QED
    BY <1>4, <2>4
<1>16. i <= g.it /\ g.it \in 1..(Len(left) + 1)
  BY <1>13, <1>14 DEF InPlace, Knows, Helpers
<1>17. Turns("left", "right", left, right, lit'.it, rit'.it, pairs', exact)
  BY <1>1, <1>4, <1>8, <1>14
<1>18. Lossless' <=> Lossless
  BY <1>1 DEF Lossless, DistinctStarts
<1>19. rit.it <= rit'.it /\ lit.it <= lit'.it
  BY <1>1, <1>4, <1>5, <1>16
<1>20. Turns("left", "right", left, right, lit'.it, rit'.it, pairs', Lossless')
  BY <1>11, <1>17, <1>18 DEF Turns, Counts, Fits
<1>21. InPlace(ForestTable[left], lit', policy_l) /\ InPlace(ForestTable[right], rit', policy_r)
  BY <1>1, <1>4, <1>9, <1>14
<1>22. left \in Lists /\ right \in Lists
  BY DEF SkipInv
<1>. QED
  BY <1>1, <1>19, <1>20, <1>21, <1>22 DEF SkipInv

\* A step of the right side keeps it so.
LEMMA StepRightStays ==
  ASSUME SkipInv, StepRight
  PROVE  SkipInv' /\ UNCHANGED <<left, right, policy_l, policy_r>>
         /\ lit.it <= lit'.it /\ rit.it <= rit'.it
<1>1. /\ Skipping /\ First("right", R, L) /\ (L.start <= R.end)
      /\ rit' = ItAt(rit, rit.it + 1) /\ pairs' = pairs \o JoinedRight(<<R>>) /\ lit' = lit
      /\ left' = left /\ right' = right /\ policy_l' = policy_l /\ policy_r' = policy_r
  BY SkipTurns DEF StepRight, Reaches, policies, ItAt
<1>2. /\ left \in Seq(Event) /\ Ordered(left) /\ right \in Seq(Event) /\ Ordered(right)
      /\ ContentInv(ForestTable[left]) /\ ForestTable[left].events = left
      /\ ContentInv(ForestTable[right]) /\ ForestTable[right].events = right
  BY SkipLists
<1>3. lit.it \in 1..Len(left) /\ rit.it \in 1..Len(right)
  BY <1>1, SkipTurns
<1>4. PICK f, g, i, j : f = ForestTable[right] /\ g = rit' /\ i = rit.it /\ j = lit.it
  OBVIOUS
<1>5. /\ i \in 1..Len(right) /\ j \in 1..Len(left) /\ i <= Len(right)
      /\ i \in 1..(Len(right) + 1) /\ j \in 1..(Len(left) + 1)
  BY <1>2, <1>3, <1>4
<1>6. R = right[i] /\ L = left[j]
  BY <1>4 DEF L, R
<1>7. PICK new : new = FlattenSeq(Rows("right", <<right[rit.it]>>, left, j))
  OBVIOUS
<1>8. pairs' = pairs \o new
  BY <1>1, <1>4, <1>6, <1>7, JoinedRows
<1>9. InPlace(f, rit, policy_r) /\ InPlace(ForestTable[left], lit, policy_l)
  BY <1>4 DEF SkipInv
<1>10. Opposite("right", "left") /\ Opposite("left", "right")
  BY DEF Opposite
<1>11. PICK exact : exact = Lossless
  OBVIOUS
<1>12. Turns("right", "left", right, left, i, j, pairs, exact)
  <2>1. Turns("left", "right", left, right, j, i, pairs, exact)
    BY <1>4, <1>11 DEF SkipInv
  <2>. QED
    BY <1>2, <1>5, <1>10, <2>1, TurnsTurned
<1>13. g = ItAt(rit, rit.it + 1) /\ f.events = right /\ ContentInv(f)
  BY <1>1, <1>2, <1>4
<1>14. InPlace(f, g, policy_r) /\ Turns("right", "left", right, left, g.it, j, pairs \o new, exact)
  <2>1. Turns("right", "left", right, left, rit.it, j, pairs, exact) /\ rit.it <= Len(right)
    BY <1>4, <1>5, <1>12
  <2>2. First("right", right[rit.it], left[j]) /\ left[j].start <= right[rit.it].end
    BY <1>1, <1>4, <1>6
  <2>. QED
    <3>1. TurnOf("right", "left", f, right, left, rit, policy_r, j, pairs, exact)
      BY <1>2, <1>5, <1>9, <1>10, <1>13, <2>1, <2>2 DEF TurnOf
    <3>. QED
      BY <1>7, <1>13, <2>2, <3>1, StepTurns
<1>15. g.it = i + 1
  <2>1. rit \in Helpers(f)
    BY <1>9 DEF InPlace, Knows
  <2>. QED
    BY <1>4, <1>13, <2>1 DEF Helpers, ItAt
<1>16. i <= g.it /\ g.it \in 1..(Len(right) + 1)
  BY <1>2, <1>5, <1>15
<1>17. Turns("left", "right", left, right, lit'.it, rit'.it, pairs', exact)
  <2>1. Turns("left", "right", left, right, j, g.it, pairs \o new, exact)
    BY <1>2, <1>5, <1>10, <1>14, <1>16, TurnsTurned
  <2>. QED
    BY <1>1, <1>4, <1>8, <2>1
<1>18. Lossless' <=> Lossless
  BY <1>1 DEF Lossless, DistinctStarts
<1>19. lit.it <= lit'.it /\ rit.it <= rit'.it
  BY <1>1, <1>4, <1>5, <1>16
<1>20. Turns("left", "right", left, right, lit'.it, rit'.it, pairs', Lossless')
  BY <1>11, <1>17, <1>18 DEF Turns, Counts, Fits
<1>21. InPlace(ForestTable[right], rit', policy_r) /\ InPlace(ForestTable[left], lit', policy_l)
  BY <1>1, <1>4, <1>9, <1>14
<1>22. left \in Lists /\ right \in Lists
  BY DEF SkipInv
<1>. QED
  BY <1>1, <1>19, <1>20, <1>21, <1>22 DEF SkipInv

\* A jump of the right side keeps it so.
LEMMA JumpRightStays ==
  ASSUME SkipInv, JumpRight
  PROVE  SkipInv' /\ UNCHANGED <<left, right, policy_l, policy_r>>
         /\ lit.it <= lit'.it /\ rit.it <= rit'.it
<1>1. /\ Skipping /\ First("right", R, L) /\ ~(L.start <= R.end)
      /\ rit' = StabForwardOp(ForestTable[right], rit, L.start) /\ pairs' = pairs \o JoinedRight(rit'.out) /\ lit' = lit
      /\ left' = left /\ right' = right /\ policy_l' = policy_l /\ policy_r' = policy_r
  BY SkipTurns DEF JumpRight, Reaches, policies
<1>2. /\ left \in Seq(Event) /\ Ordered(left) /\ right \in Seq(Event) /\ Ordered(right)
      /\ ContentInv(ForestTable[left]) /\ ForestTable[left].events = left
      /\ ContentInv(ForestTable[right]) /\ ForestTable[right].events = right
  BY SkipLists
<1>3. lit.it \in 1..Len(left) /\ rit.it \in 1..Len(right)
  BY <1>1, SkipTurns
<1>4. PICK f, g, i, j : f = ForestTable[right] /\ g = rit' /\ i = rit.it /\ j = lit.it
  OBVIOUS
<1>5. /\ i \in 1..Len(right) /\ j \in 1..Len(left) /\ i <= Len(right)
      /\ i \in 1..(Len(right) + 1) /\ j \in 1..(Len(left) + 1)
  BY <1>2, <1>3, <1>4
<1>6. R = right[i] /\ L = left[j]
  BY <1>4 DEF L, R
<1>7. PICK new : new = FlattenSeq(Rows("right", g.out, left, j))
  OBVIOUS
<1>8. pairs' = pairs \o new
  BY <1>1, <1>4, <1>6, <1>7, JoinedRows
<1>9. InPlace(f, rit, policy_r) /\ InPlace(ForestTable[left], lit, policy_l)
  BY <1>4 DEF SkipInv
<1>10. Opposite("right", "left") /\ Opposite("left", "right")
  BY DEF Opposite
<1>11. PICK exact : exact = Lossless
  OBVIOUS
<1>12. Turns("right", "left", right, left, i, j, pairs, exact)
  <2>1. Turns("left", "right", left, right, j, i, pairs, exact)
    BY <1>4, <1>11 DEF SkipInv
  <2>. QED
    BY <1>2, <1>5, <1>10, <2>1, TurnsTurned
<1>13. g = StabForwardOp(f, rit, left[j].start) /\ f.events = right /\ ContentInv(f)
  BY <1>1, <1>2, <1>4, <1>6
<1>14. /\ InPlace(f, g, policy_r) /\ i <= g.it
       /\ Turns("right", "left", right, left, g.it, j, pairs \o new, exact)
  <2>1. Turns("right", "left", right, left, rit.it, j, pairs, exact) /\ rit.it <= Len(right)
    BY <1>4, <1>5, <1>12
  <2>2. First("right", right[rit.it], left[j]) /\ ~(left[j].start <= right[rit.it].end)
    BY <1>1, <1>4, <1>6
  <2>3. exact => policy_r = "list" \/ DistinctStarts(right)
    BY <1>11 DEF Lossless
  <2>4. /\ InPlace(f, g, policy_r) /\ rit.it <= g.it
        /\ Turns("right", "left", right, left, g.it, j, pairs \o new, exact)
    <3>1. TurnOf("right", "left", f, right, left, rit, policy_r, j, pairs, exact)
      BY <1>2, <1>5, <1>9, <1>10, <1>13, <2>1, <2>2 DEF TurnOf
    <3>. QED
      BY <1>7, <1>13, <2>2, <2>3, <3>1, JumpTurns
  <2>. QED
    BY <1>4, <2>4
<1>16. i <= g.it /\ g.it \in 1..(Len(right) + 1)
  BY <1>13, <1>14 DEF InPlace, Knows, Helpers
<1>17. Turns("left", "right", left, right, lit'.it, rit'.it, pairs', exact)
  <2>1. Turns("left", "right", left, right, j, g.it, pairs \o new, exact)
    BY <1>2, <1>5, <1>10, <1>14, <1>16, TurnsTurned
  <2>. QED
    BY <1>1, <1>4, <1>8, <2>1
<1>18. Lossless' <=> Lossless
  BY <1>1 DEF Lossless, DistinctStarts
<1>19. lit.it <= lit'.it /\ rit.it <= rit'.it
  BY <1>1, <1>4, <1>5, <1>16
<1>20. Turns("left", "right", left, right, lit'.it, rit'.it, pairs', Lossless')
  BY <1>11, <1>17, <1>18 DEF Turns, Counts, Fits
<1>21. InPlace(ForestTable[right], rit', policy_r) /\ InPlace(ForestTable[left], lit', policy_l)
  BY <1>1, <1>4, <1>9, <1>14
<1>22. left \in Lists /\ right \in Lists
  BY DEF SkipInv
<1>. QED
  BY <1>1, <1>19, <1>20, <1>21, <1>22 DEF SkipInv

\* Each step keeps it so, and passes on.
LEMMA SkipStays ==
  ASSUME SkipInv, [SkipNext]_skipVars
  PROVE  SkipInv' /\ UNCHANGED <<left, right, policy_l, policy_r>> /\ lit.it <= lit'.it /\ rit.it <= rit'.it
<1>1. lit.it <= lit.it /\ rit.it <= rit.it
  BY SkipLists
<1>2. CASE UNCHANGED skipVars
  <2>1. /\ left' = left /\ right' = right /\ policy_l' = policy_l /\ policy_r' = policy_r
        /\ lit' = lit /\ rit' = rit /\ pairs' = pairs
    BY <1>2 DEF skipVars
  <2>2. Lossless' <=> Lossless
    BY <2>1 DEF Lossless, DistinctStarts
  <2>3. Turns("left", "right", left, right, lit.it, rit.it, pairs, Lossless)
    BY DEF SkipInv
  <2>4. Turns("left", "right", left, right, lit.it, rit.it, pairs, Lossless')
    BY <2>2, <2>3 DEF Turns, Counts, Fits
  <2>. QED
    BY <1>1, <2>1, <2>4 DEF SkipInv
<1>3. CASE SkipNext
  BY <1>3, StepLeftStays, JumpLeftStays, StepRightStays, JumpRightStays DEF SkipNext
<1>. QED
  BY <1>2, <1>3

---------------------------------------------------------------------------------
(* The bags of what is written and what is due. *)

\* The positions of an event from the i-th on.
PlacesAhead(s, i, e) == {n \in Places(s, e) : i <= n}

\* They are as many as the event is ahead.
LEMMA AheadPlaces ==
  ASSUME NEW s \in Seq(Event), NEW i \in 1..(Len(s) + 1), NEW e
  PROVE  /\ IsFiniteSet(Places(s, e)) /\ Occurrences(s, e) = Cardinality(Places(s, e))
         /\ IsFiniteSet(PlacesAhead(s, i, e)) /\ Ahead(s, i, e) = Cardinality(PlacesAhead(s, i, e))
         /\ PlacesAhead(s, i, e) \subseteq Places(s, e)
<1>1. PICK n \in Nat, m \in Nat : n = Len(s) /\ m = i - 1 /\ m \in 0..n /\ i = m + 1
  OBVIOUS
<1>2. IsFiniteSet(Places(s, e)) /\ Occurrences(s, e) = Cardinality(Places(s, e)) /\ Occurrences(s, e) \in Nat
  BY <1>1, OccNat
<1>3. PlacesAhead(s, i, e) \subseteq Places(s, e) /\ IsFiniteSet(PlacesAhead(s, i, e))
  <2>1. PlacesAhead(s, i, e) \subseteq Places(s, e)
    BY DEF PlacesAhead
  <2>. QED
    BY <1>2, <2>1, FS_Subset
<1>4. PICK t : t = SubSeq(s, 1, m)
  OBVIOUS
<1>5. t \in Seq(Event) /\ Len(t) = m /\ \A k \in 1..m : t[k] = s[k]
  <2>1. m \in 0..Len(s)
    BY <1>1
  <2>. QED
    BY <1>4, <2>1, TwoParts
<1>6. Places(t, e) = Places(s, e) \ PlacesAhead(s, i, e)
  <2>1. \A k \in 1..n : k \in 1..m <=> ~(i <= k)
    BY <1>1
  <2>2. \A k \in 1..m : k \in 1..n
    BY <1>1
  <2>. QED
    BY <1>1, <1>5, <2>1, <2>2 DEF Places, PlacesAhead
<1>7. Occurrences(t, e) = Cardinality(Places(t, e))
  <2>1. Len(t) \in Nat
    BY <1>1, <1>5
  <2>. QED
    BY <2>1, OccNat
<1>8. Cardinality(Places(t, e)) = Cardinality(Places(s, e)) - Cardinality(PlacesAhead(s, i, e))
  <2>1. Places(s, e) \cap PlacesAhead(s, i, e) = PlacesAhead(s, i, e)
    BY <1>3
  <2>. QED
    BY <1>2, <1>6, <2>1, FS_Difference
<1>9. Among(s, m, e) = Occurrences(t, e)
  BY <1>4 DEF Among
<1>10. PICK x, y, z, w : /\ x = Ahead(s, i, e) /\ y = Among(s, m, e) /\ z = Occurrences(s, e)
                         /\ w = Cardinality(PlacesAhead(s, i, e))
  OBVIOUS
<1>11. x \in Nat /\ y \in Nat /\ z = y + x
  <2>1. Len(s) \in 0..Len(s) /\ i \in 1..(Len(s) + 1)
    BY <1>1
  <2>2. /\ Amid(s, i, Len(s), e) \in Nat /\ Among(s, i - 1, e) \in Nat
        /\ Among(s, Len(s), e) = Among(s, i - 1, e) + Amid(s, i, Len(s), e)
    BY <2>1, AmongFrom
  <2>3. Among(s, Len(s), e) = Occurrences(s, e)
    BY AmongEnds
  <2>. QED
    BY <1>1, <1>10, <2>2, <2>3 DEF Ahead
<1>12. y = z - w /\ w \in Nat
  BY <1>2, <1>3, <1>7, <1>8, <1>9, <1>10, FS_CardinalityType
<1>13. x = w
  BY <1>11, <1>12
<1>. QED
  BY <1>2, <1>3, <1>10, <1>13

\* The places of a pair that has an event before i or before j, and how many they are.
DuePlaces(s, t, i, j, a, b) ==
  {p \in Places(s, a) \X Places(t, b) : ~(p \in PlacesAhead(s, i, a) \X PlacesAhead(t, j, b))}
DueTimes(s, t, i, j, a, b) == Cardinality(DuePlaces(s, t, i, j, a, b))

\* A pair is due as often as it is there, but for the times both its events are ahead.
LEMMA DueCounts ==
  ASSUME NEW s \in Seq(Event), NEW t \in Seq(Event), NEW i \in 1..(Len(s) + 1), NEW j \in 1..(Len(t) + 1),
         NEW a, NEW b
  PROVE  /\ IsFiniteSet(DuePlaces(s, t, i, j, a, b)) /\ DueTimes(s, t, i, j, a, b) \in Nat
         /\ DueTimes(s, t, i, j, a, b) + Ahead(s, i, a) * Ahead(t, j, b) = Occurrences(s, a) * Occurrences(t, b)
<1>1. PICK A, A2 : A = Places(s, a) /\ A2 = PlacesAhead(s, i, a)
  OBVIOUS
<1>2. PICK B, B2 : B = Places(t, b) /\ B2 = PlacesAhead(t, j, b)
  OBVIOUS
<1>3. /\ IsFiniteSet(A) /\ Occurrences(s, a) = Cardinality(A)
      /\ IsFiniteSet(A2) /\ Ahead(s, i, a) = Cardinality(A2) /\ A2 \subseteq A
  BY <1>1, AheadPlaces
<1>4. /\ IsFiniteSet(B) /\ Occurrences(t, b) = Cardinality(B)
      /\ IsFiniteSet(B2) /\ Ahead(t, j, b) = Cardinality(B2) /\ B2 \subseteq B
  BY <1>2, AheadPlaces
<1>5. IsFiniteSet(A \X B) /\ Cardinality(A \X B) = Cardinality(A) * Cardinality(B)
  BY <1>3, <1>4, FS_Product
<1>6. IsFiniteSet(A2 \X B2) /\ Cardinality(A2 \X B2) = Cardinality(A2) * Cardinality(B2)
  BY <1>3, <1>4, FS_Product
<1>7. (A \X B) \cap (A2 \X B2) = A2 \X B2
  BY <1>3, <1>4
<1>8. DuePlaces(s, t, i, j, a, b) = (A \X B) \ (A2 \X B2)
  BY <1>1, <1>2 DEF DuePlaces
<1>9. PICK D, P, Q : D = DuePlaces(s, t, i, j, a, b) /\ P = A \X B /\ Q = A2 \X B2
  OBVIOUS
<1>10. IsFiniteSet(D) /\ Cardinality(D) = Cardinality(P) - Cardinality(Q)
  <2>1. IsFiniteSet(P) /\ P \cap Q = Q /\ D = P \ Q
    BY <1>5, <1>7, <1>8, <1>9
  <2>2. IsFiniteSet(P \ Q) /\ Cardinality(P \ Q) = Cardinality(P) - Cardinality(P \cap Q)
    BY <2>1, FS_Difference
  <2>. QED
    BY <2>1, <2>2
<1>11. Cardinality(D) \in Nat /\ Cardinality(P) \in Nat /\ Cardinality(Q) \in Nat
  BY <1>5, <1>6, <1>9, <1>10, FS_CardinalityType
<1>12. Cardinality(D) + Cardinality(Q) = Cardinality(P)
  BY <1>10, <1>11
<1>. QED
  BY <1>3, <1>4, <1>5, <1>6, <1>9, <1>10, <1>11, <1>12 DEF DueTimes

\* The bag of a list of pairs.
LEMMA BagOfList ==
  ASSUME NEW out \in Seq(Event \X Event)
  PROVE  /\ DOMAIN ToBag(out) = {p \in Event \X Event : Occurrences(out, p) # 0}
         /\ ToBag(out) = [p \in DOMAIN ToBag(out) |-> ToBag(out)[p]]
         /\ \A p \in DOMAIN ToBag(out) : ToBag(out)[p] = Occurrences(out, p)
<1>1. DOMAIN out = 1..Len(out) /\ Len(out) \in Nat /\ \A i \in 1..Len(out) : out[i] \in Event \X Event
  OBVIOUS
<1>2. Range(out) = {p \in Event \X Event : Occurrences(out, p) # 0}
  <2>1. ASSUME NEW p PROVE p \in Range(out) <=> \E i \in 1..Len(out) : out[i] = p
    BY <1>1 DEF Range
  <2>2. ASSUME NEW p PROVE Occurrences(out, p) # 0 <=> \E i \in 1..Len(out) : out[i] = p
    BY <1>1, OccNat
  <2>. QED
    BY <1>1, <2>1, <2>2
<1>3. ToBag(out) = [p \in Range(out) |-> Occurrences(out, p)]
  BY <1>1 DEF ToBag, Occurrences
<1>. QED
  BY <1>2, <1>3

\* The bag of the pairs due.
LEMMA BagDue ==
  ASSUME NEW s \in Seq(Event), NEW t \in Seq(Event), NEW i \in 1..(Len(s) + 1), NEW j \in 1..(Len(t) + 1),
         NEW due, due = Due(s, t, i - 1, j - 1)
  PROVE  /\ due = [p \in DOMAIN due |-> due[p]]
         /\ \A a, b \in Event : /\ <<a, b>> \in DOMAIN due <=> Overlaps(a, b) /\ DueTimes(s, t, i, j, a, b) # 0
                                /\ <<a, b>> \in DOMAIN due => due[<<a, b>>] = DueTimes(s, t, i, j, a, b)
         /\ DOMAIN due \subseteq Event \X Event
<1>. DEFINE D == {p \in (DOMAIN s) \X (DOMAIN t) : Overlaps(s[p[1]], t[p[2]]) /\ (p[1] <= i - 1 \/ p[2] <= j - 1)}
            At(p) == <<s[p[1]], t[p[2]]>>
<1>1. due = [q \in {At(p) : p \in D} |-> Cardinality({p \in D : At(p) = q})]
  BY DEF Due, PairBag
<1>2. /\ DOMAIN s = 1..Len(s) /\ DOMAIN t = 1..Len(t)
      /\ \A k \in 1..Len(s) : s[k] \in Event /\ k \in Int /\ (k <= i - 1 <=> ~(i <= k))
      /\ \A k \in 1..Len(t) : t[k] \in Event /\ k \in Int /\ (k <= j - 1 <=> ~(j <= k))
  OBVIOUS
<1>3. ASSUME NEW a \in Event, NEW b \in Event
      PROVE  {p \in D : At(p) = <<a, b>>} = IF Overlaps(a, b) THEN DuePlaces(s, t, i, j, a, b) ELSE {}
  <2>1. ASSUME NEW k \in 1..Len(s), NEW l \in 1..Len(t), s[k] = a, t[l] = b
        PROVE  <<k, l>> \in D <=> Overlaps(a, b) /\ ~(i <= k /\ j <= l)
    BY <1>2, <2>1
  <2>2. ASSUME NEW p PROVE p \in D /\ At(p) = <<a, b>> <=> Overlaps(a, b) /\ p \in DuePlaces(s, t, i, j, a, b)
    <3>1. p \in D => \E k \in 1..Len(s), l \in 1..Len(t) : p = <<k, l>>
      BY <1>2
    <3>2. p \in DuePlaces(s, t, i, j, a, b) => \E k \in 1..Len(s), l \in 1..Len(t) : p = <<k, l>>
      BY DEF DuePlaces, Places
    <3>3. ASSUME NEW k \in 1..Len(s), NEW l \in 1..Len(t), p = <<k, l>>
          PROVE  p \in D /\ At(p) = <<a, b>> <=> Overlaps(a, b) /\ p \in DuePlaces(s, t, i, j, a, b)
      <4>1. At(p) = <<a, b>> <=> s[k] = a /\ t[l] = b
        BY <3>3
      <4>2. p \in DuePlaces(s, t, i, j, a, b) <=> s[k] = a /\ t[l] = b /\ ~(i <= k /\ j <= l)
        BY <3>3 DEF DuePlaces, Places, PlacesAhead
      <4>. HIDE DEF D, At
      <4>. QED
        BY <2>1, <3>3, <4>1, <4>2
    <3>. HIDE DEF D, At
    <3>. QED
      BY <3>1, <3>2, <3>3
  <2>. HIDE DEF D, At
  <2>. QED
    BY <2>2
<1>4. ASSUME NEW q \in DOMAIN due PROVE q \in Event \X Event
  <2>1. PICK p \in D : q = At(p)
    BY <1>1, <1>4
  <2>2. p[1] \in 1..Len(s) /\ p[2] \in 1..Len(t)
    BY <1>2, <2>1
  <2>. QED
    BY <1>2, <2>1, <2>2
<1>5. ASSUME NEW a \in Event, NEW b \in Event
      PROVE  /\ <<a, b>> \in DOMAIN due <=> Overlaps(a, b) /\ DueTimes(s, t, i, j, a, b) # 0
             /\ <<a, b>> \in DOMAIN due => due[<<a, b>>] = DueTimes(s, t, i, j, a, b)
  <2>1. PICK C : C = {p \in D : At(p) = <<a, b>>}
    OBVIOUS
  <2>. HIDE DEF D, At
  <2>2. <<a, b>> \in DOMAIN due <=> C # {}
    BY <1>1, <2>1
  <2>3. <<a, b>> \in DOMAIN due => due[<<a, b>>] = Cardinality(C)
    BY <1>1, <2>1
  <2>4. DuePlaces(s, t, i, j, a, b) # {} <=> DueTimes(s, t, i, j, a, b) # 0
    <3>1. IsFiniteSet(DuePlaces(s, t, i, j, a, b))
      BY DueCounts
    <3>. QED
      BY <3>1, FS_EmptySet DEF DueTimes
  <2>. QED
    BY <1>3, <2>1, <2>2, <2>3, <2>4 DEF DueTimes
<1>6. due = [p \in DOMAIN due |-> due[p]]
  <2>. HIDE DEF D, At
  <2>. QED
    BY <1>1
<1>. QED
  BY <1>4, <1>5, <1>6

\* What the count says of the two bags.
LEMMA CountedBags ==
  ASSUME NEW s \in Seq(Event), NEW t \in Seq(Event), NEW i \in 1..(Len(s) + 1), NEW j \in 1..(Len(t) + 1),
         NEW out, NEW exact, Counts("left", s, t, i, j, out, exact),
         NEW bag, bag = ToBag(out), NEW due, due = Due(s, t, i - 1, j - 1)
  PROVE  bag \sqsubseteq due /\ (exact => bag = due)
<1>1. out \in Seq(Event \X Event)
  BY DEF Counts
<1>2. /\ DOMAIN bag = {p \in Event \X Event : Occurrences(out, p) # 0}
      /\ bag = [p \in DOMAIN bag |-> bag[p]]
      /\ \A p \in DOMAIN bag : bag[p] = Occurrences(out, p)
  BY <1>1, BagOfList
<1>3. /\ due = [p \in DOMAIN due |-> due[p]]
      /\ \A a, b \in Event : /\ <<a, b>> \in DOMAIN due <=> Overlaps(a, b) /\ DueTimes(s, t, i, j, a, b) # 0
                             /\ <<a, b>> \in DOMAIN due => due[<<a, b>>] = DueTimes(s, t, i, j, a, b)
      /\ DOMAIN due \subseteq Event \X Event
  BY BagDue
<1>4. ASSUME NEW a \in Event, NEW b \in Event
      PROVE  /\ <<a, b>> \in DOMAIN bag => <<a, b>> \in DOMAIN due /\ bag[<<a, b>>] <= due[<<a, b>>]
             /\ exact => /\ <<a, b>> \in DOMAIN due => <<a, b>> \in DOMAIN bag
                         /\ <<a, b>> \in DOMAIN bag => bag[<<a, b>>] = due[<<a, b>>]
  <2>1. PICK n \in Nat : n = Occurrences(out, <<a, b>>)
    <3>1. Len(out) \in Nat
      BY <1>1
    <3>. QED
      BY <3>1, OccNat
  <2>2. PICK d \in Nat : d = DueTimes(s, t, i, j, a, b)
    BY DueCounts
  <2>3. PICK x \in Nat, all \in Nat :
          x = Ahead(s, i, a) * Ahead(t, j, b) /\ all = Occurrences(s, a) * Occurrences(t, b) /\ d + x = all
    <3>1. i \in i..(Len(s) + 1) /\ j \in j..(Len(t) + 1) /\ Len(s) \in Nat /\ Len(t) \in Nat
      OBVIOUS
    <3>2. Ahead(s, i, a) \in Nat /\ Ahead(t, j, b) \in Nat
      BY <3>1, AheadLess
    <3>3. Occurrences(s, a) \in Nat /\ Occurrences(t, b) \in Nat
      BY <3>1, OccNat
    <3>4. d + Ahead(s, i, a) * Ahead(t, j, b) = Occurrences(s, a) * Occurrences(t, b)
      BY <2>2, DueCounts
    <3>5. Ahead(s, i, a) * Ahead(t, j, b) \in Nat /\ Occurrences(s, a) * Occurrences(t, b) \in Nat
      BY <3>2, <3>3
    <3>. QED
      BY <3>4, <3>5
  <2>4. IF Overlaps(a, b) THEN Fits(n, x, all, exact) ELSE n = 0
    <3>1. PairOf("left", a, b) = <<a, b>>
      BY DEF PairOf
    <3>. QED
      BY <2>1, <2>3, <3>1 DEF Counts
  <2>5. (Overlaps(a, b) => n <= d /\ (exact => n = d)) /\ (~Overlaps(a, b) => n = 0)
    BY <2>3, <2>4 DEF Fits
  <2>6. /\ <<a, b>> \in DOMAIN bag <=> n # 0
        /\ <<a, b>> \in DOMAIN bag => bag[<<a, b>>] = n
    BY <1>2, <2>1
  <2>7. /\ <<a, b>> \in DOMAIN due <=> Overlaps(a, b) /\ d # 0
        /\ <<a, b>> \in DOMAIN due => due[<<a, b>>] = d
    BY <1>3, <2>2
  <2>. QED
    BY <2>5, <2>6, <2>7
<1>5. \A p \in DOMAIN bag : \E a, b \in Event : p = <<a, b>>
  BY <1>2
<1>6. \A p \in DOMAIN due : \E a, b \in Event : p = <<a, b>>
  BY <1>3
<1>7. bag \sqsubseteq due
  BY <1>4, <1>5 DEF \sqsubseteq
<1>8. ASSUME exact PROVE bag = due
  <2>1. \A p : p \in DOMAIN bag <=> p \in DOMAIN due
    BY <1>4, <1>5, <1>6, <1>8
  <2>2. DOMAIN bag = DOMAIN due
    BY <2>1
  <2>3. \A p \in DOMAIN bag : bag[p] = due[p]
    BY <1>4, <1>5, <1>8
  <2>4. PICK D : D = DOMAIN bag
    OBVIOUS
  <2>. QED
    BY <1>2, <1>3, <2>2, <2>3
<1>. QED
  BY <1>7, <1>8

\* What the invariant of the skipping join says of them.
LEMMA SkipBags ==
  ASSUME SkipInv
  PROVE  OnlyOverlaps /\ (Lossless => ToBag(pairs) = Due(left, right, lit.it - 1, rit.it - 1))
<1>1. /\ left \in Seq(Event) /\ right \in Seq(Event)
      /\ lit.it \in 1..(Len(left) + 1) /\ rit.it \in 1..(Len(right) + 1)
  BY SkipLists
<1>2. Counts("left", left, right, lit.it, rit.it, pairs, Lossless)
  BY DEF SkipInv, Turns
<1>3. PICK exact : exact = Lossless
  OBVIOUS
<1>4. PICK bag, due : bag = ToBag(pairs) /\ due = Due(left, right, lit.it - 1, rit.it - 1)
  OBVIOUS
<1>5. bag \sqsubseteq due /\ (exact => bag = due)
  BY <1>1, <1>2, <1>3, <1>4, CountedBags
<1>. QED
  BY <1>3, <1>4, <1>5 DEF OnlyOverlaps

\* And of a jump: it is from the first event of its start.
LEMMA SkipJumps ==
  ASSUME SkipInv
  PROVE  JumpAllowed
<1>1. /\ left \in Seq(Event) /\ right \in Seq(Event)
      /\ ContentInv(ForestTable[left]) /\ ForestTable[left].events = left
      /\ ContentInv(ForestTable[right]) /\ ForestTable[right].events = right
  BY SkipLists
<1>2. Together("left", left, right, lit.it, rit.it) /\ Together("right", right, left, rit.it, lit.it)
  BY DEF SkipInv, Turns
<1>3. ASSUME JumpLeft PROVE FirstOfStart(left, lit)
  <2>1. /\ lit.it \in 1..Len(left) /\ rit.it \in 1..Len(right)
        /\ First("left", L, R) /\ ~(R.start <= L.end)
    BY <1>3, SkipTurns DEF JumpLeft, Reaches
  <2>2. First("left", left[lit.it], right[rit.it]) /\ ~(right[rit.it].start <= left[lit.it].end)
    BY <2>1 DEF L, R
  <2>3. lit.it > 1 => left[lit.it - 1].start # left[lit.it].start
    BY <1>1, <1>2, <2>1, <2>2, JumpAsked
  <2>. QED
    BY <2>3 DEF FirstOfStart
<1>4. ASSUME JumpRight PROVE FirstOfStart(right, rit)
  <2>1. /\ lit.it \in 1..Len(left) /\ rit.it \in 1..Len(right)
        /\ First("right", R, L) /\ ~(L.start <= R.end)
    BY <1>4, SkipTurns DEF JumpRight, Reaches
  <2>2. First("right", right[rit.it], left[lit.it]) /\ ~(left[lit.it].start <= right[rit.it].end)
    BY <2>1 DEF L, R
  <2>3. rit.it > 1 => right[rit.it - 1].start # right[rit.it].start
    BY <1>1, <1>2, <2>1, <2>2, JumpAsked
  <2>. QED
    BY <2>3 DEF FirstOfStart
<1>. QED
  BY <1>3, <1>4 DEF JumpAllowed

\* For all ordered lists, whatever the policies, forward_skip_join (temporal_join.hpp:154-191)
\* writes no pair that does not overlap, and none more often than it is due.
THEOREM SkipWritesOnlyOverlaps == SkipSpec => []OnlyOverlaps
<1>1. SkipInv => OnlyOverlaps
  BY SkipBags
<1>. QED
  BY <1>1, SkipStarts, SkipStays, PTL DEF SkipSpec

\* When forward_skip_join returns, every overlapping pair is written where both sides scan or
\* no two events of a list start together: then it is the join its comment
\* (temporal_join.hpp:151) says it is.
THEOREM SkipCompletes == SkipSpec => [](Lossless => Complete)
<1>1. ASSUME SkipInv, Lossless, ~Skipping
      PROVE  ToBag(pairs) = Due(left, right, Len(left), Len(right))
  <2>1. ToBag(pairs) = Due(left, right, lit.it - 1, rit.it - 1)
    BY <1>1, SkipBags
  <2>2. /\ left \in Seq(Event) /\ right \in Seq(Event)
        /\ lit.it \in 1..(Len(left) + 1) /\ rit.it \in 1..(Len(right) + 1)
    BY <1>1, SkipLists
  <2>3. /\ DOMAIN left = 1..Len(left) /\ DOMAIN right = 1..Len(right)
        /\ Len(left) \in Nat /\ Len(right) \in Nat
    BY <2>2
  <2>4. ASSUME NEW p \in (DOMAIN left) \X (DOMAIN right)
        PROVE  (p[1] <= lit.it - 1 \/ p[2] <= rit.it - 1) <=> (p[1] <= Len(left) \/ p[2] <= Len(right))
    <3>1. PICK x, y, n, m : x = lit.it /\ y = rit.it /\ n = Len(left) /\ m = Len(right)
      OBVIOUS
    <3>2. /\ x \in 1..(n + 1) /\ y \in 1..(m + 1) /\ n \in Nat /\ m \in Nat
          /\ ~(x <= n /\ y <= m)
      BY <1>1, <2>2, <2>3, <3>1 DEF Skipping, Running
    <3>3. p[1] \in 1..n /\ p[2] \in 1..m
      BY <2>3, <3>1
    <3>4. PICK k, l : k = p[1] /\ l = p[2]
      OBVIOUS
    <3>5. (k <= x - 1 \/ l <= y - 1) /\ k <= n /\ l <= m
      BY <3>2, <3>3, <3>4
    <3>. QED
      BY <3>1, <3>4, <3>5
  <2>. QED
    BY <2>1, <2>4 DEF Due
<1>2. SkipInv => (Lossless => Complete)
  BY <1>1 DEF Complete
<1>. QED
  BY <1>2, SkipStarts, SkipStays, PTL DEF SkipSpec

---------------------------------------------------------------------------------
(* The measurements. *)

\* The invariant of forward_scan, while it is what is measured.
ScanningInv == measure = "forward_scan" => ScanInv

\* A measurement starts forward_scan as forward_scan starts, ...
LEMMA MeasuresInit ==
  ASSUME MInit
  PROVE  ScanningInv
<1>1. measure = "forward_scan" => ScanInit
  BY DEF MInit
<1> QED
  BY <1>1, ScanStarts DEF ScanningInv

\* ... stays with what it measures, in steps of it, ...
LEMMA MeasuresSteps ==
  ASSUME [MNext]_mvars
  PROVE  measure' = measure /\ (measure = "forward_scan" => [ScanNext]_joinVars)
BY DEF MNext, Measure_forward_scan, Measure_forward_skip_join, Measure_multi_window, mvars, joinVars

\* ... and so keeps its invariant.
LEMMA MeasuresStep ==
  ASSUME ScanningInv, [MNext]_mvars
  PROVE  ScanningInv'
BY MeasuresSteps, ScanStays DEF ScanningInv

\* For all lists in order, at each moment of a measurement of forward_scan
\* (measure_join.hpp:36-51) the pairs written are the overlapping ones with an event passed.
THEOREM MeasuresScanExact == MSpec => []ScanExact
<1>1. ScanningInv => ScanExact
  BY DEF ScanningInv, ScanInv, ScanExact
<1> QED
  BY <1>1, MeasuresInit, MeasuresStep, PTL DEF MSpec

\* No measurement of forward_scan writes a pair twice.
THEOREM MeasuresScanOnce == MSpec => ScanOnce
<1>1. ASSUME ScanningInv, [MNext]_mvars
      PROVE  [measure = "forward_scan" =>
                /\ JoinLeft => LeftPairs \cap pairs = {}
                /\ JoinRight => RightPairs \cap pairs = {}]_mvars
  BY <1>1, MeasuresSteps, ScanPairsNew DEF ScanningInv
<1> QED
  BY <1>1, MeasuresInit, MeasuresStep, PTL DEF MSpec, ScanOnce

\* The invariant of the query, while it is what is measured.
QueryingInv == measure = "multi_window" => QueryInv

\* A measurement starts the query as the query starts, ...
LEMMA QueryingInit ==
  ASSUME MInit
  PROVE  QueryingInv
<1>. SUFFICES ASSUME measure = "multi_window" PROVE QueryInv
  BY DEF QueryingInv
<1>1. QueryInit
  BY DEF MInit
<1>. QED
  BY <1>1, QueryStarts

\* ... stays with it, in steps of it, ...
LEMMA QueryingSteps ==
  ASSUME [MNext]_mvars
  PROVE  measure' = measure /\ (measure = "multi_window" => [QueryNext]_queryVars)
BY DEF MNext, Measure_forward_scan, Measure_forward_skip_join, Measure_multi_window, mvars, queryVars

\* ... and so keeps its invariant.
LEMMA QueryingStep ==
  ASSUME QueryingInv, [MNext]_mvars
  PROVE  QueryingInv'
BY QueryingSteps, QueryStay DEF QueryingInv

\* For all lists in order: with the list policy a query has written, between two windows,
\* what the windows so far ask for, overlapping ones too (measure_join.hpp:71-94).
THEOREM MeasuresExactSoFar == MSpec => []ExactSoFar
<1>1. QueryingInv => ExactSoFar
  BY QueryAnswers DEF QueryingInv, ExactSoFar
<1>. QED
  BY <1>1, QueryingInit, QueryingStep, PTL DEF MSpec

\* A query writes no event twice and none outside the windows: whatever the policy over windows
\* that follow each other, and over any windows, as measure_window has them, with the check
\* policy that it uses (measure_join.hpp:71-94, stab_forest.hpp:872).
THEOREM MeasuresWindowsOnly == MSpec => []WritesWindowsOnly
<1>1. QueryingInv => WritesWindowsOnly
  BY QueryAnswers DEF QueryingInv, WritesWindowsOnly
<1>. QED
  BY <1>1, QueryingInit, QueryingStep, PTL DEF MSpec

\* Over windows that follow each other every stab of a query is one that stab_forward allows
\* (stab_forest.hpp:809-811), and over any windows so is every one that the check policy answers
\* from the index.
THEOREM MeasuresStabsAhead == MSpec => StabsAhead
<1>1. QueryingInv /\ [MNext]_mvars
        => [measure = "multi_window" => StabAllowed]_mvars
  BY QueryStabs DEF QueryingInv
<1>. QED
  BY <1>1, QueryingInit, QueryingStep, PTL DEF MSpec, StabsAhead

\* The invariant of the skipping join, while it is what is measured.
JoiningInv == measure = "forward_skip_join" => SkipInv

\* A measurement starts the join as the join starts, ...
LEMMA JoiningInit ==
  ASSUME MInit
  PROVE  JoiningInv
<1>. SUFFICES ASSUME measure = "forward_skip_join" PROVE SkipInv
  BY DEF JoiningInv
<1>1. SkipInit
  BY DEF MInit
<1>. QED
  BY <1>1, SkipStarts

\* ... stays with it, in steps of it, ...
LEMMA JoiningSteps ==
  ASSUME [MNext]_mvars
  PROVE  measure' = measure /\ (measure = "forward_skip_join" => [SkipNext]_skipVars)
BY DEF MNext, Measure_forward_scan, Measure_forward_skip_join, Measure_multi_window, mvars, policies, skipVars

\* ... and so keeps its invariant.
LEMMA JoiningStep ==
  ASSUME JoiningInv, [MNext]_mvars
  PROVE  JoiningInv'
BY JoiningSteps, SkipStays DEF JoiningInv

\* For all ordered lists, whatever the policies, no measurement of forward_skip_join
\* (measure_join.hpp:53-69) writes a pair that does not overlap, or one more often than due.
THEOREM MeasuresOnlyOverlaps == MSpec => []WritesOnlyOverlaps
<1>1. JoiningInv => WritesOnlyOverlaps
  BY SkipBags DEF JoiningInv, WritesOnlyOverlaps
<1>. QED
  BY <1>1, JoiningInit, JoiningStep, PTL DEF MSpec

\* Every jump of forward_skip_join is one that stab_forward allows (stab_forest.hpp:809-811).
THEOREM MeasuresJumps == MSpec => JumpsFromFirst
<1>1. JoiningInv /\ [MNext]_mvars => [measure = "forward_skip_join" => JumpAllowed]_mvars
  BY SkipJumps DEF JoiningInv
<1>. QED
  BY <1>1, JoiningInit, JoiningStep, PTL DEF MSpec, JumpsFromFirst

\* What the contract says is due, in the terms of the joins.
LEMMA PromisedDue ==
  ASSUME NEW i, NEW j
  PROVE  Promise!Due(left, right, i, j) = Due(left, right, i, j)
BY DEF Promise!Due, Due, Promise!PairBag, PairBag, Promise!Overlaps, Overlaps,
       Promise!Cardinality, Cardinality

\* A join starts with its places at the first events and nothing written.
LEMMA PromiseStarts ==
  ASSUME MInit
  PROVE  Promise!Init
<1>1. left \in Lists /\ right \in Lists
  BY DEF MInit, ScanInit, SkipInit, QueryInit
<1>2. /\ left \in Seq(Event) /\ Promise!Ordered(left)
      /\ right \in Seq(Event) /\ Promise!Ordered(right)
  BY <1>1, ListsAssumption DEF Promise!Ordered, Ordered, Promise!AtOrBefore, AtOrBefore
<1>3. Scans => lit - 1 = 0 /\ rit - 1 = 0 /\ PairBag(left, right, pairs) = Promise!EmptyBag
  BY DEF Scans, MInit, ScanInit, PairBag, Promise!EmptyBag, Promise!SetToBag
<1>4. SkipsLossless => lit.it - 1 = 0 /\ rit.it - 1 = 0 /\ ToBag(pairs) = Promise!EmptyBag
  <2>. SUFFICES ASSUME SkipsLossless
                PROVE  lit.it - 1 = 0 /\ rit.it - 1 = 0 /\ ToBag(pairs) = Promise!EmptyBag
    OBVIOUS
  <2>1. SkipInit
    BY DEF SkipsLossless, MInit
  <2>2. lit.it = 1 /\ rit.it = 1 /\ pairs = <<>>
    BY <2>1 DEF SkipInit, NewHelper
  <2>3. DOMAIN <<>> = {}
    OBVIOUS
  <2>4. ToBag(<<>>) = Promise!EmptyBag
    BY <2>3 DEF ToBag, Range, Promise!EmptyBag, Promise!SetToBag
  <2>. QED
    BY <2>2, <2>4
<1>5. EmptyBag = Promise!EmptyBag
  BY DEF EmptyBag, SetToBag, Promise!EmptyBag, Promise!SetToBag
<1>. QED
  BY <1>2, <1>3, <1>4, <1>5 DEF Promise!Init

\* What the two joins have written, of what they have passed.
Pledged(i, j, bag) ==
  i \in 0..Len(left) /\ j \in 0..Len(right) /\ bag = Due(left, right, i, j)

\* forward_scan has written what is due, ...
LEMMA ScanPledged ==
  ASSUME ScanInv
  PROVE  Pledged(lit - 1, rit - 1, PairBag(left, right, pairs))
<1>1. PairBag(left, right, pairs) = Due(left, right, lit - 1, rit - 1)
  <2>1. PairBag(left, right, pairs) = Contract!Due(left, right, lit - 1, rit - 1)
    BY ScanDue
  <2>2. Contract!Due(left, right, lit - 1, rit - 1) = Due(left, right, lit - 1, rit - 1)
    BY DEF Contract!Due, Due, Contract!PairBag, PairBag, Contract!Overlaps, Overlaps,
           Contract!Cardinality, Cardinality
  <2>. QED
    BY <2>1, <2>2
<1>2. lit - 1 \in 0..Len(left) /\ rit - 1 \in 0..Len(right)
  <2>1. Len(left) \in Nat /\ Len(right) \in Nat /\ lit \in 1..(Len(left) + 1) /\ rit \in 1..(Len(right) + 1)
    BY ListFields DEF ScanInv, ScanTypeOK
  <2>. QED
    BY <2>1
<1>. QED
  BY <1>1, <1>2 DEF Pledged

\* ... and so has forward_skip_join where it can.
LEMMA SkipPledged ==
  ASSUME SkipInv, Lossless
  PROVE  Pledged(lit.it - 1, rit.it - 1, ToBag(pairs))
<1>1. ToBag(pairs) = Due(left, right, lit.it - 1, rit.it - 1)
  BY SkipBags
<1>2. /\ left \in Seq(Event) /\ right \in Seq(Event)
      /\ lit.it \in 1..(Len(left) + 1) /\ rit.it \in 1..(Len(right) + 1)
  BY SkipLists
<1>3. lit.it - 1 \in 0..Len(left) /\ rit.it - 1 \in 0..Len(right)
  BY <1>2
<1>. QED
  BY <1>1, <1>3 DEF Pledged

\* No measurement changes the data sets.
LEMMA ListsStay ==
  ASSUME [MNext]_mvars
  PROVE  left' = left /\ right' = right
<1>1. CASE UNCHANGED mvars
  BY <1>1 DEF mvars
<1>2. CASE Measure_forward_scan
  BY <1>2 DEF Measure_forward_scan, ScanNext, JoinLeft, JoinRight
<1>3. CASE Measure_forward_skip_join
  BY <1>3 DEF Measure_forward_skip_join, SkipNext, StepLeft, JumpLeft, StepRight, JumpRight
<1>4. CASE Measure_multi_window
  BY <1>4 DEF Measure_multi_window, QueryNext, Stab, Scan, NextWindow
<1>. QED
  BY <1>1, <1>2, <1>3, <1>4 DEF MNext

\* The sweep passes on.
LEMMA ScanPasses ==
  ASSUME ScanInv, [ScanNext]_joinVars
  PROVE  lit <= lit' /\ rit <= rit'
<1>1. lit \in Int /\ rit \in Int
  BY ListFields DEF ScanInv, ScanTypeOK
<1>2. lit' \in {lit, lit + 1} /\ rit' \in {rit, rit + 1}
  BY DEF ScanNext, JoinLeft, JoinRight, joinVars
<1>. QED
  BY <1>1, <1>2

\* A step from what is passed and due to what is passed and due keeps the promise.
LEMMA PledgedPass ==
  ASSUME NEW i, NEW j, NEW k, NEW l, NEW bag,
         i \in 0..Len(left), j \in 0..Len(right),
         i <= k, j <= l, Pledged(k, l, bag)
  PROVE  /\ k \in i..Len(left) /\ l \in j..Len(right)
         /\ bag = Promise!Due(left, right, k, l)
<1>1. i \in Int /\ j \in Int
  OBVIOUS
<1>2. k \in 0..Len(left) /\ l \in 0..Len(right) /\ bag = Due(left, right, k, l)
  BY DEF Pledged
<1>. QED
  BY <1>1, <1>2, PromisedDue

\* Each step of a measurement keeps the promise.
LEMMA PromiseKept ==
  ASSUME ScanningInv, ScanningInv', JoiningInv, JoiningInv', [MNext]_mvars
  PROVE  [Promise!Pass]_(Promise!vars)
<1>1. left' = left /\ right' = right /\ measure' = measure
  BY ListsStay, MeasuresSteps
<1>2. CASE Scans
  <2>1. ScanInv /\ ScanInv' /\ Scans' /\ [ScanNext]_joinVars
    BY <1>1, <1>2, MeasuresSteps DEF Scans, ScanningInv
  <2>2. Pledged(lit - 1, rit - 1, PairBag(left, right, pairs))
    BY <2>1, ScanPledged
  <2>3. Pledged(lit' - 1, rit' - 1, PairBag(left, right, pairs'))
    <3>1. Pledged(lit - 1, rit - 1, PairBag(left, right, pairs))'
      BY <2>1, ScanPledged, PTL
    <3>. QED
      BY <1>1, <3>1 DEF Pledged
  <2>4. lit - 1 <= lit' - 1 /\ rit - 1 <= rit' - 1
    <3>1. lit <= lit' /\ rit <= rit'
      BY <2>1, ScanPasses
    <3>2. lit \in Int /\ rit \in Int /\ lit' \in Int /\ rit' \in Int
      BY <2>1, <1>1, ListFields DEF ScanInv, ScanTypeOK
    <3>3. \A a, b \in Int : a <= b => a - 1 <= b - 1
      OBVIOUS
    <3>. QED
      BY <3>1, <3>2, <3>3
  <2>5. /\ lit' - 1 \in (lit - 1)..Len(left) /\ rit' - 1 \in (rit - 1)..Len(right)
        /\ PairBag(left, right, pairs') = Promise!Due(left, right, lit' - 1, rit' - 1)
    BY <2>2, <2>3, <2>4, PledgedPass DEF Pledged
  <2>6. PairBag(left, right, pairs)' = PairBag(left, right, pairs')
    BY <1>1
  <2>. QED
    BY <1>1, <1>2, <2>1, <2>5, <2>6 DEF Promise!Pass
<1>3. CASE measure = "forward_skip_join"
  <2>1. SkipInv /\ SkipInv' /\ [SkipNext]_skipVars
    BY <1>1, <1>3, JoiningSteps DEF JoiningInv
  <2>2. UNCHANGED <<left, right, policy_l, policy_r>> /\ lit.it <= lit'.it /\ rit.it <= rit'.it
    BY <2>1, SkipStays
  <2>3. Lossless' <=> Lossless
    BY <2>2 DEF Lossless, DistinctStarts
  <2>4. ~Scans /\ ~Scans' /\ (SkipsLossless <=> Lossless) /\ (SkipsLossless' <=> Lossless)
    BY <1>1, <1>3, <2>3 DEF Scans, SkipsLossless
  <2>5. CASE Lossless
    <3>1. Pledged(lit.it - 1, rit.it - 1, ToBag(pairs))
      BY <2>1, <2>5, SkipPledged
    <3>2. Pledged(lit'.it - 1, rit'.it - 1, ToBag(pairs'))
      <4>1. Lossless'
        BY <2>3, <2>5
      <4>2. Pledged(lit.it - 1, rit.it - 1, ToBag(pairs))'
        BY <2>1, <4>1, SkipPledged, PTL
      <4>. QED
        BY <1>1, <4>2 DEF Pledged
    <3>3. lit.it - 1 <= lit'.it - 1 /\ rit.it - 1 <= rit'.it - 1
      <4>1. /\ lit.it \in 1..(Len(left) + 1) /\ rit.it \in 1..(Len(right) + 1)
            /\ left \in Seq(Event) /\ right \in Seq(Event)
        BY <2>1, SkipLists
      <4>2. (lit.it \in 1..(Len(left) + 1) /\ rit.it \in 1..(Len(right) + 1))'
        BY <2>1, SkipLists, PTL
      <4>3. lit'.it \in 1..(Len(left) + 1) /\ rit'.it \in 1..(Len(right) + 1)
        BY <1>1, <4>2
      <4>. QED
        BY <2>2, <4>1, <4>3
    <3>4. /\ lit'.it - 1 \in (lit.it - 1)..Len(left) /\ rit'.it - 1 \in (rit.it - 1)..Len(right)
          /\ ToBag(pairs') = Promise!Due(left, right, lit'.it - 1, rit'.it - 1)
      BY <3>1, <3>2, <3>3, PledgedPass DEF Pledged
    <3>5. ToBag(pairs)' = ToBag(pairs')
      OBVIOUS
    <3>. QED
      BY <1>1, <2>4, <2>5, <3>4, <3>5 DEF Promise!Pass
  <2>6. CASE ~Lossless
    BY <1>1, <2>4, <2>6 DEF Promise!vars
  <2>. QED
    BY <2>5, <2>6
<1>4. CASE ~Scans /\ measure # "forward_skip_join"
  <2>1. ~Scans /\ ~Scans' /\ ~SkipsLossless /\ ~SkipsLossless'
    BY <1>1, <1>4 DEF Scans, SkipsLossless
  <2>. QED
    BY <1>1, <2>1 DEF Promise!vars
<1>. QED
  BY <1>2, <1>3, <1>4

\* Both joins keep the promise of every temporal join, forward_scan (temporal_join.hpp:125-149)
\* always and forward_skip_join (:154-191) where it can, both sides scanning or no two events
\* of a list starting together: with each step or jump the pairs written are those that overlap
\* and have an event passed, each once.
THEOREM MeasuresKeepPromise == MSpec => JoinsKeepPromise
BY PromiseStarts, PromiseKept, MeasuresInit, MeasuresStep, JoiningInit, JoiningStep, PTL
   DEF MSpec, JoinsKeepPromise, Promise!Spec
=================================================================================
