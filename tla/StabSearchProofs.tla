---------------------------- MODULE StabSearchProofs ----------------------------
(*****************************************************************************)
(* Theorems about searches in a stab forest and about the stab_forward       *)
(* helper, for all events, values and jump policies: what a search copies is *)
(* every event active at its value, once; and what a helper remembers of the *)
(* trees it has seen never makes a stab write an event that it should not,   *)
(* nor leave out one that starts anywhere else than where it began.          *)
(*****************************************************************************)
EXTENDS StabForward, StabForestProofs

---------------------------------------------------------------------------------
(* What a search copies from one list. *)

Started(v) == {e \in Event : e.start <= v}

\* Where a search that returns no event before v goes on: stab_search's return value.
StartsAfter(s, v) == Skip(s, 1, LAMBDA e : e.start <= v)

\* It is the first position of an event that starts after v (copy_start_asc).
LEMMA StartsCut ==
  ASSUME NEW s \in Seq(Event), NEW v \in Int
  PROVE  /\ StartsAfter(s, v) \in 1..(Len(s) + 1)
         /\ \A i \in 1..(StartsAfter(s, v) - 1) : s[i].start <= v
         /\ StartsAfter(s, v) <= Len(s) => ~(s[StartsAfter(s, v)].start <= v)
<1>. DEFINE I == {i \in 1..Len(s) : ~(s[i].start <= v)}
            p == IF I # {} THEN CHOOSE x \in I : \A y \in I : x <= y ELSE 0
<1>1. StartsAfter(s, v) = IF p = 0 THEN Len(s) + 1 ELSE p
  BY DEF StartsAfter, Skip, SelectInSubSeq, Min
<1>2. CASE I = {}
  BY <1>1, <1>2
<1>3. CASE I # {}
  <2>1. I \in SUBSET Nat
    OBVIOUS
  <2>2. \E x \in I : \A y \in I : x <= y
    BY <1>3, <2>1, NatMin
  <2>3. p \in I /\ \A y \in I : p <= y
    BY <1>3, <2>2
  <2>. HIDE DEF p
  <2>4. StartsAfter(s, v) = p /\ p \in 1..Len(s) /\ ~(s[p].start <= v)
    BY <1>1, <2>3
  <2>5. \A i \in 1..(p - 1) : i \in 1..Len(s) /\ ~(p <= i)
    BY <2>4
  <2>6. \A i \in 1..(p - 1) : s[i].start <= v
    BY <2>3, <2>5
  <2>. QED
    BY <2>4, <2>6
<1>. QED
  BY <1>2, <1>3

\* There is only one such position in an ordered list.
LEMMA StartsCutOnly ==
  ASSUME NEW s \in Seq(Event), Ordered(s), NEW v \in Int, NEW k \in 1..(Len(s) + 1),
         \A i \in 1..Len(s) : s[i].start <= v <=> i < k
  PROVE  StartsAfter(s, v) = k
<1>1. PICK n \in Nat, p \in Int : n = Len(s) /\ p = StartsAfter(s, v) /\ p \in 1..(n + 1)
  BY StartsCut
<1>2. /\ \A i \in 1..(p - 1) : s[i].start <= v
      /\ p <= n => ~(s[p].start <= v)
  BY <1>1, StartsCut
<1>3. ~(k < p)
  <2>1. SUFFICES ASSUME k < p PROVE FALSE
    OBVIOUS
  <2>2. k \in 1..(p - 1) /\ k \in 1..n
    BY <1>1, <2>1
  <2>. QED
    BY <1>1, <1>2, <2>2
<1>4. ~(p < k)
  <2>1. SUFFICES ASSUME p < k PROVE FALSE
    OBVIOUS
  <2>2. p \in 1..n
    BY <1>1, <2>1
  <2>. QED
    BY <1>1, <1>2, <2>1, <2>2
<1>. QED
  BY <1>1, <1>3, <1>4

\* copy_start_asc without mstart copies what has started.
LEMMA CopyStart ==
  ASSUME NEW s \in Seq(Event), NEW v \in Int
  PROVE  /\ CopyStartAsc(s, 1, v, 0).out = SubSeq(s, 1, StartsAfter(s, v) - 1)
         /\ CopyStartAsc(s, 1, v, 0).next = StartsAfter(s, v)
<1>. DEFINE I == {i \in 1..Len(s) : ~(s[i].start < 0)}
            p == IF I # {} THEN CHOOSE x \in I : \A y \in I : x <= y ELSE 0
            first == Skip(s, 1, LAMBDA e : e.start < 0)
<1>1. first = IF p = 0 THEN Len(s) + 1 ELSE p
  BY DEF Skip, SelectInSubSeq, Min
<1>2. PICK n \in Nat : n = Len(s)
  OBVIOUS
<1>3. I = 1..n
  <2>1. ASSUME NEW i \in 1..n PROVE ~(s[i].start < 0)
    <3>1. s[i] \in Event
      BY <1>2
    <3>2. s[i].start \in Nat
      BY <3>1, EventFields DEF Timestamp
    <3>. QED
      BY <3>2
  <2>. QED
    BY <1>2, <2>1
<1>4. first = 1
  <2>1. CASE n = 0
    <3>1. I = {}
      BY <1>3, <2>1
    <3>. QED
      BY <1>1, <1>2, <2>1, <3>1
  <2>2. CASE n # 0
    <3>1. I # {} /\ 1 \in I
      BY <1>3, <2>2
    <3>2. \A x \in I : (\A y \in I : x <= y) <=> x = 1
      <4>. HIDE DEF I
      <4>1. \A x \in 1..n : (\A y \in 1..n : x <= y) <=> x = 1
        BY <2>2
      <4>. QED
        BY <1>3, <4>1
    <3>3. p = 1
      <4>. HIDE DEF I
      <4>. QED
        BY <3>1, <3>2
    <3>. HIDE DEF p
    <3>. QED
      BY <1>1, <3>3
  <2>. QED
    BY <2>1, <2>2
<1>. QED
  BY <1>4 DEF CopyStartAsc, StartsAfter

\* What it copies from an ordered list.
LEMMA CopyStartHolds ==
  ASSUME NEW s, NEW all, NEW C \in SUBSET Event, Holds(s, all, C), Ordered(s), NEW v \in Int
  PROVE  Holds(CopyStartAsc(s, 1, v, 0).out, all, C \cap Started(v))
<1>1. s \in Seq(Event)
  BY DEF Holds
<1>2. PICK n \in Nat, u \in Int : n = Len(s) /\ DOMAIN s = 1..n /\ u = StartsAfter(s, v) /\ u \in 1..(n + 1)
  BY <1>1, StartsCut
<1>3. /\ \A i \in 1..(u - 1) : s[i].start <= v
      /\ u <= n => ~(s[u].start <= v)
  BY <1>1, <1>2, StartsCut
<1>4. PICK k \in 0..n : k = u - 1 /\ u = k + 1
  BY <1>2
<1>5. ASSUME NEW i \in 1..n PROVE s[i] \in Started(v) <=> i <= k
  <2>1. s[i] \in Event /\ s[i].start \in Int
    BY <1>1, <1>2, EventTimes
  <2>2. CASE i <= k
    <3>1. i \in 1..(u - 1)
      BY <1>4, <2>2
    <3>. QED
      BY <1>3, <2>1, <2>2, <3>1 DEF Started
  <2>3. CASE ~(i <= k)
    <3>1. u <= n /\ u \in 1..n /\ (i = u \/ u < i)
      BY <1>2, <1>4, <2>3
    <3>2. ~(s[u].start <= v) /\ s[u] \in Event /\ s[u].start \in Int
      BY <1>1, <1>2, <1>3, <3>1, EventTimes
    <3>3. i = u \/ AtOrBefore(s[u], s[i])
      BY <1>2, <3>1 DEF Ordered
    <3>4. s[u].start <= s[i].start
      BY <2>1, <3>2, <3>3 DEF AtOrBefore
    <3>5. ~(s[i].start <= v)
      BY <2>1, <3>2, <3>4
    <3>. QED
      BY <2>3, <3>5 DEF Started
  <2>. QED
    BY <2>2, <2>3
<1>6. Holds(SubSeq(s, 1, k), all, C \cap Started(v))
  BY <1>2, <1>5, HoldsParted
<1>. QED
  BY <1>1, <1>2, <1>4, <1>6, CopyStart

\* copy_end_dec without mstart copies what has not ended.
LEMMA CopyEndHolds ==
  ASSUME NEW s, NEW all, NEW C \in SUBSET Event, Holds(s, all, C), EndsDescend(s), NEW v \in Int
  PROVE  Holds(CopyEndDec(s, v, 0), all, C \cap Lasting(v))
<1>1. PICK t : t = SubSeq(s, 1, UpperBoundEnd(s, v) - 1)
  OBVIOUS
<1>2. Holds(t, all, C \cap Lasting(v))
  BY <1>1, CutParts
<1>3. t \in Seq(Event) /\ DOMAIN t = 1..Len(t)
  BY <1>2 DEF Holds
<1>4. PICK kept : kept = {i \in DOMAIN t : t[i] \in Event}
  OBVIOUS
<1>5. CopyEndDec(s, v, 0) = ElementsAt(t, {i \in DOMAIN t : 0 <= t[i].start})
  BY <1>1 DEF CopyEndDec, Selected, UpperBoundEnd
<1>6. {i \in DOMAIN t : 0 <= t[i].start} = kept
  <2>1. ASSUME NEW i \in DOMAIN t PROVE t[i] \in Event /\ 0 <= t[i].start
    <3>1. t[i] \in Event
      BY <1>3
    <3>2. t[i].start \in Nat
      BY <3>1, EventFields DEF Timestamp
    <3>. QED
      BY <3>1, <3>2
  <2>. QED
    BY <1>4, <2>1
<1>7. Holds(ElementsAt(t, kept), all, (C \cap Lasting(v)) \cap Event)
  BY <1>2, <1>4, HoldsKept
<1>8. (C \cap Lasting(v)) \cap Event = C \cap Lasting(v)
  OBVIOUS
<1>. QED
  BY <1>5, <1>6, <1>7, <1>8

---------------------------------------------------------------------------------
(* Lists behind each other. *)

FlatTurn(s, g, i) == IF i = 1 THEN s[i] ELSE g[i - 1] \o s[i]
IsFlat(s, g) == g = [i \in 1..Len(s) |-> FlatTurn(s, g, i)]

\* FlattenSeq is the last value of the function so defined.
LEMMA FlatChoice ==
  ASSUME NEW s
  PROVE  FlattenSeq(s) = IF Len(s) = 0 THEN s ELSE (CHOOSE g : IsFlat(s, g))[Len(s)]
BY DEF FlattenSeq, IsFlat, FlatTurn

\* There is such a function.
LEMMA FlatExist ==
  ASSUME NEW s, Len(s) \in Nat
  PROVE  \E g : IsFlat(s, g)
<1>1. PICK n \in Nat : n = Len(s)
  OBVIOUS
<1>. DEFINE On(g) == g = [i \in 1..n |-> g[i]]
            Up(k, g) == \A i \in 1..n : i <= k => g[i] = FlatTurn(s, g, i)
            S == {k \in Nat : \E g : On(g) /\ Up(k, g)}
<1>2. 0 \in S
  <2>. DEFINE z == [i \in 1..n |-> s]
  <2>1. On(z)
    OBVIOUS
  <2>2. Up(0, z)
    OBVIOUS
  <2>. QED
    BY <2>1, <2>2
<1>3. ASSUME NEW k \in S PROVE k + 1 \in S
  <2>1. k \in Nat
    OBVIOUS
  <2>2. PICK w : On(w) /\ Up(k, w)
    OBVIOUS
  <2>. DEFINE u == [i \in 1..n |-> FlatTurn(s, w, i)]
  <2>3. On(u) /\ \A i \in 1..n : u[i] = FlatTurn(s, w, i)
    OBVIOUS
  <2>. HIDE DEF u
  <2>4. ASSUME NEW i \in 1..n, i <= k + 1 PROVE u[i] = FlatTurn(s, u, i)
    <3>1. CASE i = 1
      BY <2>3, <3>1 DEF FlatTurn
    <3>2. CASE i # 1
      <4>1. PICK x \in 1..n : x = i - 1 /\ x <= k
        BY <2>1, <2>4, <3>2
      <4>2. w[x] = FlatTurn(s, w, x) /\ u[x] = FlatTurn(s, w, x)
        BY <2>2, <2>3, <4>1
      <4>. QED
        <5>1. FlatTurn(s, u, i) = FlatTurn(s, w, i)
          <6>1. i - 1 = x /\ u[x] = w[x]
            BY <4>1, <4>2
          <6>2. u[i - 1] = w[i - 1]
            BY <6>1
          <6>. QED
            BY <3>2, <6>2, Zenon DEF FlatTurn
        <5>. QED
          BY <2>3, <5>1
    <3>. QED
      BY <3>1, <3>2
  <2>5. Up(k + 1, u) /\ k + 1 \in Nat
    BY <2>1, <2>4
  <2>. HIDE DEF On, Up
  <2>. QED
    BY <2>3, <2>5
<1>4. S = Nat
  <2>1. S \in SUBSET Nat
    OBVIOUS
  <2>. HIDE DEF S
  <2>. QED
    BY <1>2, <1>3, <2>1, NatAll
<1>5. n \in S
  <2>. HIDE DEF S
  <2>. QED
    BY <1>4
<1>6. PICK g : On(g) /\ Up(n, g)
  BY <1>5
<1>7. ASSUME NEW i \in 1..n PROVE g[i] = FlatTurn(s, g, i)
  BY <1>6
<1>. QED
  BY <1>1, <1>6, <1>7 DEF IsFlat

\* What FlattenSeq does, list by list.
FlatBy(s, n, g) ==
  /\ g[1] = s[1] /\ FlattenSeq(s) = g[n]
  /\ \A i \in 1..n : i + 1 <= n => g[i + 1] = g[i] \o s[i + 1]

\* Such a function gives what FlattenSeq does.
LEMMA FlatSteps ==
  ASSUME NEW s, NEW n \in Nat, n = Len(s)
  PROVE  /\ n = 0 => FlattenSeq(s) = s
         /\ n > 0 => \E g : FlatBy(s, n, g)
<1>1. n = 0 => FlattenSeq(s) = s
  BY FlatChoice
<1>2. CASE n > 0
  <2>1. PICK g : g = CHOOSE h : IsFlat(s, h)
    OBVIOUS
  <2>2. IsFlat(s, g) /\ FlattenSeq(s) = g[n]
    BY <1>2, <2>1, FlatChoice, FlatExist
  <2>3. \A i \in 1..n : g[i] = FlatTurn(s, g, i)
    BY <2>2 DEF IsFlat
  <2>4. g[1] = s[1]
    BY <1>2, <2>3 DEF FlatTurn
  <2>5. ASSUME NEW i \in 1..n, i + 1 <= n PROVE g[i + 1] = g[i] \o s[i + 1]
    <3>1. PICK x \in 1..n : x = i + 1 /\ x # 1 /\ x - 1 = i
      BY <2>5
    <3>. QED
      <4>1. g[x] = FlatTurn(s, g, x)
        BY <2>3, <3>1
      <4>2. FlatTurn(s, g, x) = g[x - 1] \o s[x]
        BY <3>1 DEF FlatTurn
      <4>. QED
        BY <3>1, <4>1, <4>2
  <2>6. FlatBy(s, n, g)
    BY <2>2, <2>4, <2>5 DEF FlatBy
  <2>. QED
    BY <1>2, <2>6
<1>. QED
  BY <1>1, <1>2

\* An element in front of a sequence.
LEMMA ConsFacts ==
  ASSUME NEW S, NEW x \in S, NEW s \in Seq(S), NEW t, t = <<x>> \o s
  PROVE  /\ <<x>> \in Seq(S) /\ Len(<<x>>) = 1 /\ <<x>>[1] = x /\ DOMAIN <<x>> = 1..1 /\ <<x>> # <<>>
         /\ t \in Seq(S) /\ Len(t) = Len(s) + 1 /\ DOMAIN t = 1..(Len(s) + 1) /\ t # <<>>
         /\ t[1] = x /\ \A i \in 1..Len(s) : t[i + 1] = s[i]
<1>1. PICK o \in Seq(S) : o = <<x>> /\ Len(o) = 1 /\ o[1] = x
  <2>1. <<x>> \in Seq(S)
    OBVIOUS
  <2>. QED
    BY <2>1
<1>2. DOMAIN o = 1..1 /\ o # <<>>
  BY <1>1
<1>3. t = o \o s /\ t \in Seq(S) /\ Len(t) = Len(s) + 1
  BY <1>1
<1>4. DOMAIN t = 1..(Len(s) + 1) /\ t # <<>> /\ t[1] = x
  BY <1>1, <1>3
<1>5. ASSUME NEW i \in 1..Len(s) PROVE t[i + 1] = s[i]
  BY <1>1, <1>3
<1>. QED
  BY <1>1, <1>2, <1>3, <1>4, <1>5

\* One list.
LEMMA FlatOne ==
  ASSUME NEW x
  PROVE  FlattenSeq(<<x>>) = x
<1>1. PICK s : s = <<x>>
  OBVIOUS
<1>2. Len(s) = 1 /\ s[1] = x
  BY <1>1
<1>3. FlattenSeq(s) = x
  <2>1. PICK n \in Nat : n = 1 /\ n = Len(s) /\ n > 0
    BY <1>2
  <2>2. PICK g : FlatBy(s, n, g)
    BY <2>1, FlatSteps
  <2>. QED
    BY <1>2, <2>1, <2>2 DEF FlatBy
<1>. QED
  BY <1>1, <1>3

\* A list in front of others.
LEMMA FlatCons ==
  ASSUME NEW x \in Seq(Event), NEW s \in Seq(Seq(Event)), s # <<>>
  PROVE  /\ FlattenSeq(s) \in Seq(Event)
         /\ FlattenSeq(<<x>> \o s) = x \o FlattenSeq(s)
<1>1. PICK n \in Nat : n = Len(s) /\ n > 0 /\ \A i \in 1..n : s[i] \in Seq(Event)
  OBVIOUS
<1>2. PICK t : t = <<x>> \o s
  OBVIOUS
<1>3. Len(t) = n + 1 /\ t[1] = x /\ \A i \in 1..n : t[i + 1] = s[i]
  BY <1>1, <1>2, ConsFacts
<1>4. PICK g : FlatBy(s, n, g)
  BY <1>1, FlatSteps
<1>5. PICK m \in Nat : m = n + 1 /\ m > 0 /\ m = Len(t)
  BY <1>3
<1>6. PICK h : FlatBy(t, m, h)
  BY <1>5, FlatSteps
<1>7. \A i \in 1..n : h[i + 1] = h[i] \o s[i]
  <2>1. \A i \in 1..n : i \in 1..m /\ i + 1 <= m
    BY <1>5
  <2>. QED
    BY <1>3, <1>6, <2>1 DEF FlatBy
<1>. DEFINE Good(i) == i \in 1..n => g[i] \in Seq(Event) /\ h[i + 1] = x \o g[i]
            S == {i \in Nat : Good(i)}
<1>8. 0 \in S
  OBVIOUS
<1>9. ASSUME NEW i \in S PROVE i + 1 \in S
  <2>1. i \in Nat /\ Good(i)
    OBVIOUS
  <2>2. SUFFICES ASSUME i + 1 \in 1..n
                 PROVE  g[i + 1] \in Seq(Event) /\ h[(i + 1) + 1] = x \o g[i + 1]
    BY <2>1
  <2>3. CASE i = 0
    <3>1. h[1] = x /\ g[1] = s[1] /\ h[2] = h[1] \o s[1]
      <4>1. 1 \in 1..n /\ 1 + 1 = 2
        BY <1>1
      <4>. QED
        BY <1>3, <1>4, <1>6, <1>7, <4>1 DEF FlatBy
    <3>2. i + 1 = 1 /\ (i + 1) + 1 = 2 /\ 1 \in 1..n
      BY <1>1, <2>3
    <3>. QED
      BY <1>1, <3>1, <3>2
  <2>4. CASE i # 0
    <3>1. i \in 1..n /\ i + 1 <= n
      BY <2>1, <2>2, <2>4
    <3>2. g[i] \in Seq(Event) /\ h[i + 1] = x \o g[i]
      BY <2>1, <3>1
    <3>3. g[i + 1] = g[i] \o s[i + 1] /\ h[(i + 1) + 1] = h[i + 1] \o s[i + 1] /\ s[i + 1] \in Seq(Event)
      BY <1>1, <1>4, <1>7, <2>2, <3>1 DEF FlatBy
    <3>4. \A a, b, c \in Seq(Event) : a \o b \in Seq(Event) /\ (a \o b) \o c = a \o (b \o c)
      OBVIOUS
    <3>5. PICK a \in Seq(Event), b \in Seq(Event) : a = g[i] /\ b = s[i + 1]
      BY <3>2, <3>3
    <3>6. a \o b \in Seq(Event) /\ (x \o a) \o b = x \o (a \o b)
      BY <3>4
    <3>. QED
      BY <3>2, <3>3, <3>5, <3>6, Zenon
  <2>. QED
    BY <2>3, <2>4
<1>10. S = Nat
  <2>1. S \in SUBSET Nat
    OBVIOUS
  <2>. HIDE DEF S
  <2>. QED
    BY <1>8, <1>9, <2>1, NatAll
<1>11. n \in S /\ n \in 1..n
  <2>. HIDE DEF S
  <2>. QED
    BY <1>1, <1>10
<1>12. g[n] \in Seq(Event) /\ h[n + 1] = x \o g[n]
  BY <1>11
<1>. QED
  BY <1>2, <1>4, <1>5, <1>6, <1>12 DEF FlatBy

---------------------------------------------------------------------------------
(* What a search copies at one node. *)

LeftCopy(n, v) == CopyStartAsc(n.nsa, 1, v, 0).out
RightCopy(n, v) == CopyEndDec(n.ded, v, 0) \o CopyEndDec(n.ned, v, 0)
SelectCopy(n, v) == (IF v = n.dkey THEN CopyEndDec(n.ded, v, 0) ELSE <<>>) \o CopyEndDec(n.ned, v, 0)
VisitOf(n, v) == CASE Selects(n, v) -> SelectCopy(n, v)
                   [] v < n.nkey    -> LeftCopy(n, v)
                   [] OTHER         -> RightCopy(n, v)

\* The events of gone that start from low on and are active at v.
Within(low, gone, v) == {e \in gone : low <= e.start /\ ActiveAt(e, v)}

\* A node whose lists hold what they should, between low and the end of its subtree.
Stands(n, all, low, gone) ==
  /\ Sides(n, all, Crossing(low, n.nkey) \cap gone, Starting(n.dkey) \cap gone)
  /\ n.nkey \in Int /\ n.dkey \in Int /\ low \in Int /\ low <= n.nkey /\ n.nkey <= n.dkey
  /\ \A e \in Event : Occurrences(all, e) # 0 /\ n.nkey <= e.start /\ e.start <= n.dkey
                        => e.start = n.dkey

\* What the selected node gives: all that is left to find.
LEMMA SelectHolds ==
  ASSUME NEW n, NEW all, Len(all) \in Nat, NEW low, NEW gone \in SUBSET Event, Stands(n, all, low, gone),
         NEW v \in Int, Selects(n, v)
  PROVE  Holds(VisitOf(n, v), all, Within(low, gone, v))
<1>1. PICK x \in Int, y \in Int, a \in Int :
        x = n.nkey /\ y = n.dkey /\ a = low /\ a <= x /\ x <= y /\ x <= v /\ v <= y
  BY DEF Stands, Selects
<1>2. VisitOf(n, v) = SelectCopy(n, v)
  <2>1. ~(v < n.nkey)
    BY <1>1
  <2>. QED
    BY <2>1 DEF VisitOf
<1>. DEFINE C == Crossing(a, x) \cap gone
            D == Starting(y) \cap gone
            E == IF v = y THEN D \cap Lasting(v) ELSE {}
<1>3. C \in SUBSET Event /\ D \in SUBSET Event
  OBVIOUS
<1>4. Sides(n, all, C, D)
  BY <1>1 DEF Stands
<1>5. Holds(CopyEndDec(n.ned, v, 0), all, C \cap Lasting(v))
  <2>1. Holds(n.ned, all, C) /\ EndsDescend(n.ned)
    BY <1>4 DEF Sides
  <2>. HIDE DEF C
  <2>. QED
    BY <1>3, <2>1, CopyEndHolds
<1>6. Holds(IF v = y THEN CopyEndDec(n.ded, v, 0) ELSE <<>>, all, E)
  <2>1. CASE v = y
    <3>1. Holds(n.ded, all, D) /\ EndsDescend(n.ded)
      BY <1>4 DEF Sides
    <3>. HIDE DEF D
    <3>2. Holds(CopyEndDec(n.ded, v, 0), all, D \cap Lasting(v))
      BY <1>3, <3>1, CopyEndHolds
    <3>. QED
      BY <2>1, <3>2
  <2>2. CASE v # y
    <3>1. E = {}
      BY <2>2
    <3>2. Holds(<<>>, all, {})
      BY HoldsNone
    <3>. HIDE DEF E
    <3>. QED
      BY <2>2, <3>1, <3>2
  <2>. QED
    BY <2>1, <2>2
<1>7. E \cap (C \cap Lasting(v)) = {}
  <2>1. ASSUME NEW e \in E, e \in C PROVE FALSE
    <3>1. e.start = y /\ e.start < x
      BY <2>1 DEF Starting, Crossing
    <3>. QED
      BY <1>1, <3>1
  <2>. HIDE DEF C, E
  <2>. QED
    BY <2>1
<1>8. Holds(SelectCopy(n, v), all, E \cup (C \cap Lasting(v)))
  <2>. HIDE DEF C, D, E
  <2>. QED
    BY <1>1, <1>5, <1>6, <1>7, HoldsBoth DEF SelectCopy
<1>9. ASSUME NEW e \in Event
      PROVE  /\ e \in E \cup (C \cap Lasting(v)) => e \in Within(a, gone, v)
             /\ e \in Within(a, gone, v) /\ Occurrences(all, e) # 0 => e \in E \cup (C \cap Lasting(v))
  <2>1. PICK b \in Int, d \in Int : b = e.start /\ d = e.end
    BY EventTimes
  <2>2. Occurrences(all, e) # 0 /\ x <= b /\ b <= y => b = y
    BY <1>1, <2>1 DEF Stands
  <2>3. e \in Within(a, gone, v) <=> e \in gone /\ a <= b /\ b <= v /\ v <= d
    BY <2>1 DEF Within, ActiveAt
  <2>4. e \in C \cap Lasting(v) <=> e \in gone /\ a <= b /\ b < x /\ x <= d /\ v <= d
    BY <2>1 DEF Crossing, Lasting
  <2>5. e \in E <=> v = y /\ e \in gone /\ b = y /\ v <= d
    BY <2>1 DEF Starting, Lasting
  <2>6. e \in C \cap Lasting(v) => e \in Within(a, gone, v)
    BY <1>1, <2>3, <2>4
  <2>7. e \in E => e \in Within(a, gone, v)
    BY <1>1, <2>3, <2>5
  <2>8. ASSUME e \in Within(a, gone, v), Occurrences(all, e) # 0
        PROVE  e \in E \/ e \in C \cap Lasting(v)
    <3>. HIDE DEF C, E
    <3>1. CASE b < x
      BY <1>1, <2>3, <2>4, <2>8, <3>1
    <3>2. CASE x <= b
      <4>1. b <= v /\ v <= y /\ v <= d /\ e \in gone
        BY <1>1, <2>3, <2>8
      <4>2. b = y
        BY <2>2, <2>8, <3>2, <4>1
      <4>. QED
        BY <2>5, <4>1, <4>2
    <3>. QED
      BY <3>1, <3>2
  <2>. HIDE DEF C, E
  <2>. QED
    BY <2>6, <2>7, <2>8
<1>10. Holds(SelectCopy(n, v), all, Within(a, gone, v))
  <2>. HIDE DEF C, D, E
  <2>. QED
    BY <1>8, <1>9, HoldsSame
<1>. QED
  BY <1>1, <1>2, <1>10

\* To the left of a node remain the events that end before its navigation key.
LEMMA LeftHolds ==
  ASSUME NEW n, NEW all, Len(all) \in Nat, NEW low, NEW gone \in SUBSET Event, Stands(n, all, low, gone),
         NEW v \in Int, v < n.nkey, Ending(n.nkey) \subseteq gone,
         NEW s, Holds(s, all, Within(low, Ending(n.nkey), v))
  PROVE  Holds(VisitOf(n, v) \o s, all, Within(low, gone, v))
<1>1. PICK x \in Int, a \in Int : x = n.nkey /\ a = low /\ a <= x /\ v < x
  BY DEF Stands
<1>2. VisitOf(n, v) = LeftCopy(n, v)
  BY <1>1 DEF VisitOf, Selects
<1>. DEFINE C == Crossing(a, x) \cap gone
            F == Within(a, Ending(x), v)
<1>3. C \in SUBSET Event
  OBVIOUS
<1>4. Holds(n.nsa, all, C) /\ Ordered(n.nsa)
  BY <1>1 DEF Stands, Sides
<1>5. Holds(LeftCopy(n, v), all, C \cap Started(v))
  <2>. HIDE DEF C
  <2>. QED
    BY <1>3, <1>4, CopyStartHolds DEF LeftCopy
<1>6. ASSUME NEW e \in Event
      PROVE  /\ ~(e \in C /\ e \in F)
             /\ e \in Within(a, gone, v) <=> e \in C \cap Started(v) \/ e \in F
  <2>1. PICK b \in Int, d \in Int : b = e.start /\ d = e.end
    BY EventTimes
  <2>2. e \in Within(a, gone, v) <=> e \in gone /\ a <= b /\ b <= v /\ v <= d
    BY <2>1 DEF Within, ActiveAt
  <2>3. e \in C <=> e \in gone /\ a <= b /\ b < x /\ x <= d
    BY <2>1 DEF Crossing
  <2>4. e \in Started(v) <=> b <= v
    BY <2>1 DEF Started
  <2>5. e \in F <=> d < x /\ a <= b /\ b <= v /\ v <= d
    BY <2>1 DEF Within, ActiveAt, Ending
  <2>6. d < x => e \in gone
    BY <1>1, <2>1 DEF Ending
  <2>. HIDE DEF C, F
  <2>. QED
    BY <1>1, <2>2, <2>3, <2>4, <2>5, <2>6
<1>7. F \in SUBSET Event /\ Within(a, gone, v) \in SUBSET Event
  BY DEF Within, Ending
<1>. HIDE DEF C, F
<1>8. (C \cap Started(v)) \cap F = {} /\ (C \cap Started(v)) \cup F = Within(a, gone, v)
  BY <1>3, <1>6, <1>7
<1>9. Holds(s, all, F)
  BY <1>1 DEF F
<1>10. Holds(LeftCopy(n, v) \o s, all, (C \cap Started(v)) \cup F)
  BY <1>5, <1>8, <1>9, HoldsBoth
<1>. QED
  BY <1>1, <1>2, <1>8, <1>10

\* To the right of a node remain the events that start after its data key.
LEMMA RightHolds ==
  ASSUME NEW n, NEW all, Len(all) \in Nat, NEW low, NEW gone \in SUBSET Event, Stands(n, all, low, gone),
         NEW v \in Int, n.dkey < v, NEW s, Holds(s, all, Within(n.dkey + 1, gone, v))
  PROVE  Holds(RightCopy(n, v) \o s, all, Within(low, gone, v)) /\ VisitOf(n, v) = RightCopy(n, v)
<1>1. PICK x \in Int, y \in Int, a \in Int :
        x = n.nkey /\ y = n.dkey /\ a = low /\ a <= x /\ x <= y /\ y < v
  BY DEF Stands
<1>2. VisitOf(n, v) = RightCopy(n, v)
  <2>1. ~(v < n.nkey) /\ ~(v <= n.dkey)
    BY <1>1
  <2>. QED
    BY <2>1 DEF VisitOf, Selects
<1>. DEFINE C == Crossing(a, x) \cap gone
            D == Starting(y) \cap gone
            F == Within(y + 1, gone, v)
<1>3. C \in SUBSET Event /\ D \in SUBSET Event
  OBVIOUS
<1>4. Sides(n, all, C, D)
  BY <1>1 DEF Stands
<1>5. Holds(CopyEndDec(n.ned, v, 0), all, C \cap Lasting(v))
  <2>1. Holds(n.ned, all, C) /\ EndsDescend(n.ned)
    BY <1>4 DEF Sides
  <2>. HIDE DEF C
  <2>. QED
    BY <1>3, <2>1, CopyEndHolds
<1>6. Holds(CopyEndDec(n.ded, v, 0), all, D \cap Lasting(v))
  <2>1. Holds(n.ded, all, D) /\ EndsDescend(n.ded)
    BY <1>4 DEF Sides
  <2>. HIDE DEF D
  <2>. QED
    BY <1>3, <2>1, CopyEndHolds
<1>7. ASSUME NEW e \in Event
      PROVE  /\ ~(e \in C /\ e \in D) /\ ~(e \in C /\ e \in F) /\ ~(e \in D /\ e \in F)
             /\ e \in Within(a, gone, v) /\ Occurrences(all, e) # 0
                  => e \in D \cap Lasting(v) \/ e \in C \cap Lasting(v) \/ e \in F
             /\ e \in D \cap Lasting(v) \/ e \in C \cap Lasting(v) \/ e \in F => e \in Within(a, gone, v)
  <2>1. PICK b \in Int, d \in Int : b = e.start /\ d = e.end
    BY EventTimes
  <2>2. Occurrences(all, e) # 0 /\ x <= b /\ b <= y => b = y
    BY <1>1, <2>1 DEF Stands
  <2>3. e \in Within(a, gone, v) <=> e \in gone /\ a <= b /\ b <= v /\ v <= d
    BY <2>1 DEF Within, ActiveAt
  <2>4. e \in C <=> e \in gone /\ a <= b /\ b < x /\ x <= d
    BY <2>1 DEF Crossing
  <2>5. e \in D <=> e \in gone /\ b = y
    BY <2>1 DEF Starting
  <2>6. e \in Lasting(v) <=> v <= d
    BY <2>1 DEF Lasting
  <2>7. e \in F <=> e \in gone /\ y + 1 <= b /\ b <= v /\ v <= d
    BY <2>1 DEF Within, ActiveAt
  <2>. HIDE DEF C, D, F
  <2>8. ~(e \in C /\ e \in D) /\ ~(e \in C /\ e \in F) /\ ~(e \in D /\ e \in F)
    BY <1>1, <2>4, <2>5, <2>7
  <2>9. ASSUME e \in Within(a, gone, v), Occurrences(all, e) # 0
        PROVE  e \in D \cap Lasting(v) \/ e \in C \cap Lasting(v) \/ e \in F
    <3>1. CASE b < x
      BY <1>1, <2>3, <2>4, <2>6, <2>9, <3>1
    <3>2. CASE x <= b /\ b <= y
      BY <1>1, <2>2, <2>3, <2>5, <2>6, <2>9, <3>2
    <3>3. CASE y < b
      BY <1>1, <2>3, <2>7, <2>9, <3>3
    <3>. QED
      BY <3>1, <3>2, <3>3
  <2>10. e \in D \cap Lasting(v) \/ e \in C \cap Lasting(v) \/ e \in F => e \in Within(a, gone, v)
    BY <1>1, <2>3, <2>4, <2>5, <2>6, <2>7
  <2>. QED
    BY <2>8, <2>9, <2>10
<1>8. F \in SUBSET Event
  BY DEF Within
<1>9. Holds(s, all, F)
  BY <1>1
<1>. HIDE DEF C, D, F
<1>10. (D \cap Lasting(v)) \cap (C \cap Lasting(v)) = {}
  BY <1>3, <1>7
<1>11. Holds(RightCopy(n, v), all, (D \cap Lasting(v)) \cup (C \cap Lasting(v)))
  BY <1>5, <1>6, <1>10, HoldsBoth DEF RightCopy
<1>. DEFINE E == (D \cap Lasting(v)) \cup (C \cap Lasting(v))
<1>12. E \cap F = {}
  BY <1>3, <1>7, <1>8
<1>13. Holds(RightCopy(n, v), all, E)
  BY <1>11
<1>14. \A e \in Event : e \in E <=> e \in D \cap Lasting(v) \/ e \in C \cap Lasting(v)
  OBVIOUS
<1>. HIDE DEF E
<1>15. Holds(RightCopy(n, v) \o s, all, E \cup F)
  BY <1>9, <1>12, <1>13, HoldsBoth
<1>16. Holds(RightCopy(n, v) \o s, all, Within(a, gone, v))
  BY <1>7, <1>14, <1>15, HoldsSame
<1>. QED
  BY <1>1, <1>2, <1>16

\* What a node gives are events.
LEMMA VisitTyped ==
  ASSUME NEW n, NEW all, Len(all) \in Nat, NEW low, NEW gone \in SUBSET Event, Stands(n, all, low, gone),
         NEW v \in Int
  PROVE  VisitOf(n, v) \in Seq(Event)
<1>1. PICK C \in SUBSET Event, D \in SUBSET Event : Sides(n, all, C, D)
  BY DEF Stands
<1>2. n.nkey \in Int /\ n.dkey \in Int
  BY DEF Stands
<1>3. /\ Holds(n.nsa, all, C) /\ Ordered(n.nsa) /\ Holds(n.ned, all, C) /\ EndsDescend(n.ned)
      /\ Holds(n.ded, all, D) /\ EndsDescend(n.ded)
  BY <1>1 DEF Sides
<1>4. LeftCopy(n, v) \in Seq(Event)
  <2>1. Holds(CopyStartAsc(n.nsa, 1, v, 0).out, all, C \cap Started(v))
    BY <1>3, CopyStartHolds
  <2>. QED
    BY <2>1 DEF LeftCopy, Holds
<1>5. CopyEndDec(n.ded, v, 0) \in Seq(Event) /\ CopyEndDec(n.ned, v, 0) \in Seq(Event)
  <2>1. Holds(CopyEndDec(n.ded, v, 0), all, D \cap Lasting(v)) /\ Holds(CopyEndDec(n.ned, v, 0), all, C \cap Lasting(v))
    BY <1>3, CopyEndHolds
  <2>. QED
    BY <2>1 DEF Holds
<1>6. \A a, b \in Seq(Event) : a \o b \in Seq(Event)
  OBVIOUS
<1>7. RightCopy(n, v) \in Seq(Event) /\ SelectCopy(n, v) \in Seq(Event)
  <2>1. <<>> \in Seq(Event)
    OBVIOUS
  <2>2. (IF v = n.dkey THEN CopyEndDec(n.ded, v, 0) ELSE <<>>) \in Seq(Event)
    BY <1>5, <2>1
  <2>. QED
    BY <1>5, <1>6, <2>2 DEF RightCopy, SelectCopy
<1>8. VisitOf(n, v) \in {LeftCopy(n, v), RightCopy(n, v), SelectCopy(n, v)}
  BY DEF VisitOf
<1>. QED
  BY <1>4, <1>7, <1>8

---------------------------------------------------------------------------------
(* What is left to find at each pointer that a search follows. *)

\* Below a pointer are the nodes whose intervals make up low..last, and in their lists the
\* events in gone that start from low on.
Place(f, p, low, gone, last) ==
  \/ \E j \in Settled(f) :
       LET w == Leaves[f.nodes[j].height] - 1
       IN /\ p = Tree(j) /\ j - w \in 1..Len(f.nodes) /\ j + w \in 1..Len(f.nodes)
          /\ low = f.nodes[j - w].nkey /\ last = f.nodes[j + w].dkey
          /\ gone = Ending(f.nodes[j + w].dkey + 1)
  \/ \E i \in 1..Len(f.index) :
       /\ p = Point(i)
       /\ low = f.nodes[Under(f, i - 1) + 1].nkey /\ last = f.nodes[Len(f.nodes)].dkey
       /\ gone = Event

\* The node there has lists of such events.
LEMMA PlaceStands ==
  ASSUME NEW f, Shape(f), ListsHold(f), CutOK(f), f.tail \in 1..(Len(f.events) + 1),
         NEW p, NEW low, NEW gone, NEW last, Place(f, p, low, gone, last)
  PROVE  /\ p \in Pointers(f) /\ p # Null /\ gone \in SUBSET Event
         /\ Stands(Node(f, p), Indexed(f), low, gone)
<1>1. PICK n \in Nat, m \in Nat : n = Len(f.nodes) /\ m = Len(f.index)
  <2>1. Len(f.nodes) \in Nat /\ Len(f.index) \in Nat
    BY UnderNat
  <2>. QED
    BY <2>1
<1>2. CASE \E j \in Settled(f) :
             LET w == Leaves[f.nodes[j].height] - 1
             IN /\ p = Tree(j) /\ j - w \in 1..Len(f.nodes) /\ j + w \in 1..Len(f.nodes)
                /\ low = f.nodes[j - w].nkey /\ last = f.nodes[j + w].dkey
                /\ gone = Ending(f.nodes[j + w].dkey + 1)
  <2>1. PICK j \in Settled(f), w \in Nat :
          /\ w = Leaves[f.nodes[j].height] - 1
          /\ p = Tree(j) /\ j - w \in 1..n /\ j + w \in 1..n
          /\ low = f.nodes[j - w].nkey /\ last = f.nodes[j + w].dkey
          /\ gone = Ending(f.nodes[j + w].dkey + 1)
    <3>1. PICK j \in Settled(f) :
            LET w == Leaves[f.nodes[j].height] - 1
            IN /\ p = Tree(j) /\ j - w \in 1..Len(f.nodes) /\ j + w \in 1..Len(f.nodes)
               /\ low = f.nodes[j - w].nkey /\ last = f.nodes[j + w].dkey
               /\ gone = Ending(f.nodes[j + w].dkey + 1)
      BY <1>2
    <3>2. Leaves[f.nodes[j].height] - 1 \in Nat
      BY SettledReach
    <3>. QED
      BY <1>1, <3>1, <3>2
  <2>2. j \in 1..n /\ Node(f, p) = f.nodes[j] /\ p \in Pointers(f) /\ p # Null
    <3>1. j \in 1..n
      BY <1>1 DEF Settled
    <3>. QED
      BY <1>1, <2>1, <3>1, PointerFacts DEF Pointers, Node, Tree
  <2>3. NodeHolds(f, j)
    BY <1>1, <2>2 DEF ListsHold
  <2>4. Sides(f.nodes[j], Indexed(f), Crossing(low, f.nodes[j].nkey) \cap gone,
              Starting(f.nodes[j].dkey) \cap gone)
    BY <2>1, <2>3 DEF NodeHolds
  <2>5. PICK i \in 1..n : i = j - w /\ i <= j
    <3>1. j - w \in 1..n
      BY <1>1, <2>1
    <3>2. j - w <= j
      BY <2>1, <2>2
    <3>. QED
      BY <3>1, <3>2
  <2>6. /\ low \in Int /\ f.nodes[j].nkey \in Int /\ f.nodes[j].dkey \in Int
        /\ low <= f.nodes[j].nkey /\ f.nodes[j].nkey <= f.nodes[j].dkey
    <3>1. j <= j
      BY <2>2
    <3>. QED
      BY <1>1, <2>1, <2>2, <2>5, <3>1, KeysUp
  <2>7. gone \in SUBSET Event
    BY <2>1 DEF Ending
  <2>8. \A e \in Event : Occurrences(Indexed(f), e) # 0 /\ f.nodes[j].nkey <= e.start
                           /\ e.start <= f.nodes[j].dkey => e.start = f.nodes[j].dkey
    BY <1>1, <2>2, NoneBetween
  <2>. QED
    BY <2>2, <2>4, <2>6, <2>7, <2>8 DEF Stands
<1>3. CASE \E i \in 1..Len(f.index) :
             /\ p = Point(i)
             /\ low = f.nodes[Under(f, i - 1) + 1].nkey /\ last = f.nodes[Len(f.nodes)].dkey
             /\ gone = Event
  <2>1. PICK i \in 1..m : p = Point(i) /\ low = f.nodes[Under(f, i - 1) + 1].nkey /\ gone = Event
    BY <1>1, <1>3
  <2>2. Node(f, p) = f.index[i] /\ p \in Pointers(f) /\ p # Null
    BY <1>1, <2>1, PointerFacts DEF Pointers, Node, Point
  <2>3. PICK t \in 1..n, u \in 1..n :
          /\ t = f.index[i].replacement /\ u = Under(f, i - 1) + 1 /\ u <= t
          /\ f.index[i].nkey = f.nodes[t].nkey /\ f.index[i].dkey = f.nodes[t].dkey
    <3>1. /\ f.index[i].replacement \in 1..n
          /\ f.index[i].nkey = f.nodes[f.index[i].replacement].nkey
          /\ f.index[i].dkey = f.nodes[f.index[i].replacement].dkey
      BY <1>1 DEF Shape, PointOK
    <3>2. PICK k \in Nat, a \in Int, b \in Int : k = Leaves[f.index[i].height] /\ k > 0 /\ a = Under(f, i - 1)
                                 /\ b = f.index[i].replacement
      <4>1. f.index[i].height \in Nat /\ i - 1 \in 0..m
        BY <1>1, UnderNat
      <4>2. Under(f, i - 1) \in Int
        BY <1>1, <4>1, UnderNat
      <4>3. Leaves[f.index[i].height] \in Nat /\ Leaves[f.index[i].height] > 0
        BY <4>1, LeavesDouble
      <4>. QED
        BY <3>1, <4>2, <4>3
    <3>3. b = a + k
      BY <1>1, <3>2, UnderNat DEF Shape, Counted
    <3>4. a + 1 \in 1..n
      BY <1>1, <3>2, UnderNext
    <3>5. a + 1 <= b
      BY <3>2, <3>3
    <3>. QED
      BY <3>1, <3>2, <3>4, <3>5
  <2>4. PointHolds(f, i)
    BY <1>1 DEF ListsHold
  <2>5. Sides(f.index[i], Indexed(f), Crossing(low, f.index[i].nkey), Starting(f.index[i].dkey))
    BY <2>1, <2>4 DEF PointHolds
  <2>6. /\ Crossing(low, f.index[i].nkey) \cap gone = Crossing(low, f.index[i].nkey)
        /\ Starting(f.index[i].dkey) \cap gone = Starting(f.index[i].dkey)
    BY <2>1 DEF Crossing, Starting
  <2>7. /\ low \in Int /\ f.index[i].nkey \in Int /\ f.index[i].dkey \in Int
        /\ low <= f.index[i].nkey /\ f.index[i].nkey <= f.index[i].dkey
    <3>1. t <= t
      BY <2>3
    <3>. QED
      BY <1>1, <2>1, <2>3, <3>1, KeysUp
  <2>8. \A e \in Event : Occurrences(Indexed(f), e) # 0 /\ f.index[i].nkey <= e.start
                           /\ e.start <= f.index[i].dkey => e.start = f.index[i].dkey
    BY <1>1, <2>3, NoneBetween
  <2>. QED
    BY <2>1, <2>2, <2>5, <2>6, <2>7, <2>8 DEF Stands
<1>. QED
  BY <1>2, <1>3 DEF Place

\* Half of what a node of some height stands over.
LEMMA HalfLeaves ==
  ASSUME NEW h \in Nat, h > 0
  PROVE  h - 1 \in Nat /\ Leaves[h - 1] \in Nat /\ Leaves[h - 1] > 0 /\ Leaves[h] = 2 * Leaves[h - 1]
<1>1. PICK g \in Nat : g = h - 1 /\ g + 1 = h
  OBVIOUS
<1>2. Leaves[g] \in Nat /\ Leaves[g] > 0 /\ Leaves[g + 1] = 2 * Leaves[g]
  BY LeavesDouble
<1>. QED
  BY <1>1, <1>2

\* What ends before a key ends before those behind it.
LEMMA EndingMore ==
  ASSUME NEW y \in Int, NEW z \in Int, y <= z
  PROVE  Ending(y) \subseteq Ending(z + 1)
<1>1. ASSUME NEW e \in Event, e.end < y PROVE e.end < z + 1
  BY <1>1, EventTimes
<1>. QED
  BY <1>1 DEF Ending

\* A navigation key is at most the data keys from its node on.
LEMMA KeysReach ==
  ASSUME NEW f, Shape(f), NEW i \in 1..Len(f.nodes), NEW j \in 1..Len(f.nodes), i <= j
  PROVE  f.nodes[i].nkey \in Int /\ f.nodes[j].dkey \in Int /\ f.nodes[i].nkey <= f.nodes[j].dkey
<1>1. /\ f.nodes[i].nkey \in Int /\ f.nodes[j].nkey \in Int /\ f.nodes[j].dkey \in Int
      /\ f.nodes[i].nkey <= f.nodes[j].nkey
  BY KeysUp
<1>2. f.nodes[j].nkey <= f.nodes[j].dkey
  <2>1. j <= j
    BY UnderNat
  <2>. QED
    BY <2>1, KeysUp
<1>. QED
  BY <1>1, <1>2

\* Where a search goes from node n: to the left for what ends before its navigation key, to
\* the right for what starts after its data key.
GoesOn(f, n, v, low, gone, last) ==
  /\ v < n.nkey => \E x : /\ Place(f, n.left, low, Ending(n.nkey), x)
                          /\ v <= x /\ Ending(n.nkey) \subseteq gone
  /\ n.dkey < v => Place(f, n.right, n.dkey + 1, gone, last)

\* A search that goes on from a node of a tree ...
LEMMA TreeGoesOn ==
  ASSUME NEW f, Shape(f), NEW j \in Settled(f), NEW v \in Int,
         NEW w \in Nat, w = Leaves[f.nodes[j].height] - 1, j - w \in 1..Len(f.nodes), j + w \in 1..Len(f.nodes),
         NEW low, low = f.nodes[j - w].nkey, NEW last, last = f.nodes[j + w].dkey,
         NEW gone, gone = Ending(f.nodes[j + w].dkey + 1), low <= v, v <= last
  PROVE  GoesOn(f, f.nodes[j], v, low, gone, last)
<1>1. PICK n \in Nat : n = Len(f.nodes) /\ j \in 1..n
  BY UnderNat DEF Settled
<1>2. PICK h \in Nat, k \in Nat : h = f.nodes[j].height /\ k = Leaves[h] /\ k > 0 /\ w = k - 1
  <2>1. f.nodes[j].height \in Nat
    BY <1>1, Keys
  <2>2. Leaves[f.nodes[j].height] \in Nat /\ Leaves[f.nodes[j].height] > 0
    BY <2>1, LeavesDouble
  <2>. QED
    BY <2>1, <2>2
<1>3. SUFFICES ASSUME v < f.nodes[j].nkey \/ f.nodes[j].dkey < v
               PROVE  GoesOn(f, f.nodes[j], v, low, gone, last)
  BY DEF GoesOn
<1>4. h > 0
  <2>1. CASE h = 0
    <3>1. j - w = j /\ j + w = j
      <4>1. k = 1
        BY <1>2, <2>1, LeavesDouble
      <4>2. w = 0
        BY <1>2, <4>1
      <4>. QED
        BY <1>1, <4>2
    <3>2. f.nodes[j].nkey \in Int /\ f.nodes[j].dkey \in Int
      BY <1>1, Keys
    <3>3. low = f.nodes[j].nkey /\ last = f.nodes[j].dkey
      BY <3>1
    <3>4. ~(v < f.nodes[j].nkey) /\ ~(f.nodes[j].dkey < v)
      BY <3>2, <3>3
    <3>. QED
      BY <1>3, <3>4
  <2>. QED
    BY <2>1
<1>5. PICK d \in Nat : d = Leaves[h - 1] /\ d > 0 /\ k = 2 * d /\ w = 2 * d - 1
  BY <1>2, <1>4, HalfLeaves
<1>6. PICK i \in 1..Len(f.index), lo \in 0..n, hi \in 0..n :
        lo = Under(f, i - 1) /\ hi = Under(f, i) /\ lo < j /\ j <= hi
  <2>1. PICK m \in Nat : m = Len(f.index)
    BY UnderNat
  <2>2. PICK i \in 1..m : Under(f, i - 1) < j /\ j <= Under(f, i)
    BY <1>1, <2>1, Covered
  <2>3. i - 1 \in 0..m /\ i \in 0..m
    OBVIOUS
  <2>4. Under(f, i - 1) \in 0..n /\ Under(f, i) \in 0..n
    BY <1>1, <2>1, <2>3, UnderNat
  <2>. QED
    BY <2>1, <2>2, <2>4
<1>7. j < hi
  <2>1. ASSUME j = hi PROVE FALSE
    <3>1. j = f.index[i].replacement /\ i \in 1..Len(f.index)
      BY <1>6, <2>1, UnderNat
    <3>. QED
      BY <3>1 DEF Settled
  <2>2. j \in Int /\ hi \in Int /\ j <= hi /\ j # hi
    BY <1>1, <1>6, <2>1
  <2>. QED
    BY <2>2
<1>8. TreeNodeOK(f.nodes, lo, j, hi, f.index[i].height)
  <2>1. j \in Nat
    BY <1>1
  <2>. QED
    BY <1>6, <1>7, <2>1 DEF Shape, TreesOK
<1>9. /\ f.nodes[j].left = Tree(j - d) /\ f.nodes[j].right = Tree(j + d)
      /\ f.nodes[j - d].height = h - 1 /\ f.nodes[j + d].height = h - 1
  <2>1. /\ f.nodes[j].left = LeftOf(j, h) /\ f.nodes[j].right = RightOf(j, h)
        /\ f.nodes[j - Leaves[h - 1]].height = h - 1 /\ f.nodes[j + Leaves[h - 1]].height = h - 1
    BY <1>2, <1>4, <1>8 DEF TreeNodeOK
  <2>2. h # 0 /\ d = Leaves[h - 1]
    BY <1>4, <1>5
  <2>. QED
    BY <2>1, <2>2 DEF LeftOf, RightOf
<1>10. /\ j - d \in 1..n /\ (j - d) - (d - 1) = j - w /\ (j - d) + (d - 1) = j - 1
       /\ j + d \in 1..n /\ (j + d) - (d - 1) = j + 1 /\ (j + d) + (d - 1) = j + w
       /\ j - 1 \in 1..n /\ j + 1 \in 1..n /\ (j - 1) + 1 = j
  <2>1. ASSUME NEW N \in Nat, NEW J \in 1..N, NEW W \in Nat, NEW D \in Nat, D > 0, W = 2 * D - 1,
               J - W \in 1..N, J + W \in 1..N
        PROVE  /\ J - D \in 1..N /\ (J - D) - (D - 1) = J - W /\ (J - D) + (D - 1) = J - 1
               /\ J + D \in 1..N /\ (J + D) - (D - 1) = J + 1 /\ (J + D) + (D - 1) = J + W
               /\ J - 1 \in 1..N /\ J + 1 \in 1..N /\ (J - 1) + 1 = J
    BY <2>1
  <2>2. /\ j \in 1..n /\ d > 0 /\ w = 2 * d - 1 /\ j - w \in 1..n /\ j + w \in 1..n
    BY <1>1, <1>5
  <2>. QED
    BY <2>1, <2>2
<1>11. j - d \in Settled(f) /\ j + d \in Settled(f)
  <2>1. \A p \in {f.nodes[j].left, f.nodes[j].right} : p = Null \/ \E x \in Settled(f) : p = Tree(x)
    BY <1>1, NodeChildren
  <2>. QED
    BY <1>9, <2>1, PointerFacts
<1>12. Leaves[f.nodes[j - d].height] = d /\ Leaves[f.nodes[j + d].height] = d
  BY <1>5, <1>9
<1>13. PICK y \in Int : y = f.nodes[j].nkey /\ f.nodes[j - 1].dkey + 1 = y /\ f.nodes[j - 1].dkey \in Int
  <2>1. PICK x \in 1..n : x = j - 1 /\ x + 1 = j /\ x + 1 <= n
    BY <1>1, <1>10
  <2>2. f.nodes[x + 1].nkey = f.nodes[x].dkey + 1 /\ f.nodes[x].dkey \in Int /\ f.nodes[j].nkey \in Int
    BY <1>1, <2>1, Keys
  <2>. QED
    BY <2>1, <2>2
<1>14. ASSUME v < f.nodes[j].nkey
       PROVE  \E x : /\ Place(f, f.nodes[j].left, low, Ending(f.nodes[j].nkey), x)
                     /\ v <= x /\ Ending(f.nodes[j].nkey) \subseteq gone
  <2>1. Place(f, Tree(j - d), low, Ending(y), f.nodes[j - 1].dkey)
    BY <1>1, <1>10, <1>11, <1>12, <1>13 DEF Place
  <2>2. v <= f.nodes[j - 1].dkey
    <3>1. PICK z \in Int : z = f.nodes[j - 1].dkey /\ z + 1 = y
      BY <1>13
    <3>2. v < y
      BY <1>13, <1>14
    <3>3. v <= z
      <4>1. ASSUME NEW a \in Int, NEW b \in Int, NEW c \in Int, b + 1 = c, a < c PROVE a <= b
        BY <4>1
      <4>. QED
        BY <3>1, <3>2, <4>1
    <3>. QED
      BY <3>1, <3>3
  <2>3. Ending(y) \subseteq gone
    <3>1. PICK x \in 1..n : x = j + w /\ j <= x
      BY <1>1
    <3>2. f.nodes[j].nkey \in Int /\ f.nodes[x].dkey \in Int /\ f.nodes[j].nkey <= f.nodes[x].dkey
      BY <1>1, <3>1, KeysReach
    <3>3. Ending(f.nodes[j].nkey) \subseteq Ending(f.nodes[x].dkey + 1)
      BY <3>2, EndingMore
    <3>. QED
      BY <1>13, <3>1, <3>3
  <2>. QED
    BY <1>9, <1>13, <2>1, <2>2, <2>3
<1>15. ASSUME f.nodes[j].dkey < v
       PROVE  Place(f, f.nodes[j].right, f.nodes[j].dkey + 1, gone, last)
  <2>1. f.nodes[j + 1].nkey = f.nodes[j].dkey + 1
    <3>1. j \in 1..Len(f.nodes) /\ j + 1 <= Len(f.nodes)
      BY <1>1, <1>10
    <3>. QED
      BY <3>1, Keys
  <2>2. Place(f, Tree(j + d), f.nodes[j].dkey + 1, gone, last)
    BY <1>1, <1>10, <1>11, <1>12, <2>1 DEF Place
  <2>. QED
    BY <1>9, <2>2
<1>. QED
  BY <1>14, <1>15 DEF GoesOn

\* ... or from a forest-point.
LEMMA PointGoesOn ==
  ASSUME NEW f, Shape(f), Linked(f), NEW i \in 1..Len(f.index), NEW v \in Int,
         NEW low, low = f.nodes[Under(f, i - 1) + 1].nkey, low <= v, v <= f.nodes[Len(f.nodes)].dkey
  PROVE  GoesOn(f, f.index[i], v, low, Event, f.nodes[Len(f.nodes)].dkey)
<1>1. PICK n \in Nat, m \in Nat : n = Len(f.nodes) /\ m = Len(f.index)
  <2>1. Len(f.nodes) \in Nat /\ Len(f.index) \in Nat
    BY UnderNat
  <2>. QED
    BY <2>1
<1>2. PICK h \in Nat, k \in Nat : h = f.index[i].height /\ k = Leaves[h] /\ k > 0
  <2>1. f.index[i].height \in Nat
    BY <1>1, UnderNat
  <2>2. Leaves[f.index[i].height] \in Nat /\ Leaves[f.index[i].height] > 0
    BY <2>1, LeavesDouble
  <2>. QED
    BY <2>1, <2>2
<1>3. PICK t \in 1..n, u \in 0..n : t = f.index[i].replacement /\ u = Under(f, i - 1) /\ t = u + k
  <2>1. i - 1 \in 0..m /\ i \in 0..m
    BY <1>1
  <2>2. Under(f, i) = Under(f, i - 1) + k /\ Under(f, i) = f.index[i].replacement
    BY <1>1, <1>2, UnderNat DEF Shape, Counted
  <2>3. f.index[i].replacement \in 1..n /\ Under(f, i - 1) \in 0..n
    BY <1>1, <2>1, UnderNat DEF Shape, PointOK
  <2>. QED
    BY <2>2, <2>3
<1>4. /\ f.index[i].nkey = f.nodes[t].nkey /\ f.index[i].dkey = f.nodes[t].dkey
      /\ f.index[i].left = LeftOf(t, h)
      /\ h > 0 => f.nodes[t - Leaves[h - 1]].height = h - 1
  BY <1>1, <1>2, <1>3 DEF Shape, PointOK
<1>5. PICK x \in Int, y \in Int : x = f.nodes[t].nkey /\ y = f.nodes[t].dkey
  BY <1>1, Keys
<1>6. ASSUME v < x
      PROVE  \E z : Place(f, f.index[i].left, low, Ending(x), z) /\ v <= z
  <2>1. h > 0
    <3>1. CASE h = 0
      <4>1. k = 1
        BY <1>2, <3>1, LeavesDouble
      <4>2. u + 1 = t
        BY <1>3, <4>1
      <4>3. low = x
        BY <1>3, <1>5, <4>2
      <4>. QED
        BY <1>5, <1>6, <4>3
    <3>. QED
      BY <3>1
  <2>2. PICK d \in Nat : d = Leaves[h - 1] /\ d > 0 /\ k = 2 * d /\ t = u + 2 * d
    BY <1>2, <1>3, <2>1, HalfLeaves
  <2>3. /\ t - d \in 1..n /\ (t - d) - (d - 1) = u + 1 /\ (t - d) + (d - 1) = t - 1
        /\ t - 1 \in 1..n /\ (t - 1) + 1 = t /\ u + 1 \in 1..n
    <3>1. ASSUME NEW N \in Nat, NEW T \in 1..N, NEW U \in 0..N, NEW D \in Nat, D > 0, T = U + 2 * D
          PROVE  /\ T - D \in 1..N /\ (T - D) - (D - 1) = U + 1 /\ (T - D) + (D - 1) = T - 1
                 /\ T - 1 \in 1..N /\ (T - 1) + 1 = T /\ U + 1 \in 1..N
      BY <3>1
    <3>2. d > 0 /\ t = u + 2 * d
      BY <2>2
    <3>. QED
      BY <3>1, <3>2
  <2>4. f.index[i].left = Tree(t - d) /\ Leaves[f.nodes[t - d].height] = d
    <3>1. h # 0 /\ d = Leaves[h - 1]
      BY <2>1, <2>2
    <3>2. f.nodes[t - Leaves[h - 1]].height = h - 1
      BY <1>4, <2>1
    <3>. QED
      BY <1>4, <3>1, <3>2 DEF LeftOf
  <2>5. t - d \in Settled(f)
    <3>1. f.index[i].left = Null \/ \E z \in Settled(f) : f.index[i].left = Tree(z)
      BY PointLeft
    <3>. QED
      BY <2>4, <3>1, PointerFacts
  <2>6. PICK z \in Int : z = f.nodes[t - 1].dkey /\ x = z + 1
    <3>1. PICK r \in 1..n : r = t - 1 /\ r + 1 = t /\ r + 1 <= n
      BY <2>3
    <3>2. f.nodes[r + 1].nkey = f.nodes[r].dkey + 1 /\ f.nodes[r].dkey \in Int
      BY <1>1, <3>1, Keys
    <3>. QED
      BY <1>5, <3>1, <3>2
  <2>7. Place(f, Tree(t - d), low, Ending(x), z)
    BY <1>1, <1>3, <2>3, <2>4, <2>5, <2>6 DEF Place
  <2>8. v <= z
    BY <1>6, <2>6
  <2>. QED
    BY <2>4, <2>7, <2>8
<1>7. ASSUME y < v
      PROVE  Place(f, f.index[i].right, y + 1, Event, f.nodes[Len(f.nodes)].dkey)
  <2>1. i # m
    <3>1. ASSUME i = m PROVE FALSE
      <4>1. t = n
        BY <1>1, <1>3, <3>1, UnderNat DEF Shape, Counted
      <4>. QED
        BY <1>1, <1>5, <1>7, <4>1
    <3>. QED
      BY <3>1
  <2>2. i \in 1..(m - 1) /\ i + 1 \in 1..m /\ (i + 1) - 1 = i
    BY <1>1, <2>1
  <2>3. f.index[i].right = Point(i + 1)
    BY <1>1, <2>2 DEF Linked
  <2>4. Under(f, (i + 1) - 1) = t
    BY <1>1, <1>3, <2>2, UnderNat
  <2>5. t + 1 <= n
    <3>1. i < i + 1 /\ i \in 1..Len(f.index) /\ i + 1 \in 1..Len(f.index)
      BY <1>1, <2>2
    <3>2. f.index[i].replacement < f.index[i + 1].replacement
      BY <3>1 DEF Shape, Counted
    <3>3. f.index[i + 1].replacement \in 1..n
      BY <1>1, <3>1 DEF Shape, PointOK
    <3>. QED
      BY <1>3, <3>2, <3>3
  <2>6. f.nodes[t + 1].nkey = y + 1
    BY <1>1, <1>5, <2>5, Keys
  <2>. QED
    BY <1>1, <2>2, <2>3, <2>4, <2>6 DEF Place
<1>8. Ending(x) \subseteq Event
  BY DEF Ending
<1>. QED
  BY <1>4, <1>5, <1>6, <1>7, <1>8 DEF GoesOn

\* From a place the search goes on to a place.
LEMMA PlaceGoesOn ==
  ASSUME NEW f, Shape(f), Linked(f), NEW v \in Int,
         NEW p, NEW low, NEW gone, NEW last, Place(f, p, low, gone, last), low <= v, v <= last,
         NEW n, n = Node(f, p)
  PROVE  GoesOn(f, n, v, low, gone, last)
<1>1. CASE \E j \in Settled(f) :
             LET w == Leaves[f.nodes[j].height] - 1
             IN /\ p = Tree(j) /\ j - w \in 1..Len(f.nodes) /\ j + w \in 1..Len(f.nodes)
                /\ low = f.nodes[j - w].nkey /\ last = f.nodes[j + w].dkey
                /\ gone = Ending(f.nodes[j + w].dkey + 1)
  <2>1. PICK j \in Settled(f) :
          LET w == Leaves[f.nodes[j].height] - 1
          IN /\ p = Tree(j) /\ j - w \in 1..Len(f.nodes) /\ j + w \in 1..Len(f.nodes)
             /\ low = f.nodes[j - w].nkey /\ last = f.nodes[j + w].dkey
             /\ gone = Ending(f.nodes[j + w].dkey + 1)
    BY <1>1
  <2>2. PICK w \in Nat : w = Leaves[f.nodes[j].height] - 1
    BY SettledReach
  <2>3. n = f.nodes[j]
    BY <2>1 DEF Node, Tree
  <2>4. /\ j - w \in 1..Len(f.nodes) /\ j + w \in 1..Len(f.nodes)
        /\ low = f.nodes[j - w].nkey /\ last = f.nodes[j + w].dkey
        /\ gone = Ending(f.nodes[j + w].dkey + 1)
    BY <2>1, <2>2
  <2>5. GoesOn(f, f.nodes[j], v, low, gone, last)
    BY <2>2, <2>4, TreeGoesOn
  <2>. QED
    BY <2>3, <2>5
<1>2. CASE \E i \in 1..Len(f.index) :
             /\ p = Point(i)
             /\ low = f.nodes[Under(f, i - 1) + 1].nkey /\ last = f.nodes[Len(f.nodes)].dkey
             /\ gone = Event
  <2>1. PICK i \in 1..Len(f.index) :
          /\ p = Point(i)
          /\ low = f.nodes[Under(f, i - 1) + 1].nkey /\ last = f.nodes[Len(f.nodes)].dkey
          /\ gone = Event
    BY <1>2
  <2>2. n = f.index[i]
    BY <2>1 DEF Node, Point
  <2>3. GoesOn(f, f.index[i], v, low, Event, f.nodes[Len(f.nodes)].dkey)
    BY <2>1, PointGoesOn
  <2>. QED
    BY <2>1, <2>2, <2>3
<1>. QED
  BY <1>1, <1>2 DEF Place

---------------------------------------------------------------------------------
(* What a search copies on its way down. *)

\* The lists copied at the pointers of a path.
Visits(f, v, s) == [i \in DOMAIN s |-> VisitOf(Node(f, s[i]), v)]

\* A path, not empty, and what is copied along it.
Walk(f, v, s, a) ==
  /\ s \in Seq(Pointers(f)) /\ s # <<>>
  /\ a = Visits(f, v, s) /\ a \in Seq(Seq(Event)) /\ Len(a) = Len(s)

\* The first pointer of a path apart.
LEMMA VisitsCons ==
  ASSUME NEW f, NEW v, NEW p \in Pointers(f), NEW s, NEW a, Walk(f, v, s, a),
         NEW x \in Seq(Event), x = VisitOf(Node(f, p), v)
  PROVE  Walk(f, v, <<p>> \o s, <<x>> \o a)
<1>0. s \in Seq(Pointers(f)) /\ a \in Seq(Seq(Event)) /\ a = Visits(f, v, s)
  BY DEF Walk
<1>2. PICK t : t = <<p>> \o s
  OBVIOUS
<1>1. PICK n \in Nat : n = Len(s) /\ DOMAIN s = 1..n
  BY <1>0
<1>3. Len(a) = n /\ DOMAIN a = 1..n /\ \A i \in 1..n : a[i] = VisitOf(Node(f, s[i]), v)
  <2>1. DOMAIN a = 1..n
    BY <1>0, <1>1 DEF Visits
  <2>2. Len(a) = n
    BY <1>0, <2>1
  <2>. QED
    BY <1>0, <1>1, <2>1, <2>2 DEF Visits
<1>5. /\ t \in Seq(Pointers(f)) /\ t # <<>>
      /\ Len(t) = n + 1 /\ DOMAIN t = 1..(n + 1) /\ t[1] = p /\ \A i \in 1..n : t[i + 1] = s[i]
  BY <1>0, <1>1, <1>2, ConsFacts
<1>7. PICK b : b = <<x>> \o a
  OBVIOUS
<1>8. b \in Seq(Seq(Event)) /\ Len(b) = n + 1 /\ DOMAIN b = 1..(n + 1) /\ b[1] = x
  BY <1>0, <1>3, <1>7, ConsFacts
<1>10. \A i \in 1..n : b[i + 1] = a[i]
  BY <1>0, <1>3, <1>7, ConsFacts
<1>11. PICK c : c = Visits(f, v, t)
  OBVIOUS
<1>12. c = [i \in 1..(n + 1) |-> VisitOf(Node(f, t[i]), v)]
  BY <1>5, <1>11 DEF Visits
<1>13. ASSUME NEW i \in 1..(n + 1) PROVE c[i] = b[i]
  <2>1. CASE i = 1
    BY <1>5, <1>8, <1>12, <2>1
  <2>2. CASE i # 1
    <3>1. PICK k \in 1..n : k = i - 1 /\ i = k + 1
      BY <2>2
    <3>2. c[i] = VisitOf(Node(f, s[k]), v)
      BY <1>5, <1>12, <3>1
    <3>. QED
      BY <1>3, <1>10, <3>1, <3>2
  <2>. QED
    BY <2>1, <2>2
<1>14. c = b
  <2>1. b = [i \in 1..(n + 1) |-> b[i]]
    BY <1>8
  <2>2. c = [i \in 1..(n + 1) |-> c[i]]
    BY <1>12
  <2>. QED
    BY <1>13, <2>1, <2>2
<1>. QED
  BY <1>2, <1>5, <1>7, <1>8, <1>11, <1>14 DEF Walk

\* One pointer.
LEMMA VisitsOne ==
  ASSUME NEW f, NEW v, NEW p \in Pointers(f), NEW x \in Seq(Event), x = VisitOf(Node(f, p), v)
  PROVE  Walk(f, v, <<p>>, <<x>>)
<1>1. PICK t \in Seq(Pointers(f)) : t = <<p>> /\ Len(t) = 1 /\ DOMAIN t = 1..1 /\ t[1] = p /\ t # <<>>
  <2>1. <<>> \in Seq(Pointers(f))
    OBVIOUS
  <2>. QED
    BY <2>1, ConsFacts
<1>2. Visits(f, v, t) = [i \in 1..1 |-> x]
  <2>1. \A i \in 1..1 : t[i] = p
    BY <1>1
  <2>. QED
    BY <1>1, <2>1 DEF Visits
<1>3. PICK a \in Seq(Seq(Event)) : a = <<x>> /\ Len(a) = 1 /\ a = [i \in 1..1 |-> x]
  <2>1. <<>> \in Seq(Seq(Event))
    OBVIOUS
  <2>2. <<x>> \in Seq(Seq(Event)) /\ Len(<<x>>) = 1 /\ DOMAIN <<x>> = 1..1 /\ <<x>>[1] = x
    BY <2>1, ConsFacts
  <2>3. PICK a \in Seq(Seq(Event)) : a = <<x>> /\ Len(a) = 1 /\ DOMAIN a = 1..1 /\ a[1] = x
    BY <2>2
  <2>4. a = [i \in 1..1 |-> a[i]] /\ \A i \in 1..1 : a[i] = x
    BY <2>3
  <2>. QED
    BY <2>3, <2>4
<1>. QED
  BY <1>1, <1>2, <1>3 DEF Walk

\* A search copies on its way from a pointer exactly the events that are left to find there.
Finds(f, v, p, low, gone) ==
  \E a : /\ Walk(f, v, Path(f, p, v), a)
         /\ Holds(FlattenSeq(a), Indexed(f), Within(low, gone, v))

\* The search goes one pointer further.
LEMMA FindsOn ==
  ASSUME NEW f, NEW v, NEW p \in Pointers(f), NEW c, NEW low, NEW gone, NEW low2, NEW gone2,
         Finds(f, v, c, low2, gone2), Path(f, p, v) = <<p>> \o Path(f, c, v),
         VisitOf(Node(f, p), v) \in Seq(Event),
         \A s : Holds(s, Indexed(f), Within(low2, gone2, v))
                  => Holds(VisitOf(Node(f, p), v) \o s, Indexed(f), Within(low, gone, v))
  PROVE  Finds(f, v, p, low, gone)
<1>1. PICK s : s = Path(f, c, v)
  OBVIOUS
<1>2. PICK a : Walk(f, v, s, a) /\ Holds(FlattenSeq(a), Indexed(f), Within(low2, gone2, v))
  BY <1>1 DEF Finds
<1>3. PICK x \in Seq(Event) : x = VisitOf(Node(f, p), v)
  OBVIOUS
<1>4. Walk(f, v, <<p>> \o s, <<x>> \o a)
  BY <1>2, <1>3, VisitsCons
<1>5. a # <<>> /\ a \in Seq(Seq(Event))
  <2>1. /\ s \in Seq(Pointers(f)) /\ s # <<>> /\ a \in Seq(Seq(Event)) /\ Len(a) = Len(s)
    BY <1>2 DEF Walk
  <2>2. Len(s) # 0
    BY <2>1
  <2>. QED
    BY <2>1, <2>2
<1>6. FlattenSeq(<<x>> \o a) = x \o FlattenSeq(a)
  BY <1>5, FlatCons
<1>7. Holds(x \o FlattenSeq(a), Indexed(f), Within(low, gone, v))
  BY <1>2, <1>3
<1>8. Walk(f, v, Path(f, p, v), <<x>> \o a)
  BY <1>1, <1>4
<1>. QED
  BY <1>6, <1>7, <1>8 DEF Finds

\* So it is from every place, down to the selected node.
LEMMA PathFinds ==
  ASSUME NEW f, Shape(f), Linked(f), ListsHold(f), CutOK(f), f.tail \in 1..(Len(f.events) + 1),
         NEW v \in Int, NEW p, NEW low, NEW gone, NEW last, Place(f, p, low, gone, last), low <= v, v <= last
  PROVE  Finds(f, v, p, low, gone)
<1>. DEFINE Good(k) == \A q, a, g, z : Place(f, q, a, g, z) /\ a <= v /\ v <= z /\ Node(f, q).height < k
                                         => Finds(f, v, q, a, g)
            S == {k \in Nat : Good(k)}
<1>0. Len(Indexed(f)) \in Nat
  <2>1. PICK l \in Nat : l = Len(f.events) /\ f.events \in Seq(Event)
    BY DEF Shape, Typed
  <2>2. f.tail - 1 \in 0..Len(f.events)
    BY <2>1
  <2>3. Indexed(f) \in Seq(Event)
    BY <2>1, <2>2, TwoParts DEF Indexed
  <2>. QED
    BY <2>3
<1>1. 0 \in S
  <2>1. ASSUME NEW q, NEW a, NEW g, NEW z, Place(f, q, a, g, z), Node(f, q).height < 0 PROVE FALSE
    <3>1. q \in Pointers(f)
      BY <2>1, PlaceStands
    <3>2. Node(f, q).height \in Nat
      BY <3>1, HeightBound
    <3>. QED
      BY <2>1, <3>2
  <2>. QED
    BY <2>1
<1>2. ASSUME NEW k \in S PROVE k + 1 \in S
  <2>1. k \in Nat /\ Good(k)
    OBVIOUS
  <2>2. ASSUME NEW q, NEW a, NEW g, NEW z, Place(f, q, a, g, z), a <= v, v <= z, Node(f, q).height < k + 1
        PROVE  Finds(f, v, q, a, g)
    <3>1. /\ q \in Pointers(f) /\ q # Null /\ g \in SUBSET Event
          /\ Stands(Node(f, q), Indexed(f), a, g)
      BY <2>2, PlaceStands
    <3>2. PICK n : n = Node(f, q)
      OBVIOUS
    <3>3. CASE Selects(n, v)
      <4>1. Path(f, q, v) = <<q>>
        BY <3>1, <3>2, <3>3, PathGoesOn
      <4>2. Holds(VisitOf(n, v), Indexed(f), Within(a, g, v))
        BY <1>0, <3>1, <3>2, <3>3, SelectHolds
      <4>3. PICK x \in Seq(Event) : x = VisitOf(n, v)
        BY <4>2 DEF Holds
      <4>4. Walk(f, v, <<q>>, <<x>>)
        BY <3>1, <3>2, <4>3, VisitsOne
      <4>5. FlattenSeq(<<x>>) = x
        BY FlatOne
      <4>. QED
        BY <4>1, <4>2, <4>3, <4>4, <4>5 DEF Finds
    <3>4. CASE ~Selects(n, v)
      <4>1. PICK c : c = Child(n, v)
        OBVIOUS
      <4>2. Path(f, q, v) = <<q>> \o Path(f, c, v)
        BY <3>1, <3>2, <3>4, <4>1, PathGoesOn
      <4>3. n.nkey \in Int /\ n.dkey \in Int
        BY <3>1, <3>2 DEF Stands
      <4>4. \/ v < n.nkey /\ c = n.left
            \/ n.dkey < v /\ c = n.right
        BY <3>4, <4>1, <4>3 DEF Selects, Child
      <4>5. /\ v < n.nkey => \E x : /\ Place(f, n.left, a, Ending(n.nkey), x)
                                    /\ v <= x /\ Ending(n.nkey) \subseteq g
            /\ n.dkey < v => Place(f, n.right, n.dkey + 1, g, z)
        BY <2>2, <3>2, PlaceGoesOn DEF GoesOn
      <4>6. ASSUME NEW a2, NEW g2, NEW z2, Place(f, c, a2, g2, z2), a2 <= v, v <= z2
            PROVE  Finds(f, v, c, a2, g2)
        <5>1. c \in Pointers(f) /\ c # Null
          BY <4>6, PlaceStands
        <5>2. c \in {n.left, n.right}
          BY <4>4
        <5>3. /\ Node(f, c).height \in Nat /\ Node(f, q).height \in Nat
              /\ Node(f, c).height < Node(f, q).height
          BY <3>1, <3>2, <5>1, <5>2, Leads
        <5>4. Node(f, c).height < k
          BY <2>1, <2>2, <5>3
        <5>. QED
          BY <2>1, <4>6, <5>4
      <4>7. CASE v < n.nkey /\ c = n.left
        <5>1. PICK x : Place(f, c, a, Ending(n.nkey), x) /\ v <= x /\ Ending(n.nkey) \subseteq g
          BY <4>5, <4>7
        <5>2. Finds(f, v, c, a, Ending(n.nkey))
          BY <2>2, <4>6, <5>1
        <5>3. ASSUME NEW s, Holds(s, Indexed(f), Within(a, Ending(n.nkey), v))
              PROVE  Holds(VisitOf(n, v) \o s, Indexed(f), Within(a, g, v))
          BY <1>0, <3>1, <3>2, <4>7, <5>1, <5>3, LeftHolds
        <5>4. VisitOf(n, v) \in Seq(Event)
          BY <1>0, <3>1, <3>2, VisitTyped
        <5>. QED
          BY <3>1, <3>2, <4>2, <5>2, <5>3, <5>4, FindsOn
      <4>8. CASE n.dkey < v /\ c = n.right
        <5>1. Place(f, c, n.dkey + 1, g, z)
          BY <4>5, <4>8
        <5>2. Finds(f, v, c, n.dkey + 1, g)
          <6>1. n.dkey + 1 <= v
            BY <4>3, <4>8
          <6>. QED
            BY <2>2, <4>6, <5>1, <6>1
        <5>3. ASSUME NEW s, Holds(s, Indexed(f), Within(n.dkey + 1, g, v))
              PROVE  Holds(VisitOf(n, v) \o s, Indexed(f), Within(a, g, v))
          BY <1>0, <3>1, <3>2, <4>8, <5>3, RightHolds
        <5>4. VisitOf(n, v) \in Seq(Event)
          BY <1>0, <3>1, <3>2, VisitTyped
        <5>. QED
          BY <3>1, <3>2, <4>2, <5>2, <5>3, <5>4, FindsOn
      <4>. QED
        BY <4>4, <4>7, <4>8
    <3>. QED
      BY <3>3, <3>4
  <2>3. k + 1 \in Nat
    BY <2>1
  <2>. QED
    BY <2>2, <2>3
<1>3. S = Nat
  <2>1. S \in SUBSET Nat
    OBVIOUS
  <2>. HIDE DEF S
  <2>. QED
    BY <1>1, <1>2, <2>1, NatAll
<1>4. PICK h \in Nat : h = Node(f, p).height
  <2>1. p \in Pointers(f)
    BY PlaceStands
  <2>. QED
    BY <2>1, HeightBound
<1>5. h + 1 \in S /\ h < h + 1
  <2>. HIDE DEF S
  <2>. QED
    BY <1>3
<1>6. Good(h + 1)
  BY <1>5
<1>. QED
  BY <1>4, <1>5, <1>6

---------------------------------------------------------------------------------
(* stab_search. *)

Active(v) == {e \in Event : ActiveAt(e, v)}

\* A list holds its own events.
LEMMA HoldsItself ==
  ASSUME NEW s \in Seq(Event)
  PROVE  Holds(s, s, Event)
BY DEF Holds

\* Lists that hold what two lists have hold, joined, what these have joined.
LEMMA HoldsJoined ==
  ASSUME NEW a, NEW b, NEW s \in Seq(Event), NEW t \in Seq(Event), NEW C,
         Holds(a, s, C), Holds(b, t, C)
  PROVE  Holds(a \o b, s \o t, C)
<1>1. a \in Seq(Event) /\ b \in Seq(Event)
  BY DEF Holds
<1>2. a \o b \in Seq(Event)
  BY <1>1
<1>3. ASSUME NEW e \in Event
      PROVE  Occurrences(a \o b, e) = IF e \in C THEN Occurrences(s \o t, e) ELSE 0
  <2>1. /\ Occurrences(a \o b, e) = Occurrences(a, e) + Occurrences(b, e)
        /\ Occurrences(s \o t, e) = Occurrences(s, e) + Occurrences(t, e)
    BY <1>1, OccBoth
  <2>2. CASE e \in C
    <3>1. Occurrences(a, e) = Occurrences(s, e) /\ Occurrences(b, e) = Occurrences(t, e)
      BY <2>2 DEF Holds
    <3>. QED
      BY <2>1, <2>2, <3>1
  <2>3. CASE e \notin C
    <3>1. Occurrences(a, e) = 0 /\ Occurrences(b, e) = 0
      BY <2>3 DEF Holds
    <3>. QED
      BY <2>1, <2>3, <3>1
  <2>. QED
    BY <2>2, <2>3
<1>. QED
  BY <1>2, <1>3 DEF Holds

\* The indexed events and the tail, apart and together.
LEMMA WholeList ==
  ASSUME NEW f, ForestInv(f)
  PROVE  /\ f.events \in Seq(Event) /\ Indexed(f) \in Seq(Event) /\ EventTail(f) \in Seq(Event)
         /\ f.events = Indexed(f) \o EventTail(f)
         /\ Len(Indexed(f)) = f.tail - 1 /\ Len(EventTail(f)) = Len(f.events) - (f.tail - 1)
         /\ \A i \in 1..(f.tail - 1) : Indexed(f)[i] = f.events[i]
         /\ \A i \in 1..Len(EventTail(f)) : EventTail(f)[i] = f.events[(f.tail - 1) + i]
<1>1. f.events \in Seq(Event) /\ f.tail \in 1..(Len(f.events) + 1)
  BY DEF ForestInv, Shape, Typed, EventsOK
<1>2. PICK k \in 0..Len(f.events) : k = f.tail - 1 /\ k + 1 = f.tail
  BY <1>1
<1>3. /\ SubSeq(f.events, 1, k) \in Seq(Event) /\ SubSeq(f.events, k + 1, Len(f.events)) \in Seq(Event)
      /\ Len(SubSeq(f.events, 1, k)) = k /\ Len(SubSeq(f.events, k + 1, Len(f.events))) = Len(f.events) - k
      /\ \A i \in 1..k : SubSeq(f.events, 1, k)[i] = f.events[i]
      /\ \A i \in 1..(Len(f.events) - k) : SubSeq(f.events, k + 1, Len(f.events))[i] = f.events[k + i]
      /\ f.events = SubSeq(f.events, 1, k) \o SubSeq(f.events, k + 1, Len(f.events))
  BY <1>1, TwoParts
<1>. QED
  BY <1>1, <1>2, <1>3 DEF Indexed, EventTail

\* An event of the list is at one of its positions, ...
LEMMA OccAt ==
  ASSUME NEW s \in Seq(Event), NEW e, Occurrences(s, e) # 0
  PROVE  \E i \in 1..Len(s) : s[i] = e
BY OccNat

\* ... starts at the first key or later, and, if nodes have it, at the last data key or
\* earlier; those in the tail have one start, behind that.
LEMMA WhereEventsStart ==
  ASSUME NEW f, ContentInv(f), NEW e \in Event
  PROVE  /\ Occurrences(f.events, e) # 0 => f.minKey \in Int /\ f.minKey <= e.start
         /\ Occurrences(Indexed(f), e) # 0 => /\ Occurrences(f.events, e) # 0 /\ Len(f.nodes) > 0
                                              /\ e.start <= f.nodes[Len(f.nodes)].dkey
         /\ Occurrences(EventTail(f), e) # 0 => /\ Len(f.events) > 0
                                                /\ e.start = f.events[Len(f.events)].start
                                                /\ e.start = f.events[f.tail].start
                                                /\ Len(f.nodes) > 0 => f.nodes[Len(f.nodes)].dkey < e.start
<1>1. ForestInv(f) /\ Shape(f) /\ EventsOK(f) /\ CutOK(f)
  BY DEF ContentInv, ForestInv
<1>2. PICK l \in Nat, t \in Int : l = Len(f.events) /\ t = f.tail /\ t \in 1..(l + 1)
  <2>1. f.events \in Seq(Event)
    BY <1>1, WholeList
  <2>2. f.tail \in 1..(Len(f.events) + 1)
    BY <1>1 DEF EventsOK
  <2>. QED
    BY <2>1, <2>2
<1>3. e.start \in Int
  BY EventTimes
<1>4. ASSUME NEW i \in 1..l, f.events[i] = e
      PROVE  f.minKey \in Int /\ f.minKey <= e.start
  <2>1. 1 \in 1..l /\ l > 0
    BY <1>4
  <2>2. f.minKey = f.events[1].start
    BY <1>1, <1>2, <2>1 DEF EventsOK
  <2>3. f.events[1] \in Event /\ DOMAIN f.events = 1..l
    BY <1>1, <1>2, <2>1, WholeList
  <2>4. f.events[1].start \in Int
    BY <2>3, EventTimes
  <2>5. i = 1 \/ AtOrBefore(f.events[1], f.events[i])
    <3>1. i = 1 \/ 1 < i
      BY <1>4
    <3>. QED
      BY <1>1, <2>1, <2>3, <3>1 DEF EventsOK, Ordered
  <2>. QED
    BY <1>3, <1>4, <2>2, <2>4, <2>5 DEF AtOrBefore
<1>5. Occurrences(f.events, e) # 0 => f.minKey \in Int /\ f.minKey <= e.start
  BY <1>1, <1>2, <1>4, WholeList, OccAt
<1>6. ASSUME Occurrences(Indexed(f), e) # 0
      PROVE  /\ Occurrences(f.events, e) # 0 /\ Len(f.nodes) > 0
             /\ e.start <= f.nodes[Len(f.nodes)].dkey
  <2>1. PICK i \in 1..(t - 1) : f.events[i] = e /\ i \in 1..l
    <3>1. PICK i \in 1..Len(Indexed(f)) : Indexed(f)[i] = e
      BY <1>1, <1>6, WholeList, OccAt
    <3>2. Len(Indexed(f)) = t - 1 /\ \A k \in 1..(t - 1) : Indexed(f)[k] = f.events[k]
      BY <1>1, <1>2, WholeList
    <3>3. i \in 1..(t - 1) /\ i \in 1..l
      BY <1>2, <3>1, <3>2
    <3>. QED
      BY <3>1, <3>2, <3>3
  <2>2. Occurrences(f.events, e) # 0
    <3>1. Len(f.events) \in Nat
      BY <1>2
    <3>. QED
      BY <1>2, <2>1, <3>1, OccNat
  <2>3. Len(f.nodes) = 0 => f.tail = 1
    BY <1>1 DEF EventsOK
  <2>4. Len(f.nodes) \in 1..Len(f.nodes) /\ f.events[i].start <= f.nodes[Len(f.nodes)].dkey
    BY <1>1, <1>2, <2>1, <2>3, IndexedBefore
  <2>. QED
    BY <2>1, <2>2, <2>4
<1>7. ASSUME Occurrences(EventTail(f), e) # 0
      PROVE  /\ Len(f.events) > 0
             /\ e.start = f.events[Len(f.events)].start
             /\ e.start = f.events[f.tail].start
             /\ Len(f.nodes) > 0 => f.nodes[Len(f.nodes)].dkey < e.start
  <2>1. PICK i \in 1..Len(EventTail(f)) : EventTail(f)[i] = e
    BY <1>1, <1>7, WholeList, OccAt
  <2>2. Len(EventTail(f)) = l - (t - 1) /\ EventTail(f)[i] = f.events[(t - 1) + i]
    BY <1>1, <1>2, <2>1, WholeList
  <2>3. PICK k \in 1..l : k = (t - 1) + i /\ t <= k /\ l \in 1..l /\ t <= l
    BY <1>2, <2>1, <2>2
  <2>4. \A x \in 1..l : t <= x => f.events[x].start = f.events[t].start
    BY <1>1, <1>2 DEF EventsOK
  <2>5. Len(f.nodes) > 0 => f.nodes[Len(f.nodes)].dkey < f.events[t].start
    BY <1>1, <1>2 DEF EventsOK
  <2>6. e = f.events[k]
    BY <2>1, <2>2, <2>3
  <2>7. e.start = f.events[t].start /\ f.events[l].start = f.events[t].start
    BY <2>3, <2>4, <2>6
  <2>8. Len(f.events) > 0 /\ l = Len(f.events) /\ t = f.tail
    BY <1>2, <2>3
  <2>9. Len(f.nodes) > 0 => f.nodes[Len(f.nodes)].dkey < e.start
    BY <2>5, <2>7
  <2>. QED
    BY <2>7, <2>8, <2>9
<1>. QED
  BY <1>5, <1>6, <1>7

\* What StabSearch is, by where navigate_index sends the value.
RightCopies(f, v) == [i \in DOMAIN f.index |-> RightCopy(f.index[i], v)]

\* The three cases of stab_search.
LEMMA SearchCases ==
  ASSUME NEW f, NEW v, NEW s, s = Path(f, Point(1), v)
  PROVE  /\ BeforeTrees(f, v) => StabSearch(f, v) = CopyStartAsc(f.events, 1, v, 0)
         /\ InTrees(f, v) => /\ StabSearch(f, v).out = FlattenSeq(Visits(f, v, s))
                             /\ StabSearch(f, v).next = SelectNext(Node(f, Last(s)), v)
         /\ ~BeforeTrees(f, v) /\ ~InTrees(f, v) =>
              /\ StabSearch(f, v).out = FlattenSeq(RightCopies(f, v)) \o SearchTail(f, v, 0).out
              /\ StabSearch(f, v).next = SearchTail(f, v, 0).next
<1>1. BeforeTrees(f, v) => StabSearch(f, v) = CopyStartAsc(f.events, 1, v, 0)
  BY DEF StabSearch
<1>2. ASSUME InTrees(f, v)
      PROVE  StabSearch(f, v) = [out |-> FlattenSeq(Visits(f, v, s)), next |-> SelectNext(Node(f, Last(s)), v)]
  <2>1. ~BeforeTrees(f, v)
    BY <1>2 DEF InTrees
  <2>. QED
    BY <1>2, <2>1 DEF StabSearch, Visits, VisitOf, LeftCopy, RightCopy, SelectCopy
<1>3. ASSUME ~BeforeTrees(f, v), ~InTrees(f, v)
      PROVE  StabSearch(f, v) = [out |-> FlattenSeq(RightCopies(f, v)) \o SearchTail(f, v, 0).out,
                                 next |-> SearchTail(f, v, 0).next]
  BY <1>3 DEF StabSearch, RightCopies, RightCopy
<1>. QED
  BY <1>1, <1>2, <1>3

\* A search at v copies the events active at v and returns where those that start later begin.
Exact(f, v) ==
  /\ Holds(StabSearch(f, v).out, f.events, Active(v))
  /\ StabSearch(f, v).next = StartsAfter(f.events, v)

\* It does so before the trees, ...
LEMMA BeforeExact ==
  ASSUME NEW f, ContentInv(f), NEW v \in Int, BeforeTrees(f, v)
  PROVE  Exact(f, v)
<1>1. ForestInv(f) /\ EventsOK(f)
  BY DEF ContentInv, ForestInv
<1>2. f.events \in Seq(Event) /\ Ordered(f.events)
  BY <1>1, WholeList DEF EventsOK
<1>3. StabSearch(f, v) = CopyStartAsc(f.events, 1, v, 0)
  BY SearchCases
<1>4. StabSearch(f, v).next = StartsAfter(f.events, v)
  BY <1>2, <1>3, CopyStart
<1>5. Holds(StabSearch(f, v).out, f.events, Event \cap Started(v))
  <2>1. Holds(f.events, f.events, Event)
    BY <1>2, HoldsItself
  <2>. QED
    BY <1>2, <1>3, <2>1, CopyStartHolds
<1>6. ASSUME NEW e \in Event
      PROVE  /\ e \in Event \cap Started(v) /\ Occurrences(f.events, e) # 0 => e \in Active(v)
             /\ e \in Active(v) => e \in Event \cap Started(v)
  <2>1. Occurrences(f.events, e) # 0 => f.minKey \in Int /\ f.minKey <= e.start
    BY WhereEventsStart
  <2>2. e.start \in Int /\ e.end \in Int /\ e.start <= e.end
    BY EventTimes
  <2>3. v <= f.minKey
    BY DEF BeforeTrees
  <2>. QED
    BY <2>1, <2>2, <2>3 DEF Active, ActiveAt, Started
<1>7. Holds(StabSearch(f, v).out, f.events, Active(v))
  BY <1>5, <1>6, HoldsSame
<1>. QED
  BY <1>4, <1>7 DEF Exact

\* A forest that has forest-points.
LEMMA IndexEnds ==
  ASSUME NEW f, Shape(f), NEW m \in Nat, m = Len(f.index), m > 0, NEW n \in Nat, n = Len(f.nodes)
  PROVE  /\ n > 0 /\ Last(f.index) = f.index[m] /\ f.index[m].dkey = f.nodes[n].dkey
         /\ f.nodes[1].nkey = f.minKey /\ f.minKey \in Int /\ f.nodes[n].dkey \in Int
         /\ Place(f, Point(1), f.nodes[1].nkey, Event, f.nodes[n].dkey)
<1>1. n > 0 /\ Last(f.index) = f.index[m]
  BY UnderNat DEF Last
<1>2. f.index[m].dkey = f.nodes[n].dkey
  <2>1. m \in 1..m
    OBVIOUS
  <2>2. f.index[m].replacement = n
    BY <2>1, UnderNat DEF Shape, Counted
  <2>. QED
    BY <2>1, <2>2 DEF Shape, PointOK
<1>3. f.nodes[1].nkey = f.minKey /\ f.nodes[1].nkey \in Int /\ f.nodes[n].dkey \in Int
  <2>1. 1 \in 1..Len(f.nodes) /\ n \in 1..Len(f.nodes)
    BY <1>1
  <2>2. f.nodes[1].nkey = f.minKey
    BY <1>1 DEF Shape, KeysOK
  <2>. QED
    BY <2>1, <2>2, Keys
<1>4. Place(f, Point(1), f.nodes[1].nkey, Event, f.nodes[n].dkey)
  <2>1. 1 \in 1..Len(f.index) /\ 1 - 1 = 0 /\ 0 + 1 = 1
    OBVIOUS
  <2>2. Under(f, 1 - 1) + 1 = 1
    BY <2>1 DEF Under
  <2>. QED
    BY <2>1, <2>2 DEF Place
<1>. QED
  BY <1>1, <1>2, <1>3, <1>4

\* Every pointer leads to a node with the keys and the cut of one in the forest.
LEMMA NodeCuts ==
  ASSUME NEW f, Shape(f), CutOK(f), NEW p \in Pointers(f)
  PROVE  \E j \in 1..Len(f.nodes) :
           /\ Node(f, p).nkey = f.nodes[j].nkey /\ Node(f, p).dkey = f.nodes[j].dkey
           /\ Node(f, p).dataBegin = f.nodes[j].dataBegin /\ Node(f, p).dataEnd = f.nodes[j].dataEnd
           /\ CutsAt(f, j)
<1>1. CASE \E j \in 1..Len(f.nodes) : p = Tree(j)
  <2>1. PICK j \in 1..Len(f.nodes) : p = Tree(j)
    BY <1>1
  <2>2. Node(f, p) = f.nodes[j] /\ CutsAt(f, j)
    BY <2>1 DEF Node, Tree, CutOK
  <2>. QED
    BY <2>2
<1>2. CASE \E i \in 1..Len(f.index) : p = Point(i)
  <2>1. PICK i \in 1..Len(f.index) : p = Point(i)
    BY <1>2
  <2>2. Node(f, p) = f.index[i]
    BY <2>1 DEF Node, Point
  <2>3. PICK t : t = f.index[i].replacement
    OBVIOUS
  <2>4. /\ t \in 1..Len(f.nodes)
        /\ f.index[i].nkey = f.nodes[t].nkey /\ f.index[i].dkey = f.nodes[t].dkey
        /\ f.index[i].dataBegin = f.nodes[t].dataBegin /\ f.index[i].dataEnd = f.nodes[t].dataEnd
    BY <2>3 DEF Shape, PointOK
  <2>5. CutsAt(f, t)
    BY <2>4 DEF CutOK
  <2>. QED
    BY <2>2, <2>4, <2>5
<1>. QED
  BY <1>1, <1>2 DEF Pointers

\* Where the selected node sends the search on.
LEMMA SelectGoesOn ==
  ASSUME NEW f, Shape(f), CutOK(f), EventsOK(f), NEW p \in Pointers(f), NEW v \in Int, Selects(Node(f, p), v)
  PROVE  SelectNext(Node(f, p), v) = StartsAfter(f.events, v)
<1>1. f.events \in Seq(Event) /\ Ordered(f.events)
  BY DEF Shape, Typed, EventsOK
<1>2. PICK l \in Nat, t \in Int : l = Len(f.events) /\ t = f.tail /\ t \in 1..(l + 1) /\ DOMAIN f.events = 1..l
  BY <1>1 DEF EventsOK
<1>3. PICK j \in 1..Len(f.nodes) :
        /\ Node(f, p).nkey = f.nodes[j].nkey /\ Node(f, p).dkey = f.nodes[j].dkey
        /\ Node(f, p).dataBegin = f.nodes[j].dataBegin /\ Node(f, p).dataEnd = f.nodes[j].dataEnd
        /\ CutsAt(f, j)
  BY NodeCuts
<1>4. PICK x \in Int, y \in Int : x = f.nodes[j].nkey /\ y = f.nodes[j].dkey
  BY Keys
<1>5. PICK b \in 1..(l + 1), c \in 1..(l + 1) : b = f.nodes[j].dataBegin /\ c = f.nodes[j].dataEnd /\ b < c
  <2>1. f.nodes[j].dataBegin \in Int /\ f.nodes[j].dataEnd \in Int
    <3>1. f.nodes[j] \in NodeRecord
      BY DEF Shape, Typed
    <3>. QED
      BY <3>1 DEF NodeRecord
  <2>2. 1 <= f.nodes[j].dataBegin /\ f.nodes[j].dataBegin < f.nodes[j].dataEnd /\ f.nodes[j].dataEnd <= t
    BY <1>2 DEF Shape, KeysOK
  <2>. QED
    BY <1>2, <2>1, <2>2
<1>6. x <= v /\ v <= y
  BY <1>3, <1>4 DEF Selects
<1>7. ASSUME NEW i \in 1..l
      PROVE  /\ i < b => f.events[i].start < x
             /\ b <= i /\ i < c => f.events[i].start = y
             /\ c <= i => y < f.events[i].start
             /\ f.events[i].start \in Int
  <2>1. f.events[i].start \in Int
    BY <1>1, <1>2, EventTimes
  <2>. QED
    BY <1>2, <1>3, <1>4, <1>5, <2>1 DEF CutsAt
<1>8. PICK k \in 1..(l + 1) : k = SelectNext(Node(f, p), v) /\ k = IF v < y THEN b ELSE c
  BY <1>3, <1>4, <1>5 DEF SelectNext
<1>9. ASSUME NEW i \in 1..l PROVE f.events[i].start <= v <=> i < k
  <2>1. PICK s \in Int : s = f.events[i].start
    BY <1>7
  <2>2. /\ i < b => s < x
        /\ b <= i /\ i < c => s = y
        /\ c <= i => y < s
    BY <1>7, <2>1
  <2>3. s <= v <=> i < k
    BY <1>5, <1>6, <1>8, <2>2
  <2>. QED
    BY <2>1, <2>3
<1>. QED
  BY <1>1, <1>2, <1>8, <1>9, StartsCutOnly

\* ... in them, ...
LEMMA InExact ==
  ASSUME NEW f, ContentInv(f), NEW v \in Int, InTrees(f, v)
  PROVE  Exact(f, v)
<1>1. /\ ForestInv(f) /\ Shape(f) /\ Linked(f) /\ EventsOK(f) /\ ListsHold(f) /\ CutOK(f)
      /\ f.tail \in 1..(Len(f.events) + 1)
  BY DEF ContentInv, ForestInv, EventsOK
<1>2. PICK n \in Nat, m \in Nat : n = Len(f.nodes) /\ m = Len(f.index)
  <2>1. Len(f.nodes) \in Nat /\ Len(f.index) \in Nat
    BY <1>1, UnderNat
  <2>. QED
    BY <2>1
<1>3. m > 0
  <2>1. f.index \in Seq(PointRecord) /\ f.index # <<>>
    BY <1>1 DEF InTrees, Shape, Typed
  <2>. QED
    BY <1>2, <2>1
<1>4. /\ n > 0 /\ Last(f.index).dkey = f.nodes[n].dkey
      /\ f.nodes[1].nkey = f.minKey /\ f.minKey \in Int /\ f.nodes[n].dkey \in Int
      /\ Place(f, Point(1), f.nodes[1].nkey, Event, f.nodes[n].dkey)
  BY <1>1, <1>2, <1>3, IndexEnds
<1>5. PICK x \in Int, y \in Int : x = f.minKey /\ y = f.nodes[n].dkey /\ x <= v /\ v <= y
  <2>1. ~(v <= f.minKey) /\ v <= Last(f.index).dkey
    BY DEF InTrees, BeforeTrees
  <2>. QED
    BY <1>4, <2>1
<1>6. PICK s : s = Path(f, Point(1), v)
  OBVIOUS
<1>7. Finds(f, v, Point(1), x, Event)
  <2>1. Place(f, Point(1), x, Event, y)
    BY <1>4, <1>5
  <2>. QED
    BY <1>1, <1>5, <2>1, PathFinds
<1>8. PICK a : Walk(f, v, s, a) /\ Holds(FlattenSeq(a), Indexed(f), Within(x, Event, v))
  BY <1>6, <1>7 DEF Finds
<1>9. /\ StabSearch(f, v).out = FlattenSeq(a)
      /\ StabSearch(f, v).next = SelectNext(Node(f, Last(s)), v)
  <2>1. a = Visits(f, v, s)
    BY <1>8 DEF Walk
  <2>. QED
    BY <1>6, <2>1, SearchCases
<1>10. ASSUME NEW e \in Event
       PROVE  /\ e \in Within(x, Event, v) => e \in Active(v)
              /\ e \in Active(v) /\ Occurrences(f.events, e) # 0 => e \in Within(x, Event, v)
              /\ e \in Within(x, Event, v) => Occurrences(f.events, e) = Occurrences(Indexed(f), e)
  <2>1. /\ Occurrences(f.events, e) # 0 => f.minKey <= e.start
        /\ Occurrences(EventTail(f), e) # 0 => f.nodes[Len(f.nodes)].dkey < e.start
    BY <1>2, <1>4, WhereEventsStart
  <2>2. e.start \in Int
    BY EventTimes
  <2>3. ASSUME e \in Within(x, Event, v)
        PROVE  Occurrences(f.events, e) = Occurrences(Indexed(f), e)
    <3>1. e.start <= v
      BY <2>3 DEF Within, ActiveAt
    <3>2. Occurrences(EventTail(f), e) = 0
      BY <1>2, <1>5, <2>1, <2>2, <3>1
    <3>3. /\ f.events = Indexed(f) \o EventTail(f)
          /\ Indexed(f) \in Seq(Event) /\ EventTail(f) \in Seq(Event)
      BY <1>1, WholeList
    <3>4. Occurrences(f.events, e) = Occurrences(Indexed(f), e) + Occurrences(EventTail(f), e)
      BY <3>3, OccBoth
    <3>5. Occurrences(Indexed(f), e) \in Nat
      <4>1. Len(Indexed(f)) \in Nat
        BY <3>3
      <4>. QED
        BY <4>1, OccNat
    <3>. QED
      BY <3>2, <3>4, <3>5
  <2>. QED
    BY <1>5, <2>1, <2>3 DEF Within, Active
<1>11. Holds(StabSearch(f, v).out, f.events, Active(v))
  BY <1>8, <1>9, <1>10, HoldsSame
<1>12. StabSearch(f, v).next = StartsAfter(f.events, v)
  <2>1. InRange(f, Point(1), v) /\ Point(1) \in Pointers(f)
    <3>1. 1 \in 1..m /\ 1 - 1 = 0 /\ 0 + 1 = 1
      BY <1>3
    <3>2. Under(f, 1 - 1) + 1 = 1
      BY <3>1 DEF Under
    <3>. QED
      BY <1>2, <1>4, <1>5, <3>1, <3>2 DEF InRange, Pointers
  <2>2. GoesDown(f, v, Point(1), s)
    BY <1>1, <1>6, <2>1, PathDown
  <2>3. Last(s) \in Pointers(f) /\ Selects(Node(f, Last(s)), v)
    <3>1. s \in Seq(Pointers(f)) /\ s # <<>> /\ Selects(Node(f, Last(s)), v)
      BY <2>2 DEF GoesDown
    <3>. QED
      BY <3>1 DEF Last
  <2>. QED
    BY <1>1, <1>9, <2>3, SelectGoesOn
<1>. QED
  BY <1>11, <1>12 DEF Exact

\* A list that holds what forest-points have, from the first one to the i-th, whatever the
\* others have to add.
FoundBefore(f, v, i, r) ==
  /\ r \in Seq(Event)
  /\ \A s : Holds(s, Indexed(f), Within(f.index[i].dkey + 1, Event, v))
              => Holds(r \o s, Indexed(f), Within(f.nodes[1].nkey, Event, v))

\* What one forest-point gives a search for a later value; the next one starts behind it.
LEMMA PointGives ==
  ASSUME NEW f, Shape(f), Linked(f), ListsHold(f), CutOK(f), f.tail \in 1..(Len(f.events) + 1),
         NEW m \in Nat, m = Len(f.index), NEW n \in Nat, n = Len(f.nodes), n > 0,
         NEW v \in Int, f.nodes[n].dkey < v,
         NEW i \in 1..m, NEW low, low = f.nodes[Under(f, i - 1) + 1].nkey
  PROVE  /\ RightCopy(f.index[i], v) \in Seq(Event)
         /\ \A s : Holds(s, Indexed(f), Within(f.index[i].dkey + 1, Event, v))
                     => Holds(RightCopy(f.index[i], v) \o s, Indexed(f), Within(low, Event, v))
         /\ i + 1 \in 1..m => f.nodes[Under(f, (i + 1) - 1) + 1].nkey = f.index[i].dkey + 1
<1>1. Len(Indexed(f)) \in Nat
  <2>1. PICK l \in Nat : l = Len(f.events) /\ f.events \in Seq(Event)
    BY DEF Shape, Typed
  <2>2. f.tail - 1 \in 0..Len(f.events)
    BY <2>1
  <2>3. Indexed(f) \in Seq(Event)
    BY <2>1, <2>2, TwoParts DEF Indexed
  <2>. QED
    BY <2>3
<1>2. Stands(f.index[i], Indexed(f), low, Event)
  <2>1. Place(f, Point(i), low, Event, f.nodes[Len(f.nodes)].dkey)
    BY DEF Place
  <2>2. Node(f, Point(i)) = f.index[i]
    BY DEF Node, Point
  <2>. QED
    BY <2>1, <2>2, PlaceStands
<1>3. PICK t \in 1..n : t = f.index[i].replacement /\ f.index[i].dkey = f.nodes[t].dkey
  BY DEF Shape, PointOK
<1>4. PICK y \in Int : y = f.index[i].dkey /\ y < v
  <2>1. f.nodes[t].dkey \in Int /\ f.nodes[n].dkey \in Int /\ f.nodes[t].dkey <= f.nodes[n].dkey
    <3>1. n \in 1..n /\ t <= n
      BY <1>3
    <3>2. f.nodes[t].dkey \in Int /\ f.nodes[n].dkey \in Int /\ f.nodes[n].nkey \in Int
      BY <3>1, Keys
    <3>3. t < n => f.nodes[t].dkey < f.nodes[n].nkey /\ f.nodes[n].nkey <= f.nodes[n].dkey
      <4>1. n <= n
        BY <3>1
      <4>. QED
        BY <3>1, <4>1, KeysUp
    <3>4. t = n \/ t < n
      BY <3>1
    <3>. QED
      BY <3>2, <3>3, <3>4
  <2>. QED
    BY <1>3, <2>1
<1>5. PICK x \in Int : x = f.index[i].nkey /\ x <= y
  BY <1>2, <1>4 DEF Stands
<1>6. VisitOf(f.index[i], v) = RightCopy(f.index[i], v)
  <2>1. ~(v < f.index[i].nkey) /\ ~Selects(f.index[i], v)
    BY <1>4, <1>5 DEF Selects
  <2>. QED
    BY <2>1 DEF VisitOf
<1>7. RightCopy(f.index[i], v) \in Seq(Event)
  <2>1. VisitOf(f.index[i], v) \in Seq(Event)
    BY <1>1, <1>2, VisitTyped
  <2>. QED
    BY <1>6, <2>1
<1>8. ASSUME NEW s, Holds(s, Indexed(f), Within(f.index[i].dkey + 1, Event, v))
      PROVE  Holds(RightCopy(f.index[i], v) \o s, Indexed(f), Within(low, Event, v))
  <2>1. f.index[i].dkey < v
    BY <1>4
  <2>. QED
    BY <1>1, <1>2, <1>8, <2>1, RightHolds
<1>9. ASSUME i + 1 \in 1..m
      PROVE  f.nodes[Under(f, (i + 1) - 1) + 1].nkey = f.index[i].dkey + 1
  <2>1. Under(f, (i + 1) - 1) = t
    <3>1. (i + 1) - 1 = i
      OBVIOUS
    <3>. QED
      BY <1>3, <3>1, UnderNat
  <2>2. t + 1 <= n
    <3>1. f.index[i].replacement < f.index[i + 1].replacement
      BY <1>9 DEF Shape, Counted
    <3>2. f.index[i + 1].replacement \in 1..n
      BY <1>9 DEF Shape, PointOK
    <3>. QED
      BY <1>3, <3>1, <3>2
  <2>3. f.nodes[t + 1].nkey = f.nodes[t].dkey + 1
    BY <1>3, <2>2, Keys
  <2>. QED
    BY <1>3, <2>1, <2>3
<1>. QED
  BY <1>7, <1>8, <1>9

\* One forest-point more.
LEMMA UpToMore ==
  ASSUME NEW f, NEW v, NEW i \in Nat, NEW r, FoundBefore(f, v, i, r),
         NEW x \in Seq(Event),
         \A s : Holds(s, Indexed(f), Within(f.index[i + 1].dkey + 1, Event, v))
                  => Holds(x \o s, Indexed(f), Within(f.index[i].dkey + 1, Event, v))
  PROVE  FoundBefore(f, v, i + 1, r \o x)
<1>1. r \in Seq(Event) /\ r \o x \in Seq(Event)
  BY DEF FoundBefore
<1>2. ASSUME NEW s, Holds(s, Indexed(f), Within(f.index[i + 1].dkey + 1, Event, v))
      PROVE  Holds((r \o x) \o s, Indexed(f), Within(f.nodes[1].nkey, Event, v))
  <2>1. s \in Seq(Event)
    BY <1>2 DEF Holds
  <2>2. Holds(x \o s, Indexed(f), Within(f.index[i].dkey + 1, Event, v))
    BY <1>2
  <2>3. Holds(r \o (x \o s), Indexed(f), Within(f.nodes[1].nkey, Event, v))
    BY <2>2 DEF FoundBefore
  <2>4. (r \o x) \o s = r \o (x \o s)
    BY <1>1, <2>1
  <2>. QED
    BY <2>3, <2>4
<1>. QED
  BY <1>1, <1>2 DEF FoundBefore

\* The index, searched for a value behind all nodes.
LEMMA IndexGives ==
  ASSUME NEW f, ContentInv(f), NEW v \in Int, NEW m \in Nat, m = Len(f.index), m > 0,
         f.nodes[Len(f.nodes)].dkey < v
  PROVE  Holds(FlattenSeq(RightCopies(f, v)), Indexed(f), Within(f.nodes[1].nkey, Event, v))
<1>1. /\ ForestInv(f) /\ Shape(f) /\ Linked(f) /\ ListsHold(f) /\ CutOK(f)
      /\ f.tail \in 1..(Len(f.events) + 1)
  BY DEF ContentInv, ForestInv, EventsOK
<1>2. PICK n \in Nat : n = Len(f.nodes) /\ n > 0
  BY <1>1, UnderNat
<1>3. PICK c : c = RightCopies(f, v)
  OBVIOUS
<1>4. Len(c) = m /\ \A i \in 1..m : c[i] = RightCopy(f.index[i], v)
  <2>1. DOMAIN f.index = 1..m
    BY <1>1 DEF Shape, Typed
  <2>2. c = [i \in 1..m |-> RightCopy(f.index[i], v)]
    BY <1>3, <2>1 DEF RightCopies
  <2>. QED
    BY <2>2
<1>5. PICK g : FlatBy(c, m, g)
  BY <1>4, FlatSteps
<1>6. /\ g[1] = c[1] /\ FlattenSeq(c) = g[m]
      /\ \A i \in 1..m : i + 1 <= m => g[i + 1] = g[i] \o c[i + 1]
  BY <1>5 DEF FlatBy
<1>7. ASSUME NEW i \in 1..m, NEW low, low = f.nodes[Under(f, i - 1) + 1].nkey
      PROVE  /\ RightCopy(f.index[i], v) \in Seq(Event)
             /\ \A s : Holds(s, Indexed(f), Within(f.index[i].dkey + 1, Event, v))
                         => Holds(RightCopy(f.index[i], v) \o s, Indexed(f), Within(low, Event, v))
             /\ i + 1 \in 1..m => f.nodes[Under(f, (i + 1) - 1) + 1].nkey = f.index[i].dkey + 1
  BY <1>1, <1>2, <1>7, PointGives
<1>. DEFINE S == {k \in Nat : k + 1 <= m => FoundBefore(f, v, k + 1, g[k + 1])}
<1>8. 0 \in S
  <2>1. 1 \in 1..m /\ 0 + 1 = 1 /\ 1 - 1 = 0
    OBVIOUS
  <2>2. Under(f, 1 - 1) + 1 = 1
    BY <2>1 DEF Under
  <2>3. g[1] = RightCopy(f.index[1], v)
    BY <1>4, <1>6, <2>1
  <2>4. FoundBefore(f, v, 1, g[1])
    BY <1>7, <2>1, <2>2, <2>3 DEF FoundBefore
  <2>. QED
    BY <2>1, <2>4
<1>9. ASSUME NEW k \in S PROVE k + 1 \in S
  <2>1. k \in Nat /\ (k + 1 <= m => FoundBefore(f, v, k + 1, g[k + 1]))
    OBVIOUS
  <2>2. PICK i \in Nat : i = k + 1 /\ i > 0
    BY <2>1
  <2>3. ASSUME i + 1 <= m PROVE FoundBefore(f, v, i + 1, g[i + 1])
    <3>1. i \in 1..m /\ i + 1 \in 1..m
      BY <2>2, <2>3
    <3>2. FoundBefore(f, v, i, g[i])
      BY <2>1, <2>2, <3>1
    <3>3. f.nodes[Under(f, (i + 1) - 1) + 1].nkey = f.index[i].dkey + 1
      BY <1>7, <3>1
    <3>4. PICK x \in Seq(Event) : x = RightCopy(f.index[i + 1], v)
      BY <1>7, <3>1
    <3>5. \A s : Holds(s, Indexed(f), Within(f.index[i + 1].dkey + 1, Event, v))
                   => Holds(x \o s, Indexed(f), Within(f.index[i].dkey + 1, Event, v))
      BY <1>7, <3>1, <3>3, <3>4
    <3>6. FoundBefore(f, v, i + 1, g[i] \o x)
      BY <2>2, <3>2, <3>5, UpToMore
    <3>7. g[i + 1] = g[i] \o x
      <4>1. i + 1 <= m
        BY <2>3
      <4>2. g[i + 1] = g[i] \o c[i + 1]
        BY <1>6, <3>1, <4>1
      <4>3. c[i + 1] = x
        BY <1>4, <3>1, <3>4
      <4>. QED
        BY <4>2, <4>3
    <3>. QED
      BY <3>6, <3>7
  <2>4. k + 1 \in Nat
    BY <2>1
  <2>. QED
    BY <2>2, <2>3, <2>4
<1>10. S = Nat
  <2>1. S \in SUBSET Nat
    OBVIOUS
  <2>. HIDE DEF S
  <2>. QED
    BY <1>8, <1>9, <2>1, NatAll
<1>11. FoundBefore(f, v, m, g[m])
  <2>1. PICK k \in Nat : k + 1 = m
    <3>1. m - 1 \in Nat /\ (m - 1) + 1 = m
      OBVIOUS
    <3>. QED
      BY <3>1
  <2>2. k \in S
    BY <1>10
  <2>3. k + 1 <= m
    BY <2>1
  <2>. QED
    BY <2>1, <2>2, <2>3
<1>. HIDE DEF S
<1>12. Holds(<<>>, Indexed(f), Within(f.index[m].dkey + 1, Event, v))
  <2>1. f.index[m].dkey = f.nodes[n].dkey /\ f.nodes[n].dkey \in Int
    BY <1>1, <1>2, IndexEnds
  <2>2. ASSUME NEW e \in Event, e \in Within(f.index[m].dkey + 1, Event, v)
        PROVE  Occurrences(Indexed(f), e) = 0
    <3>1. Occurrences(Indexed(f), e) # 0 => e.start <= f.nodes[n].dkey
      BY <1>2, WhereEventsStart
    <3>2. f.nodes[n].dkey + 1 <= e.start /\ e.start \in Int
      BY <2>1, <2>2, EventTimes DEF Within
    <3>. QED
      BY <2>1, <3>1, <3>2
  <2>. QED
    BY <2>2, HoldsNone
<1>13. Holds(g[m] \o <<>>, Indexed(f), Within(f.nodes[1].nkey, Event, v)) /\ g[m] \in Seq(Event)
  BY <1>11, <1>12 DEF FoundBefore
<1>14. g[m] \o <<>> = g[m]
  BY <1>13
<1>. QED
  BY <1>3, <1>6, <1>13, <1>14

\* ... and behind them: first the index, ...
LEMMA IndexActive ==
  ASSUME NEW f, ContentInv(f), NEW v \in Int, ~BeforeTrees(f, v), ~InTrees(f, v)
  PROVE  /\ Holds(FlattenSeq(RightCopies(f, v)), Indexed(f), Active(v))
         /\ Len(f.nodes) > 0 => f.nodes[Len(f.nodes)].dkey < v
<1>1. ForestInv(f) /\ Shape(f) /\ EventsOK(f) /\ f.index \in Seq(PointRecord)
  BY DEF ContentInv, ForestInv, Shape, Typed
<1>2. PICK n \in Nat, m \in Nat : n = Len(f.nodes) /\ m = Len(f.index) /\ (m = 0 <=> n = 0)
  <2>1. Len(f.nodes) \in Nat /\ Len(f.index) \in Nat /\ (Len(f.index) = 0 <=> Len(f.nodes) = 0)
    BY <1>1, UnderNat
  <2>. QED
    BY <2>1
<1>3. CASE m = 0
  <2>1. RightCopies(f, v) = <<>>
    <3>1. f.index = <<>>
      <4>1. Len(f.index) = 0
        BY <1>2, <1>3
      <4>. QED
        BY <1>1, <4>1
    <3>2. DOMAIN f.index = {}
      BY <3>1
    <3>. QED
      BY <3>2 DEF RightCopies
  <2>2. FlattenSeq(<<>>) = <<>>
    <3>1. 0 = Len(<<>>)
      OBVIOUS
    <3>. QED
      BY <3>1, FlatSteps
  <2>3. Holds(<<>>, Indexed(f), Active(v))
    <3>1. \A e \in Event : Occurrences(Indexed(f), e) = 0
      <4>1. \A e \in Event : Occurrences(Indexed(f), e) # 0 => Len(f.nodes) > 0
        BY WhereEventsStart
      <4>. QED
        BY <1>2, <1>3, <4>1
    <3>. QED
      BY <3>1, HoldsNone
  <2>4. FlattenSeq(RightCopies(f, v)) = <<>>
    BY <2>1, <2>2
  <2>. QED
    BY <1>2, <1>3, <2>3, <2>4
<1>4. CASE m > 0
  <2>1. /\ Last(f.index).dkey = f.nodes[n].dkey /\ f.nodes[n].dkey \in Int
        /\ f.nodes[1].nkey = f.minKey /\ f.minKey \in Int
    BY <1>1, <1>2, <1>4, IndexEnds
  <2>2. f.nodes[n].dkey < v
    <3>1. f.index # <<>>
      BY <1>2, <1>4
    <3>2. ~(v <= Last(f.index).dkey)
      BY <3>1 DEF InTrees
    <3>. QED
      BY <2>1, <3>2
  <2>3. Holds(FlattenSeq(RightCopies(f, v)), Indexed(f), Within(f.nodes[1].nkey, Event, v))
    BY <1>2, <1>4, <2>2, IndexGives
  <2>4. ASSUME NEW e \in Event
        PROVE  /\ e \in Within(f.nodes[1].nkey, Event, v) => e \in Active(v)
               /\ e \in Active(v) /\ Occurrences(Indexed(f), e) # 0
                    => e \in Within(f.nodes[1].nkey, Event, v)
    <3>1. Occurrences(Indexed(f), e) # 0 => f.nodes[1].nkey <= e.start
      BY <2>1, WhereEventsStart
    <3>. QED
      BY <3>1 DEF Within, Active
  <2>5. Holds(FlattenSeq(RightCopies(f, v)), Indexed(f), Active(v))
    BY <2>3, <2>4, HoldsSame
  <2>. QED
    BY <1>2, <2>2, <2>5
<1>. QED
  BY <1>2, <1>3, <1>4

\* ... then the tail.
LEMMA TailActive ==
  ASSUME NEW f, ContentInv(f), NEW v \in Int, ~BeforeTrees(f, v), ~InTrees(f, v)
  PROVE  /\ Holds(SearchTail(f, v, 0).out, EventTail(f), Active(v))
         /\ SearchTail(f, v, 0).next = StartsAfter(f.events, v)
<1>1. /\ ForestInv(f) /\ Shape(f) /\ EventsOK(f) /\ CutOK(f)
      /\ f.tail \in 1..(Len(f.events) + 1) /\ Ordered(f.events) /\ f.events \in Seq(Event)
      /\ (Len(f.nodes) = 0 => f.tail = 1)
  BY DEF ContentInv, ForestInv, EventsOK, Shape, Typed
<1>2. PICK l \in Nat, t \in Int : l = Len(f.events) /\ t = f.tail /\ t \in 1..(l + 1)
  BY <1>1
<1>3. ASSUME NEW i \in 1..l
      PROVE  /\ f.events[i].start \in Int /\ f.events[l].start \in Int /\ Last(f.events) = f.events[l]
             /\ i < t => f.events[i].start < v
             /\ t <= i => f.events[i].start = f.events[l].start
  <2>1. l \in 1..l /\ t <= l
    <3>1. Len(f.events) > 0
      BY <1>2
    <3>2. f.tail <= Len(f.events)
      BY <1>1, <3>1 DEF EventsOK
    <3>. QED
      BY <1>2, <3>2
  <2>2. f.events[i] \in Event /\ f.events[l] \in Event /\ Last(f.events) = f.events[l]
    BY <1>1, <1>2, <2>1 DEF Last
  <2>3. f.events[i].start \in Int /\ f.events[l].start \in Int
    BY <2>2, EventTimes
  <2>4. ASSUME i < t PROVE f.events[i].start < v
    <3>1. i \in 1..(f.tail - 1)
      BY <1>2, <2>4
    <3>2. Len(f.nodes) \in 1..Len(f.nodes) /\ f.events[i].start <= f.nodes[Len(f.nodes)].dkey
      BY <1>1, <3>1, IndexedBefore
    <3>3. Len(f.nodes) > 0 => f.nodes[Len(f.nodes)].dkey < v
      BY IndexActive
    <3>4. f.nodes[Len(f.nodes)].dkey \in Int
      BY <1>1, <3>2, Keys
    <3>. QED
      BY <2>3, <3>2, <3>3, <3>4
  <2>5. ASSUME t <= i PROVE f.events[i].start = f.events[l].start
    <3>1. \A x \in 1..l : t <= x => f.events[x].start = f.events[t].start
      BY <1>1, <1>2 DEF EventsOK
    <3>. QED
      BY <2>1, <2>5, <3>1
  <2>. QED
    BY <2>2, <2>3, <2>4, <2>5
<1>4. ASSUME NEW e \in Event, Occurrences(EventTail(f), e) # 0
      PROVE  l > 0 /\ l \in 1..l /\ e.start = f.events[l].start /\ e.start \in Int
  <2>1. Len(f.events) > 0 /\ e.start = f.events[Len(f.events)].start
    BY <1>4, WhereEventsStart
  <2>. QED
    BY <1>2, <2>1, EventTimes
<1>5. CASE TailAfter(f, v)
  <2>1. SearchTail(f, v, 0).out = <<>> /\ SearchTail(f, v, 0).next = t
    BY <1>2, <1>5 DEF SearchTail
  <2>2. v < Last(f.events).start
    BY <1>5 DEF TailAfter
  <2>3. ASSUME NEW e \in Event, e \in Active(v) PROVE Occurrences(EventTail(f), e) = 0
    <3>1. e.start <= v
      BY <2>3 DEF Active, ActiveAt
    <3>. QED
      BY <1>3, <1>4, <2>2, <3>1
  <2>4. ASSUME NEW i \in 1..l PROVE f.events[i].start <= v <=> i < t
    <3>1. PICK s \in Int, z \in Int : s = f.events[i].start /\ z = f.events[l].start /\ v < z
      BY <1>3, <2>2
    <3>2. (i < t => s < v) /\ (t <= i => s = z)
      BY <1>3, <3>1
    <3>. QED
      BY <1>2, <3>1, <3>2
  <2>5. StartsAfter(f.events, v) = t
    BY <1>1, <1>2, <2>4, StartsCutOnly
  <2>6. Holds(<<>>, EventTail(f), Active(v))
    BY <2>3, HoldsNone
  <2>. QED
    BY <2>1, <2>5, <2>6
<1>6. CASE ~TailAfter(f, v)
  <2>1. /\ SearchTail(f, v, 0).out = CopyEndDec(Reverse(EventTail(f)), v, 0)
        /\ SearchTail(f, v, 0).next = l + 1
    BY <1>2, <1>6 DEF SearchTail
  <2>2. l > 0 => ~(v < Last(f.events).start)
    <3>1. l > 0 => f.events # <<>>
      BY <1>2
    <3>. QED
      BY <1>6, <3>1 DEF TailAfter
  <2>3. EventTail(f) \in Seq(Event) /\ Ordered(EventTail(f))
    <3>1. Len(f.events) \in 0..Len(f.events) /\ f.tail \in 1..(Len(f.events) + 1)
      BY <1>2
    <3>2. Ordered(SubSeq(f.events, f.tail, Len(f.events)))
      BY <1>1, <3>1, OrderedPart
    <3>. QED
      BY <1>1, <3>2, WholeList DEF EventTail
  <2>4. \A i, j \in 1..Len(EventTail(f)) : EventTail(f)[i].start = EventTail(f)[j].start
    <3>1. PICK k \in Nat : k = Len(EventTail(f))
      BY <2>3
    <3>2. ASSUME NEW i \in 1..k PROVE EventTail(f)[i].start = f.events[l].start
      <4>1. EventTail(f)[i] \in Event
        BY <2>3, <3>1
      <4>2. Len(EventTail(f)) \in Nat
        BY <3>1
      <4>3. Occurrences(EventTail(f), EventTail(f)[i]) # 0
        BY <3>1, <4>2, OccNat
      <4>. QED
        BY <1>4, <4>1, <4>3
    <3>. QED
      BY <3>1, <3>2
  <2>5. EndsDescend(Reverse(EventTail(f)))
    BY <2>3, <2>4, OneStartBackwards
  <2>6. Holds(Reverse(EventTail(f)), EventTail(f), Event)
    BY <2>3, HoldsItself, HoldsBackwards
  <2>7. Holds(SearchTail(f, v, 0).out, EventTail(f), Event \cap Lasting(v))
    BY <2>1, <2>5, <2>6, CopyEndHolds
  <2>8. ASSUME NEW e \in Event
        PROVE  /\ e \in Event \cap Lasting(v) /\ Occurrences(EventTail(f), e) # 0 => e \in Active(v)
               /\ e \in Active(v) => e \in Event \cap Lasting(v)
    <3>1. Occurrences(EventTail(f), e) # 0 => e.start <= v
      <4>1. ASSUME Occurrences(EventTail(f), e) # 0 PROVE e.start <= v
        <5>1. PICK s \in Int : s = e.start /\ s = f.events[l].start /\ l > 0 /\ l \in 1..l
          BY <1>4, <4>1
        <5>2. Last(f.events) = f.events[l]
          BY <1>3, <5>1
        <5>3. ~(v < s)
          BY <2>2, <5>1, <5>2
        <5>. QED
          BY <5>1, <5>3
      <4>. QED
        BY <4>1
    <3>. QED
      BY <3>1 DEF Active, ActiveAt, Lasting
  <2>9. Holds(SearchTail(f, v, 0).out, EventTail(f), Active(v))
    BY <2>7, <2>8, HoldsSame
  <2>10. ASSUME NEW i \in 1..l PROVE f.events[i].start <= v <=> i < l + 1
    <3>1. PICK s \in Int, z \in Int : s = f.events[i].start /\ z = f.events[l].start /\ ~(v < z)
      BY <1>3, <2>2
    <3>2. (i < t => s < v) /\ (t <= i => s = z)
      BY <1>3, <3>1
    <3>. QED
      BY <1>2, <3>1, <3>2
  <2>11. StartsAfter(f.events, v) = l + 1
    <3>1. l + 1 \in 1..(Len(f.events) + 1)
      BY <1>2
    <3>. QED
      BY <1>1, <1>2, <2>10, <3>1, StartsCutOnly
  <2>. QED
    BY <2>1, <2>9, <2>11
<1>. QED
  BY <1>5, <1>6

\* Together they have the whole list.
LEMMA BehindExact ==
  ASSUME NEW f, ContentInv(f), NEW v \in Int, ~BeforeTrees(f, v), ~InTrees(f, v)
  PROVE  Exact(f, v)
<1>1. /\ StabSearch(f, v).out = FlattenSeq(RightCopies(f, v)) \o SearchTail(f, v, 0).out
      /\ StabSearch(f, v).next = SearchTail(f, v, 0).next
  BY SearchCases
<1>2. ForestInv(f)
  BY DEF ContentInv
<1>3. Holds(FlattenSeq(RightCopies(f, v)) \o SearchTail(f, v, 0).out, Indexed(f) \o EventTail(f), Active(v))
  <2>1. Indexed(f) \in Seq(Event) /\ EventTail(f) \in Seq(Event)
    BY <1>2, WholeList
  <2>. QED
    BY <2>1, IndexActive, TailActive, HoldsJoined
<1>4. f.events = Indexed(f) \o EventTail(f)
  BY <1>2, WholeList
<1>5. StabSearch(f, v).next = StartsAfter(f.events, v)
  BY <1>1, TailActive
<1>6. Holds(StabSearch(f, v).out, f.events, Active(v))
  BY <1>1, <1>3, <1>4
<1>. QED
  BY <1>5, <1>6 DEF Exact

\* stab_search finds, for any events in any number, exactly the events active at the
\* value, as often as each was appended, and returns the position of the first event that
\* starts later (stab_search, navigate_index, navigate_stab_tree_node and the copies).
THEOREM ForestSearchExact == Spec => []StabSearchExact
<1>1. ContentInv(forest) => StabSearchExact
  <2>. SUFFICES ASSUME ContentInv(forest), NEW v \in Timestamp
                PROVE  LET found == StabSearch(forest, v)
                       IN /\ \A e \in Event :
                               Occurrences(found.out, e)
                                 = IF ActiveAt(e, v) THEN Occurrences(forest.events, e) ELSE 0
                          /\ found.next = Skip(forest.events, 1, LAMBDA e : e.start <= v)
    BY DEF StabSearchExact
  <2>1. v \in Int
    BY EventFields DEF Timestamp
  <2>2. Exact(forest, v)
    BY <2>1, BeforeExact, InExact, BehindExact
  <2>3. \A e \in Event : Occurrences(StabSearch(forest, v).out, e)
                           = IF ActiveAt(e, v) THEN Occurrences(forest.events, e) ELSE 0
    BY <2>2 DEF Exact, Holds, Active
  <2>4. StabSearch(forest, v).next = Skip(forest.events, 1, LAMBDA e : e.start <= v)
    BY <2>2 DEF Exact, StartsAfter
  <2>. QED
    BY <2>3, <2>4
<1>. QED
  BY <1>1, ForestContentHolds, PTL

---------------------------------------------------------------------------------
(* Every event in one list. *)

\* The trees on the two sides of a node that has any.
LEMMA SettledKids ==
  ASSUME NEW f, Shape(f), NEW j \in Settled(f), NEW h \in Nat, f.nodes[j].height = h + 1,
         NEW d \in Nat, d = Leaves[h]
  PROVE  /\ j - d \in Settled(f) /\ f.nodes[j - d].height = h
         /\ j + d \in Settled(f) /\ f.nodes[j + d].height = h
<1>1. PICK n \in Nat : n = Len(f.nodes) /\ j \in 1..n
  BY UnderNat DEF Settled
<1>2. PICK i \in 1..Len(f.index), lo \in 0..n, hi \in 0..n :
        lo = Under(f, i - 1) /\ hi = Under(f, i) /\ lo < j /\ j <= hi
  <2>1. PICK m \in Nat : m = Len(f.index)
    BY UnderNat
  <2>2. PICK i \in 1..m : Under(f, i - 1) < j /\ j <= Under(f, i)
    BY <1>1, <2>1, Covered
  <2>3. i - 1 \in 0..m /\ i \in 0..m
    OBVIOUS
  <2>4. Under(f, i - 1) \in 0..n /\ Under(f, i) \in 0..n
    BY <1>1, <2>1, <2>3, UnderNat
  <2>. QED
    BY <2>1, <2>2, <2>4
<1>3. j < hi
  <2>1. ASSUME j = hi PROVE FALSE
    <3>1. j = f.index[i].replacement /\ i \in 1..Len(f.index)
      BY <1>2, <2>1, UnderNat
    <3>. QED
      BY <3>1 DEF Settled
  <2>2. j \in Int /\ hi \in Int /\ j <= hi /\ j # hi
    BY <1>1, <1>2, <2>1
  <2>. QED
    BY <2>2
<1>4. TreeNodeOK(f.nodes, lo, j, hi, f.index[i].height)
  <2>1. j \in Nat
    BY <1>1
  <2>. QED
    BY <1>2, <1>3, <2>1 DEF Shape, TreesOK
<1>5. h + 1 # 0 /\ h + 1 > 0 /\ (h + 1) - 1 = h
  OBVIOUS
<1>6. /\ f.nodes[j].left = Tree(j - d) /\ f.nodes[j].right = Tree(j + d)
      /\ f.nodes[j - d].height = h /\ f.nodes[j + d].height = h
  BY <1>4, <1>5 DEF TreeNodeOK, LeftOf, RightOf
<1>7. j - d \in Settled(f) /\ j + d \in Settled(f)
  <2>1. \A p \in {f.nodes[j].left, f.nodes[j].right} : p = Null \/ \E x \in Settled(f) : p = Tree(x)
    BY <1>1, NodeChildren
  <2>. QED
    BY <1>6, <2>1, PointerFacts
<1>. QED
  BY <1>6, <1>7

\* Below a node of a tree are nodes of less height, none of them a forest-point's.
LEMMA SpanLower ==
  ASSUME NEW f, Shape(f), NEW j \in Settled(f), NEW w \in Nat, w = Leaves[f.nodes[j].height] - 1,
         NEW y \in Int, j - w <= y, y <= j + w, y # j
  PROVE  y \in Settled(f) /\ f.nodes[y].height < f.nodes[j].height
<1>. DEFINE Good(h) == \A i \in Settled(f) : f.nodes[i].height = h =>
                         \A x \in Int : /\ i - (Leaves[h] - 1) <= x /\ x <= i + (Leaves[h] - 1) /\ x # i
                                        => x \in Settled(f) /\ f.nodes[x].height < h
            S == {h \in Nat : Good(h)}
<1>1. 0 \in S
  <2>1. Leaves[0] - 1 = 0
    BY LeavesDouble
  <2>2. ASSUME NEW i \in Settled(f), NEW x \in Int, i - 0 <= x, x <= i + 0, x # i PROVE FALSE
    <3>1. i \in Int
      <4>1. Len(f.nodes) \in Nat /\ i \in 1..Len(f.nodes)
        BY UnderNat DEF Settled
      <4>. QED
        BY <4>1
    <3>. QED
      BY <2>2, <3>1
  <2>. QED
    BY <2>1, <2>2
<1>2. ASSUME NEW h \in S PROVE h + 1 \in S
  <2>1. h \in Nat /\ Good(h)
    OBVIOUS
  <2>2. PICK d \in Nat : d = Leaves[h] /\ d > 0 /\ Leaves[h + 1] = 2 * d
    <3>1. Leaves[h] \in Nat /\ Leaves[h] > 0 /\ Leaves[h + 1] = 2 * Leaves[h]
      BY <2>1, LeavesDouble
    <3>. QED
      BY <3>1
  <2>3. ASSUME NEW i \in Settled(f), f.nodes[i].height = h + 1,
               NEW x \in Int, i - (Leaves[h + 1] - 1) <= x, x <= i + (Leaves[h + 1] - 1), x # i
        PROVE  x \in Settled(f) /\ f.nodes[x].height < h + 1
    <3>1. PICK a \in Int, b \in Int : a = i - d /\ b = i + d
      <4>1. i \in Int
        <5>1. Len(f.nodes) \in Nat /\ i \in 1..Len(f.nodes)
          BY UnderNat DEF Settled
        <5>. QED
          BY <5>1
      <4>. QED
        BY <4>1
    <3>2. a \in Settled(f) /\ f.nodes[a].height = h /\ b \in Settled(f) /\ f.nodes[b].height = h
      BY <2>1, <2>2, <2>3, <3>1, SettledKids
    <3>3. \/ a - (d - 1) <= x /\ x <= a + (d - 1)
          \/ b - (d - 1) <= x /\ x <= b + (d - 1)
      <4>1. i \in Int
        <5>1. Len(f.nodes) \in Nat /\ i \in 1..Len(f.nodes)
          BY UnderNat DEF Settled
        <5>. QED
          BY <5>1
      <4>2. i - (2 * d - 1) <= x /\ x <= i + (2 * d - 1)
        BY <2>2, <2>3
      <4>3. ASSUME NEW I \in Int, NEW X \in Int, NEW D \in Nat, X # I,
                   I - (2 * D - 1) <= X, X <= I + (2 * D - 1)
            PROVE  \/ (I - D) - (D - 1) <= X /\ X <= (I - D) + (D - 1)
                   \/ (I + D) - (D - 1) <= X /\ X <= (I + D) + (D - 1)
        BY <4>3
      <4>. QED
        BY <2>3, <3>1, <4>1, <4>2, <4>3
    <3>4. ASSUME NEW c \in {a, b}, c - (d - 1) <= x, x <= c + (d - 1)
          PROVE  x \in Settled(f) /\ f.nodes[x].height < h + 1
      <4>1. CASE x = c
        BY <2>1, <3>2, <4>1
      <4>2. CASE x # c
        <5>1. x \in Settled(f) /\ f.nodes[x].height < h
          BY <2>1, <2>2, <3>2, <3>4, <4>2
        <5>2. f.nodes[x].height \in Nat
          <6>1. x \in 1..Len(f.nodes)
            BY <5>1 DEF Settled
          <6>. QED
            BY <6>1, Keys
        <5>. QED
          BY <2>1, <5>1, <5>2
      <4>. QED
        BY <4>1, <4>2
    <3>. QED
      BY <3>3, <3>4
  <2>4. h + 1 \in Nat
    BY <2>1
  <2>. QED
    BY <2>3, <2>4
<1>3. S = Nat
  <2>1. S \in SUBSET Nat
    OBVIOUS
  <2>. HIDE DEF S
  <2>. QED
    BY <1>1, <1>2, <2>1, NatAll
<1>4. PICK h \in Nat : h = f.nodes[j].height
  <2>1. j \in 1..Len(f.nodes)
    BY DEF Settled
  <2>. QED
    BY <2>1, Keys
<1>5. Good(h)
  <2>1. h \in S
    <3>. HIDE DEF S
    <3>. QED
      BY <1>3
  <2>. QED
    BY <2>1
<1>. QED
  BY <1>4, <1>5

\* A pointer, the node it stands for, and the first and the last node below it.
Span(f, p, x, a, b) ==
  \/ \E j \in Settled(f), w \in Nat :
       w = Leaves[f.nodes[j].height] - 1 /\ p = Tree(j) /\ x = j /\ a = j - w /\ b = j + w
  \/ \E i \in 1..Len(f.index) :
       p = Point(i) /\ x = f.index[i].replacement /\ a = Under(f, i - 1) + 1 /\ b = Len(f.nodes)

\* Two nodes are not below each other.
LEMMA SpansApart ==
  ASSUME NEW f, Shape(f), NEW p, NEW x \in Int, NEW a \in Int, NEW b \in Int, Span(f, p, x, a, b),
         NEW q, NEW y \in Int, NEW c \in Int, NEW d \in Int, Span(f, q, y, c, d),
         a <= y, y <= b, c <= x, x <= d
  PROVE  p = q
<1>1. CASE p = Tree(x) /\ x \in Settled(f) /\ q = Tree(y) /\ y \in Settled(f)
  <2>1. PICK w \in Nat : w = Leaves[f.nodes[x].height] - 1 /\ a = x - w /\ b = x + w
    BY <1>1, PointerFacts DEF Span
  <2>2. PICK z \in Nat : z = Leaves[f.nodes[y].height] - 1 /\ c = y - z /\ d = y + z
    BY <1>1, PointerFacts DEF Span
  <2>3. ASSUME x # y PROVE FALSE
    <3>1. f.nodes[y].height < f.nodes[x].height
      BY <1>1, <2>1, <2>3, SpanLower
    <3>2. f.nodes[x].height < f.nodes[y].height
      BY <1>1, <2>2, <2>3, SpanLower
    <3>3. f.nodes[x].height \in Nat /\ f.nodes[y].height \in Nat
      BY <1>1, Keys DEF Settled
    <3>. QED
      BY <3>1, <3>2, <3>3
  <2>. QED
    BY <1>1, <2>3
<1>2. ASSUME NEW P, NEW X \in Int, NEW A \in Int, NEW B \in Int, NEW Y \in Int,
             P = Tree(X), X \in Settled(f), Span(f, P, X, A, B), A <= Y, Y <= B,
             NEW i \in 1..Len(f.index), Y = f.index[i].replacement
      PROVE  FALSE
  <2>1. PICK w \in Nat : w = Leaves[f.nodes[X].height] - 1 /\ A = X - w /\ B = X + w
    BY <1>2, PointerFacts DEF Span
  <2>2. X # Y
    BY <1>2 DEF Settled
  <2>3. Y \in Settled(f)
    BY <1>2, <2>1, <2>2, SpanLower
  <2>. QED
    BY <1>2, <2>3 DEF Settled
<1>3. ASSUME NEW i \in 1..Len(f.index), NEW k \in 1..Len(f.index), i < k,
             Under(f, k - 1) + 1 <= f.index[i].replacement
      PROVE  FALSE
  <2>1. PICK m \in Nat, n \in Nat : m = Len(f.index) /\ n = Len(f.nodes)
    <3>1. Len(f.index) \in Nat /\ Len(f.nodes) \in Nat
      BY UnderNat
    <3>. QED
      BY <3>1
  <2>2. PICK l \in 1..m : l = k - 1 /\ i <= l /\ l # 0
    BY <1>3, <2>1
  <2>3. Under(f, k - 1) = f.index[l].replacement
    BY <2>2 DEF Under
  <2>4. PICK s \in 1..n, r \in 1..n : s = f.index[i].replacement /\ r = f.index[l].replacement
    <3>1. f.index[i].replacement \in 1..n /\ f.index[l].replacement \in 1..n
      BY <2>1, <2>2 DEF Shape, PointOK
    <3>. QED
      BY <3>1
  <2>5. s <= r
    <3>1. CASE i = l
      BY <2>4, <3>1
    <3>2. CASE i # l
      <4>1. i < l
        BY <2>1, <2>2, <3>2
      <4>2. f.index[i].replacement < f.index[l].replacement
        BY <2>1, <2>2, <4>1 DEF Shape, Counted
      <4>. QED
        BY <2>4, <4>2
    <3>. QED
      BY <3>1, <3>2
  <2>6. r + 1 <= s
    BY <1>3, <2>3, <2>4
  <2>. QED
    BY <2>5, <2>6
<1>4. \/ p = Tree(x) /\ x \in Settled(f)
      \/ \E i \in 1..Len(f.index) : p = Point(i) /\ x = f.index[i].replacement /\ a = Under(f, i - 1) + 1
  BY DEF Span
<1>5. \/ q = Tree(y) /\ y \in Settled(f)
      \/ \E i \in 1..Len(f.index) : q = Point(i) /\ y = f.index[i].replacement /\ c = Under(f, i - 1) + 1
  BY DEF Span
<1>6. CASE /\ \E i \in 1..Len(f.index) : p = Point(i) /\ x = f.index[i].replacement /\ a = Under(f, i - 1) + 1
           /\ \E i \in 1..Len(f.index) : q = Point(i) /\ y = f.index[i].replacement /\ c = Under(f, i - 1) + 1
  <2>1. PICK i \in 1..Len(f.index) : p = Point(i) /\ x = f.index[i].replacement /\ a = Under(f, i - 1) + 1
    BY <1>6
  <2>2. PICK k \in 1..Len(f.index) : q = Point(k) /\ y = f.index[k].replacement /\ c = Under(f, k - 1) + 1
    BY <1>6
  <2>3. ~(i < k)
    BY <1>3, <2>1, <2>2
  <2>4. ~(k < i)
    BY <1>3, <2>1, <2>2
  <2>5. i = k
    BY <2>3, <2>4, UnderNat
  <2>. QED
    BY <2>1, <2>2, <2>5
<1>. QED
  BY <1>1, <1>2, <1>4, <1>5, <1>6

\* Whether one of the lists of a node has an event.
Has(n, e) == Occurrences(n.ded, e) # 0 \/ Occurrences(n.ned, e) # 0

\* Such a node is the one where a search for all of the event's time would end.
LEMMA HasAt ==
  ASSUME NEW f, Shape(f), ListsHold(f), NEW p \in Pointers(f), NEW e \in Event, Has(Node(f, p), e)
  PROVE  \E x, a, b \in 1..Len(f.nodes) :
           /\ Span(f, p, x, a, b) /\ a <= x
           /\ f.nodes[a].nkey <= e.start /\ e.start <= f.nodes[x].dkey /\ f.nodes[x].nkey <= e.end
           /\ b = Len(f.nodes) \/ e.end < f.nodes[b].dkey + 1
<1>1. PICK n \in Nat, m \in Nat : n = Len(f.nodes) /\ m = Len(f.index)
  <2>1. Len(f.nodes) \in Nat /\ Len(f.index) \in Nat
    BY UnderNat
  <2>. QED
    BY <2>1
<1>2. e.start \in Int /\ e.end \in Int /\ e.start <= e.end
  BY EventTimes
<1>3. ASSUME NEW k, NEW all, NEW C, NEW D, Sides(k, all, C, D), Has(k, e)
      PROVE  e \in C \/ e \in D
  BY <1>3 DEF Sides, Holds, Has
<1>4. CASE \E j \in 1..n : p = Tree(j)
  <2>1. PICK j \in 1..n : p = Tree(j)
    BY <1>4
  <2>2. Node(f, p) = f.nodes[j]
    BY <2>1 DEF Node, Tree
  <2>3. j \in Settled(f)
    <3>1. ASSUME j \notin Settled(f) PROVE FALSE
      <4>1. f.nodes[j].ded = <<>> /\ f.nodes[j].ned = <<>>
        BY <1>1, <3>1 DEF ListsHold
      <4>2. Occurrences(<<>>, e) = 0
        <5>1. Holds(<<>>, <<>>, {})
          BY HoldsNone
        <5>. QED
          BY <5>1 DEF Holds
      <4>. QED
        BY <2>2, <4>1, <4>2 DEF Has
    <3>. QED
      BY <3>1
  <2>4. PICK w \in Nat : w = Leaves[f.nodes[j].height] - 1 /\ j - w \in 1..n /\ j + w \in 1..n
    BY <1>1, <2>3, SettledReach
  <2>5. PICK a \in 1..n, b \in 1..n : a = j - w /\ b = j + w /\ a <= j
    BY <2>1, <2>4
  <2>6. Sides(f.nodes[j], Indexed(f), Crossing(f.nodes[a].nkey, f.nodes[j].nkey) \cap Ending(f.nodes[b].dkey + 1),
              Starting(f.nodes[j].dkey) \cap Ending(f.nodes[b].dkey + 1))
    BY <1>1, <2>3, <2>4, <2>5 DEF ListsHold, NodeHolds
  <2>7. \/ e \in Crossing(f.nodes[a].nkey, f.nodes[j].nkey) \cap Ending(f.nodes[b].dkey + 1)
        \/ e \in Starting(f.nodes[j].dkey) \cap Ending(f.nodes[b].dkey + 1)
    BY <1>3, <2>2, <2>6
  <2>8. /\ f.nodes[a].nkey \in Int /\ f.nodes[j].nkey \in Int /\ f.nodes[j].dkey \in Int
        /\ f.nodes[a].nkey <= f.nodes[j].nkey /\ f.nodes[j].nkey <= f.nodes[j].dkey
    <3>1. j <= j
      BY <2>1
    <3>. QED
      BY <1>1, <2>5, <3>1, KeysUp
  <2>9. /\ f.nodes[a].nkey <= e.start /\ e.start <= f.nodes[j].dkey /\ f.nodes[j].nkey <= e.end
        /\ e.end < f.nodes[b].dkey + 1
    BY <1>2, <2>7, <2>8 DEF Crossing, Starting, Ending
  <2>10. Span(f, p, j, a, b)
    BY <2>1, <2>3, <2>4, <2>5 DEF Span
  <2>. QED
    BY <1>1, <2>5, <2>9, <2>10
<1>5. CASE \E i \in 1..m : p = Point(i)
  <2>1. PICK i \in 1..m : p = Point(i)
    BY <1>5
  <2>2. Node(f, p) = f.index[i]
    BY <2>1 DEF Node, Point
  <2>3. PICK t \in 1..n : /\ t = f.index[i].replacement
                          /\ f.index[i].nkey = f.nodes[t].nkey /\ f.index[i].dkey = f.nodes[t].dkey
    BY <1>1 DEF Shape, PointOK
  <2>4. PICK a \in 1..n : a = Under(f, i - 1) + 1 /\ a <= t
    <3>1. i \in 0..m /\ i - 1 \in 0..m
      BY <1>1
    <3>2. PICK k \in Nat : k = Leaves[f.index[i].height] /\ k > 0
      <4>1. f.index[i].height \in Nat
        BY <1>1, UnderNat
      <4>2. Leaves[f.index[i].height] \in Nat /\ Leaves[f.index[i].height] > 0
        BY <4>1, LeavesDouble
      <4>. QED
        BY <4>2
    <3>3. PICK u \in 0..n : u = Under(f, i - 1)
      BY <1>1, <3>1, UnderNat
    <3>4. t = u + k
      BY <1>1, <2>3, <3>2, <3>3, UnderNat DEF Shape, Counted
    <3>5. u + 1 \in 1..n /\ u + 1 <= t
      BY <2>3, <3>2, <3>4
    <3>. QED
      BY <3>3, <3>5
  <2>5. Sides(f.index[i], Indexed(f), Crossing(f.nodes[a].nkey, f.nodes[t].nkey), Starting(f.nodes[t].dkey))
    <3>1. PointHolds(f, i)
      BY <1>1 DEF ListsHold
    <3>. QED
      BY <2>3, <2>4, <3>1 DEF PointHolds
  <2>6. e \in Crossing(f.nodes[a].nkey, f.nodes[t].nkey) \/ e \in Starting(f.nodes[t].dkey)
    BY <1>3, <2>2, <2>5
  <2>7. /\ f.nodes[a].nkey \in Int /\ f.nodes[t].nkey \in Int /\ f.nodes[t].dkey \in Int
        /\ f.nodes[a].nkey <= f.nodes[t].nkey /\ f.nodes[t].nkey <= f.nodes[t].dkey
    <3>1. t <= t
      BY <2>3
    <3>. QED
      BY <1>1, <2>4, <3>1, KeysUp
  <2>8. f.nodes[a].nkey <= e.start /\ e.start <= f.nodes[t].dkey /\ f.nodes[t].nkey <= e.end
    BY <1>2, <2>6, <2>7 DEF Crossing, Starting
  <2>9. n \in 1..n /\ Span(f, p, t, a, n)
    <3>1. i \in 1..Len(f.index)
      BY <1>1
    <3>. QED
      BY <1>1, <2>1, <2>3, <2>4, <3>1 DEF Span
  <2>. QED
    BY <1>1, <2>3, <2>4, <2>8, <2>9
<1>. QED
  BY <1>1, <1>4, <1>5 DEF Pointers

\* What starts at a node's interval or before and lasts to another's is between them.
LEMMA OnlyOneHas ==
  ASSUME NEW f, Shape(f), ListsHold(f), NEW e \in Event,
         NEW p \in Pointers(f), Has(Node(f, p), e), NEW q \in Pointers(f), Has(Node(f, q), e)
  PROVE  p = q
<1>1. PICK n \in Nat : n = Len(f.nodes)
  BY UnderNat
<1>2. PICK x, a, b \in 1..n :
        /\ Span(f, p, x, a, b) /\ a <= x
        /\ f.nodes[a].nkey <= e.start /\ e.start <= f.nodes[x].dkey /\ f.nodes[x].nkey <= e.end
        /\ b = n \/ e.end < f.nodes[b].dkey + 1
  BY <1>1, HasAt
<1>3. PICK y, c, d \in 1..n :
        /\ Span(f, q, y, c, d) /\ c <= y
        /\ f.nodes[c].nkey <= e.start /\ e.start <= f.nodes[y].dkey /\ f.nodes[y].nkey <= e.end
        /\ d = n \/ e.end < f.nodes[d].dkey + 1
  BY <1>1, HasAt
<1>4. e.start \in Int /\ e.end \in Int
  BY EventTimes
<1>5. ASSUME NEW i \in 1..n, NEW k \in 1..n, f.nodes[i].nkey <= e.start, e.start <= f.nodes[k].dkey
      PROVE  i <= k
  <2>1. ASSUME k < i PROVE FALSE
    <3>1. k <= i
      BY <2>1
    <3>2. f.nodes[k].dkey \in Int /\ f.nodes[i].nkey \in Int /\ f.nodes[k].dkey < f.nodes[i].nkey
      BY <1>1, <2>1, <3>1, KeysUp
    <3>. QED
      BY <1>4, <1>5, <3>2
  <2>. QED
    BY <2>1
<1>6. ASSUME NEW i \in 1..n, NEW k \in 1..n, f.nodes[i].nkey <= e.end, k = n \/ e.end < f.nodes[k].dkey + 1
      PROVE  i <= k
  <2>1. ASSUME k < i PROVE FALSE
    <3>1. k <= i /\ k # n
      BY <2>1
    <3>2. f.nodes[k].dkey \in Int /\ f.nodes[i].nkey \in Int /\ f.nodes[k].dkey < f.nodes[i].nkey
      BY <1>1, <2>1, <3>1, KeysUp
    <3>. QED
      BY <1>4, <1>6, <3>1, <3>2
  <2>. QED
    BY <2>1
<1>7. a <= y /\ c <= x
  BY <1>2, <1>3, <1>5
<1>8. y <= b /\ x <= d
  BY <1>2, <1>3, <1>6
<1>. QED
  BY <1>2, <1>3, <1>7, <1>8, SpansApart

\* From a place an indexed event of that place is found in some node's lists.
LEMMA SomeHas ==
  ASSUME NEW f, Shape(f), Linked(f), ListsHold(f), CutOK(f), f.tail \in 1..(Len(f.events) + 1),
         NEW e \in Event, Occurrences(Indexed(f), e) # 0,
         NEW p, NEW low, NEW gone, NEW last, Place(f, p, low, gone, last),
         low <= e.start, e.start <= last, e \in gone
  PROVE  \E q \in Pointers(f) :
           Occurrences(Node(f, q).ded, e) + Occurrences(Node(f, q).ned, e) = Occurrences(Indexed(f), e)
<1>. DEFINE Found == \E q \in Pointers(f) :
                       Occurrences(Node(f, q).ded, e) + Occurrences(Node(f, q).ned, e)
                         = Occurrences(Indexed(f), e)
            Good(k) == \A q, a, g, z : /\ Place(f, q, a, g, z) /\ a <= e.start /\ e.start <= z /\ e \in g
                                       /\ Node(f, q).height < k
                                       => Found
            S == {k \in Nat : Good(k)}
<1>0. e.start \in Int /\ e.end \in Int /\ e.start <= e.end
  BY EventTimes
<1>1. 0 \in S
  <2>1. ASSUME NEW q, NEW a, NEW g, NEW z, Place(f, q, a, g, z), Node(f, q).height < 0 PROVE FALSE
    <3>1. q \in Pointers(f)
      BY <2>1, PlaceStands
    <3>2. Node(f, q).height \in Nat
      BY <3>1, HeightBound
    <3>. QED
      BY <2>1, <3>2
  <2>. QED
    BY <2>1
<1>2. ASSUME NEW k \in S PROVE k + 1 \in S
  <2>1. k \in Nat /\ Good(k)
    OBVIOUS
  <2>2. ASSUME NEW q, NEW a, NEW g, NEW z, Place(f, q, a, g, z), a <= e.start, e.start <= z, e \in g,
               Node(f, q).height < k + 1
        PROVE  Found
    <3>. HIDE DEF Found, Good
    <3>1. q \in Pointers(f) /\ q # Null /\ Stands(Node(f, q), Indexed(f), a, g)
      BY <2>2, PlaceStands
    <3>2. PICK n : n = Node(f, q)
      OBVIOUS
    <3>3. PICK x \in Int, y \in Int : x = n.nkey /\ y = n.dkey /\ x <= y
      BY <3>1, <3>2 DEF Stands
    <3>4. GoesOn(f, n, e.start, a, g, z)
      BY <1>0, <2>2, <3>2, PlaceGoesOn
    <3>5. ASSUME NEW c \in {n.left, n.right}, NEW a2, NEW g2, NEW z2, Place(f, c, a2, g2, z2),
                 a2 <= e.start, e.start <= z2, e \in g2
          PROVE  Found
      <4>1. c \in Pointers(f) /\ c # Null
        BY <3>5, PlaceStands
      <4>2. /\ Node(f, c).height \in Nat /\ Node(f, q).height \in Nat
            /\ Node(f, c).height < Node(f, q).height
        BY <3>1, <3>2, <4>1, Leads
      <4>3. Node(f, c).height < k
        BY <2>1, <2>2, <4>2
      <4>. QED
        BY <2>1, <3>5, <4>3 DEF Good
    <3>6. CASE e.end < x
      <4>1. e.start < n.nkey /\ e \in Ending(n.nkey)
        BY <1>0, <3>3, <3>6 DEF Ending
      <4>2. PICK z2 : Place(f, n.left, a, Ending(n.nkey), z2) /\ e.start <= z2
        BY <3>4, <4>1 DEF GoesOn
      <4>. QED
        BY <2>2, <3>5, <4>1, <4>2
    <3>7. CASE y < e.start
      <4>1. Place(f, n.right, n.dkey + 1, g, z)
        BY <3>3, <3>4, <3>7 DEF GoesOn
      <4>2. n.dkey + 1 <= e.start
        BY <1>0, <3>3, <3>7
      <4>. QED
        BY <2>2, <3>5, <4>1, <4>2
    <3>8. CASE x <= e.end /\ e.start <= y
      <4>1. Sides(n, Indexed(f), Crossing(a, x) \cap g, Starting(y) \cap g)
        BY <3>1, <3>2, <3>3 DEF Stands
      <4>2. Holds(n.ned, Indexed(f), Crossing(a, x) \cap g) /\ Holds(n.ded, Indexed(f), Starting(y) \cap g)
        BY <4>1 DEF Sides
      <4>3. x <= e.start => e.start = y
        BY <3>1, <3>2, <3>3, <3>8 DEF Stands
      <4>4. \/ e \in Crossing(a, x) \cap g /\ e \notin Starting(y) \cap g
            \/ e \notin Crossing(a, x) \cap g /\ e \in Starting(y) \cap g
        BY <1>0, <2>2, <3>3, <3>8, <4>3 DEF Crossing, Starting
      <4>5. PICK N : N = Occurrences(Indexed(f), e)
        OBVIOUS
      <4>6. N \in Nat
        <5>1. Len(Indexed(f)) \in Nat
          <6>1. PICK l \in Nat : l = Len(f.events) /\ f.events \in Seq(Event)
            BY DEF Shape, Typed
          <6>2. f.tail - 1 \in 0..Len(f.events)
            BY <6>1
          <6>3. Indexed(f) \in Seq(Event)
            BY <6>1, <6>2, TwoParts DEF Indexed
          <6>. QED
            BY <6>3
        <5>. QED
          BY <4>5, <5>1, OccNat
      <4>7. \/ Occurrences(n.ned, e) = N /\ Occurrences(n.ded, e) = 0
            \/ Occurrences(n.ned, e) = 0 /\ Occurrences(n.ded, e) = N
        BY <4>2, <4>4, <4>5 DEF Holds
      <4>8. Occurrences(n.ded, e) + Occurrences(n.ned, e) = N
        BY <4>6, <4>7
      <4>. QED
        BY <3>1, <3>2, <4>5, <4>8 DEF Found
    <3>. QED
      BY <1>0, <3>3, <3>6, <3>7, <3>8
  <2>3. k + 1 \in Nat
    BY <2>1
  <2>. QED
    BY <2>2, <2>3
<1>3. S = Nat
  <2>1. S \in SUBSET Nat
    OBVIOUS
  <2>. HIDE DEF S
  <2>. QED
    BY <1>1, <1>2, <2>1, NatAll
<1>4. PICK h \in Nat : h = Node(f, p).height
  <2>1. p \in Pointers(f)
    BY PlaceStands
  <2>. QED
    BY <2>1, HeightBound
<1>5. h + 1 \in S /\ h < h + 1
  <2>. HIDE DEF S
  <2>. QED
    BY <1>3
<1>6. Good(h + 1)
  BY <1>5
<1>. QED
  BY <1>4, <1>5, <1>6

\* So one node has an indexed event, as often as it was appended, and no other does.
LEMMA OneHas ==
  ASSUME NEW f, ContentInv(f), NEW e \in Event, Occurrences(Indexed(f), e) # 0
  PROVE  \E p \in Pointers(f) :
           /\ Occurrences(Node(f, p).ded, e) + Occurrences(Node(f, p).ned, e) = Occurrences(Indexed(f), e)
           /\ \A q \in Pointers(f) : Has(Node(f, q), e) => q = p
<1>1. /\ Shape(f) /\ Linked(f) /\ ListsHold(f) /\ CutOK(f) /\ EventsOK(f)
      /\ f.tail \in 1..(Len(f.events) + 1)
  BY DEF ContentInv, ForestInv, EventsOK
<1>2. PICK n \in Nat, m \in Nat : n = Len(f.nodes) /\ m = Len(f.index) /\ (m = 0 <=> n = 0)
  <2>1. Len(f.nodes) \in Nat /\ Len(f.index) \in Nat /\ (Len(f.index) = 0 <=> Len(f.nodes) = 0)
    BY <1>1, UnderNat
  <2>. QED
    BY <2>1
<1>3. /\ Occurrences(f.events, e) # 0 /\ n > 0 /\ e.start <= f.nodes[n].dkey
      /\ f.minKey <= e.start
  <2>1. Occurrences(f.events, e) # 0 /\ n > 0 /\ e.start <= f.nodes[n].dkey
    BY <1>2, WhereEventsStart
  <2>. QED
    BY <2>1, WhereEventsStart
<1>4. Place(f, Point(1), f.nodes[1].nkey, Event, f.nodes[n].dkey) /\ f.nodes[1].nkey = f.minKey
  <2>1. m > 0
    BY <1>2, <1>3
  <2>. QED
    BY <1>1, <1>2, <2>1, IndexEnds
<1>5. PICK p \in Pointers(f) :
        Occurrences(Node(f, p).ded, e) + Occurrences(Node(f, p).ned, e) = Occurrences(Indexed(f), e)
  BY <1>1, <1>3, <1>4, SomeHas
<1>6. Has(Node(f, p), e)
  <2>1. ASSUME Occurrences(Node(f, p).ded, e) = 0, Occurrences(Node(f, p).ned, e) = 0 PROVE FALSE
    BY <1>5, <2>1
  <2>. QED
    BY <2>1 DEF Has
<1>7. \A q \in Pointers(f) : Has(Node(f, q), e) => q = p
  BY <1>1, <1>6, OnlyOneHas
<1>. QED
  BY <1>5, <1>7

\* s are n lists of events, and none but that at c has the event.
OnlyAt(s, n, c, e) ==
  /\ n \in Nat /\ c \in 1..n /\ Len(s) = n
  /\ \A i \in 1..n : s[i] \in Seq(Event)
  /\ \A i \in 1..n : i # c => Occurrences(s[i], e) = 0

\* Lists behind each other of which one at most has an event have it as often as that one.
LEMMA FlatOnly ==
  ASSUME NEW n \in Nat, NEW s, Len(s) = n, \A i \in 1..n : s[i] \in Seq(Event),
         NEW e, NEW c \in 1..n, \A i \in 1..n : i # c => Occurrences(s[i], e) = 0
  PROVE  FlattenSeq(s) \in Seq(Event) /\ Occurrences(FlattenSeq(s), e) = Occurrences(s[c], e)
<1>1. PICK g : FlatBy(s, n, g)
  BY FlatSteps
<1>2. /\ g[1] = s[1] /\ FlattenSeq(s) = g[n]
      /\ \A i \in 1..n : i + 1 <= n => g[i + 1] = g[i] \o s[i + 1]
  BY <1>1 DEF FlatBy
<1>3. PICK N \in Nat : N = Occurrences(s[c], e)
  <2>1. Len(s[c]) \in Nat
    BY s[c] \in Seq(Event)
  <2>. QED
    BY <2>1, OccNat
<1>. DEFINE Good(i) == g[i] \in Seq(Event) /\ Occurrences(g[i], e) = IF c <= i THEN N ELSE 0
            S == {k \in Nat : k + 1 <= n => Good(k + 1)}
<1>4. 0 \in S
  <2>1. 1 \in 1..n /\ 0 + 1 = 1
    OBVIOUS
  <2>2. c <= 1 <=> c = 1
    OBVIOUS
  <2>3. Good(1)
    BY <1>2, <1>3, <2>1, <2>2
  <2>. QED
    BY <2>1, <2>3
<1>5. ASSUME NEW k \in S PROVE k + 1 \in S
  <2>1. k \in Nat /\ (k + 1 <= n => Good(k + 1))
    OBVIOUS
  <2>2. PICK i \in Nat : i = k + 1 /\ i > 0
    BY <2>1
  <2>3. ASSUME i + 1 <= n PROVE Good(i + 1)
    <3>1. i \in 1..n /\ i + 1 \in 1..n
      BY <2>2, <2>3
    <3>2. Good(i)
      BY <2>1, <2>2, <3>1
    <3>3. PICK a \in Seq(Event), b \in Seq(Event) : a = g[i] /\ b = s[i + 1]
      BY <3>1, <3>2
    <3>4. g[i + 1] = a \o b
      <4>1. g[i + 1] = g[i] \o s[i + 1]
        BY <1>2, <2>3, <3>1
      <4>. QED
        BY <3>3, <4>1
    <3>5. a \o b \in Seq(Event) /\ Occurrences(a \o b, e) = Occurrences(a, e) + Occurrences(b, e)
      BY OccBoth
    <3>6. Occurrences(a, e) = IF c <= i THEN N ELSE 0
      BY <3>2, <3>3
    <3>7. Occurrences(b, e) = IF c = i + 1 THEN N ELSE 0
      BY <1>3, <3>1, <3>3
    <3>8. Occurrences(a, e) + Occurrences(b, e) = IF c <= i + 1 THEN N ELSE 0
      BY <2>2, <3>6, <3>7
    <3>. QED
      BY <3>4, <3>5, <3>8
  <2>4. k + 1 \in Nat
    BY <2>1
  <2>. HIDE DEF Good
  <2>. QED
    BY <2>2, <2>3, <2>4
<1>6. S = Nat
  <2>1. S \in SUBSET Nat
    OBVIOUS
  <2>. HIDE DEF S
  <2>. QED
    BY <1>4, <1>5, <2>1, NatAll
<1>7. PICK k \in Nat : k + 1 = n
  <2>1. n - 1 \in Nat /\ (n - 1) + 1 = n
    OBVIOUS
  <2>. QED
    BY <2>1
<1>8. k \in S
  BY <1>6
<1>9. Good(n)
  BY <1>7, <1>8
<1>10. c <= n
  OBVIOUS
<1>. QED
  BY <1>2, <1>3, <1>9, <1>10

\* The same, said in one word.
LEMMA FlatOnlyAt ==
  ASSUME NEW s, NEW n, NEW c, NEW e, OnlyAt(s, n, c, e)
  PROVE  FlattenSeq(s) \in Seq(Event) /\ Occurrences(FlattenSeq(s), e) = Occurrences(s[c], e)
BY FlatOnly DEF OnlyAt

\* The nodes and the forest-points behind each other.
AllNodes(f) == f.nodes \o f.index
ListsOf(f, field) == [i \in DOMAIN AllNodes(f) |-> AllNodes(f)[i][field]]

\* Of two sequences, n and m long, t has those of the first and then those of the second.
BothIn(t, a, b, n, m) ==
  /\ DOMAIN t = 1..(n + m)
  /\ \A i \in 1..n : i \in 1..(n + m) /\ t[i] = a[i]
  /\ \A i \in 1..m : n + i \in 1..(n + m) /\ t[n + i] = b[i]
  /\ \A i \in 1..(n + m) : i \in 1..n \/ \E k \in 1..m : i = n + k

\* So many nodes and forest-points there are.
Wide(f, n, m) == n = Len(f.nodes) /\ m = Len(f.index)

\* Where the elements of two sequences are in both joined.
LEMMA JoinedPlaces ==
  ASSUME NEW S, NEW s \in Seq(S), NEW T, NEW t \in Seq(T), NEW n \in Nat, n = Len(s), NEW m \in Nat, m = Len(t)
  PROVE  BothIn(s \o t, s, t, n, m)
<1>1. s \in Seq(S \cup T) /\ t \in Seq(S \cup T)
  OBVIOUS
<1>2. s \o t \in Seq(S \cup T) /\ Len(s \o t) = n + m
  BY <1>1
<1>3. \A i \in 1..n : i \in 1..(n + m) /\ (s \o t)[i] = s[i]
  BY <1>1
<1>4. \A i \in 1..m : n + i \in 1..(n + m) /\ (s \o t)[n + i] = t[i]
  BY <1>1
<1>5. ASSUME NEW i \in 1..(n + m) PROVE i \in 1..n \/ \E k \in 1..m : i = n + k
  <2>1. i \in 1..n \/ (i - n \in 1..m /\ i = n + (i - n))
    OBVIOUS
  <2>. QED
    BY <2>1
<1>. QED
  BY <1>2, <1>3, <1>4, <1>5 DEF BothIn

\* The nodes and the forest-points behind each other are all of them.
LEMMA AllPlaces ==
  ASSUME NEW f, Shape(f)
  PROVE  \E n \in Nat, m \in Nat : Wide(f, n, m) /\ BothIn(AllNodes(f), f.nodes, f.index, n, m)
<1>1. f.nodes \in Seq(NodeRecord) /\ f.index \in Seq(PointRecord)
  BY DEF Shape, Typed
<1>2. \A n \in Nat, m \in Nat : n = Len(f.nodes) /\ m = Len(f.index)
                                  => BothIn(f.nodes \o f.index, f.nodes, f.index, n, m)
  BY <1>1, JoinedPlaces
<1>3. Len(f.nodes) \in Nat /\ Len(f.index) \in Nat
  BY <1>1
<1>. QED
  BY <1>2, <1>3 DEF AllNodes, Wide

\* Where the lists of each node are among all.
LEMMA FieldPlaces ==
  ASSUME NEW f, NEW n \in Nat, NEW m \in Nat, NEW field,
         BothIn(AllNodes(f), f.nodes, f.index, n, m)
  PROVE  /\ ListsOf(f, field) = [i \in 1..(n + m) |-> ListsOf(f, field)[i]]
         /\ \A i \in 1..n : i \in 1..(n + m) /\ ListsOf(f, field)[i] = f.nodes[i][field]
         /\ \A i \in 1..m : n + i \in 1..(n + m) /\ ListsOf(f, field)[n + i] = f.index[i][field]
         /\ \A i \in 1..(n + m) : i \in 1..n \/ \E k \in 1..m : i = n + k
BY DEF BothIn, ListsOf

\* An event that no node has in a list but one has it, in all these lists, as often as that.
LEMMA FieldCount ==
  ASSUME NEW f, Shape(f), NEW e, NEW p \in Pointers(f), NEW field,
         \A q \in Pointers(f) : /\ Node(f, q)[field] \in Seq(Event)
                                /\ q # p => Occurrences(Node(f, q)[field], e) = 0
  PROVE  /\ FlattenSeq(ListsOf(f, field)) \in Seq(Event)
         /\ Occurrences(FlattenSeq(ListsOf(f, field)), e) = Occurrences(Node(f, p)[field], e)
<1>1. PICK n \in Nat, m \in Nat : Wide(f, n, m) /\ BothIn(AllNodes(f), f.nodes, f.index, n, m)
  BY AllPlaces
<1>2. PICK s : s = ListsOf(f, field)
  OBVIOUS
<1>3. /\ s = [i \in 1..(n + m) |-> s[i]]
      /\ \A i \in 1..n : i \in 1..(n + m) /\ s[i] = f.nodes[i][field]
      /\ \A i \in 1..m : n + i \in 1..(n + m) /\ s[n + i] = f.index[i][field]
      /\ \A i \in 1..(n + m) : i \in 1..n \/ \E k \in 1..m : i = n + k
  BY <1>1, <1>2, FieldPlaces
<1>4. ASSUME NEW i \in 1..n
      PROVE  /\ Tree(i) \in Pointers(f) /\ s[i] = Node(f, Tree(i))[field] /\ s[i] \in Seq(Event)
             /\ p # Tree(i) => Occurrences(s[i], e) = 0
  <2>1. Tree(i) \in Pointers(f)
    BY <1>1 DEF Pointers, Wide
  <2>2. Node(f, Tree(i)) = f.nodes[i]
    BY DEF Node, Tree
  <2>. QED
    BY <1>3, <2>1, <2>2
<1>5. ASSUME NEW i \in 1..m
      PROVE  /\ Point(i) \in Pointers(f) /\ s[n + i] = Node(f, Point(i))[field] /\ s[n + i] \in Seq(Event)
             /\ p # Point(i) => Occurrences(s[n + i], e) = 0
  <2>1. Point(i) \in Pointers(f)
    BY <1>1 DEF Pointers, Wide
  <2>2. Node(f, Point(i)) = f.index[i]
    BY DEF Node, Point
  <2>. QED
    BY <1>3, <2>1, <2>2
<1>6. \A i \in 1..(n + m) : s[i] \in Seq(Event)
  BY <1>3, <1>4, <1>5
<1>7. \E c \in 1..(n + m) : /\ s[c] = Node(f, p)[field]
                            /\ \A i \in 1..(n + m) : i # c => Occurrences(s[i], e) = 0
  <2>1. CASE \E c \in 1..n : p = Tree(c)
    <3>1. PICK c \in 1..n : p = Tree(c)
      BY <2>1
    <3>2. c \in 1..(n + m) /\ s[c] = Node(f, p)[field]
      BY <1>3, <1>4, <3>1
    <3>3. ASSUME NEW i \in 1..(n + m), i # c PROVE Occurrences(s[i], e) = 0
      <4>1. CASE i \in 1..n
        <5>1. p # Tree(i)
          BY <3>1, <3>3, PointerFacts
        <5>. QED
          BY <1>4, <4>1, <5>1
      <4>2. CASE \E k \in 1..m : i = n + k
        <5>1. PICK k \in 1..m : i = n + k
          BY <4>2
        <5>2. p # Point(k)
          BY <3>1, PointerFacts
        <5>. QED
          BY <1>5, <5>1, <5>2
      <4>. QED
        BY <1>3, <4>1, <4>2
    <3>. QED
      BY <3>2, <3>3
  <2>2. CASE \E c \in 1..m : p = Point(c)
    <3>1. PICK c \in 1..m : p = Point(c)
      BY <2>2
    <3>2. n + c \in 1..(n + m) /\ s[n + c] = Node(f, p)[field]
      BY <1>3, <1>5, <3>1
    <3>3. ASSUME NEW i \in 1..(n + m), i # n + c PROVE Occurrences(s[i], e) = 0
      <4>1. CASE i \in 1..n
        <5>1. p # Tree(i)
          BY <3>1, PointerFacts
        <5>. QED
          BY <1>4, <4>1, <5>1
      <4>2. CASE \E k \in 1..m : i = n + k
        <5>1. PICK k \in 1..m : i = n + k
          BY <4>2
        <5>2. p # Point(k)
          BY <3>1, <3>3, <5>1, PointerFacts
        <5>. QED
          BY <1>5, <5>1, <5>2
      <4>. QED
        BY <1>3, <4>1, <4>2
    <3>. QED
      BY <3>2, <3>3
  <2>. QED
    BY <1>1, <2>1, <2>2 DEF Pointers, Wide
<1>8. PICK c \in 1..(n + m) : /\ s[c] = Node(f, p)[field]
                              /\ \A i \in 1..(n + m) : i # c => Occurrences(s[i], e) = 0
  BY <1>7
<1>9. n + m \in Nat /\ Len(s) = n + m
  <2>1. n + m \in Nat
    OBVIOUS
  <2>. QED
    BY <1>3, <2>1
<1>10. PICK N \in Nat : N = n + m
  BY <1>9
<1>11. FlattenSeq(s) \in Seq(Event) /\ Occurrences(FlattenSeq(s), e) = Occurrences(s[c], e)
  <2>1. Len(s) = N /\ \A i \in 1..N : s[i] \in Seq(Event)
    BY <1>6, <1>9, <1>10
  <2>2. c \in 1..N /\ \A i \in 1..N : i # c => Occurrences(s[i], e) = 0
    BY <1>8, <1>10
  <2>3. OnlyAt(s, N, c, e)
    BY <2>1, <2>2 DEF OnlyAt
  <2>. QED
    BY <2>3, FlatOnlyAt
<1>. QED
  BY <1>2, <1>8, <1>11

\* Whatever events the lists of a node have are indexed, and both lists of the events
\* active at its navigation key have the same.
LEMMA SidesCount ==
  ASSUME NEW n, NEW all, NEW C, NEW D, Sides(n, all, C, D), NEW e \in Event
  PROVE  /\ n.ded \in Seq(Event) /\ n.ned \in Seq(Event) /\ n.nsa \in Seq(Event)
         /\ Occurrences(n.nsa, e) = Occurrences(n.ned, e)
         /\ Occurrences(all, e) = 0 => Occurrences(n.ded, e) = 0 /\ Occurrences(n.ned, e) = 0
<1>1. Holds(n.nsa, all, C) /\ Holds(n.ned, all, C) /\ Holds(n.ded, all, D)
  BY DEF Sides
<1>. QED
  BY <1>1 DEF Holds

\* An empty list has no event.
LEMMA NoneInEmpty ==
  ASSUME NEW e
  PROVE  Occurrences(<<>>, e) = 0
<1>1. Len(<<>>) = 0 /\ Len(<<>>) \in Nat
  OBVIOUS
<1>2. \A i \in 1..Len(<<>>) : FALSE
  BY <1>1
<1>3. PICK s : s = <<>>
  OBVIOUS
<1>4. Len(s) \in Nat /\ \A i \in 1..Len(s) : s[i] # e
  BY <1>1, <1>2, <1>3
<1>5. Occurrences(s, e) = 0
  BY <1>4, OccNat
<1>. QED
  BY <1>3, <1>5

\* The same of every node and forest-point.
LEMMA ListCount ==
  ASSUME NEW f, ContentInv(f), NEW e \in Event, NEW p \in Pointers(f)
  PROVE  /\ Node(f, p).ded \in Seq(Event) /\ Node(f, p).ned \in Seq(Event) /\ Node(f, p).nsa \in Seq(Event)
         /\ Occurrences(Node(f, p).nsa, e) = Occurrences(Node(f, p).ned, e)
         /\ Occurrences(Indexed(f), e) = 0
              => Occurrences(Node(f, p).ded, e) = 0 /\ Occurrences(Node(f, p).ned, e) = 0
<1>1. ListsHold(f)
  BY DEF ContentInv
<1>2. PICK n : n = Node(f, p)
  OBVIOUS
<1>. DEFINE Good(x) == /\ x.ded \in Seq(Event) /\ x.ned \in Seq(Event) /\ x.nsa \in Seq(Event)
                       /\ Occurrences(x.nsa, e) = Occurrences(x.ned, e)
                       /\ Occurrences(Indexed(f), e) = 0
                            => Occurrences(x.ded, e) = 0 /\ Occurrences(x.ned, e) = 0
<1>3. CASE \E i \in 1..Len(f.index) : p = Point(i)
  <2>1. PICK i \in 1..Len(f.index) : p = Point(i)
    BY <1>3
  <2>2. Node(f, p) = f.index[i]
    BY <2>1 DEF Node, Point
  <2>3. PointHolds(f, i)
    BY <1>1 DEF ListsHold
  <2>4. \E C, D : Sides(n, Indexed(f), C, D)
    BY <1>2, <2>2, <2>3 DEF PointHolds
  <2>5. Good(n)
    BY <2>4, SidesCount
  <2>. QED
    BY <1>2, <2>5
<1>4. CASE \E j \in 1..Len(f.nodes) : p = Tree(j)
  <2>1. PICK j \in 1..Len(f.nodes) : p = Tree(j)
    BY <1>4
  <2>2. Node(f, p) = f.nodes[j]
    BY <2>1 DEF Node, Tree
  <2>3. CASE j \in Settled(f)
    <3>1. NodeHolds(f, j)
      BY <1>1, <2>3 DEF ListsHold
    <3>2. \E C, D : Sides(n, Indexed(f), C, D)
      BY <1>2, <2>2, <3>1 DEF NodeHolds
    <3>3. Good(n)
      BY <3>2, SidesCount
    <3>. QED
      BY <1>2, <3>3
  <2>4. CASE j \notin Settled(f)
    <3>1. n.nsa = <<>> /\ n.ded = <<>> /\ n.ned = <<>>
      BY <1>1, <1>2, <2>2, <2>4 DEF ListsHold
    <3>2. <<>> \in Seq(Event) /\ Occurrences(<<>>, e) = 0
      BY NoneInEmpty
    <3>3. Good(n)
      BY <3>1, <3>2
    <3>. QED
      BY <1>2, <3>3
  <2>. QED
    BY <2>3, <2>4
<1>. QED
  BY <1>3, <1>4 DEF Pointers

\* The lists of a field that only one node may have the event in, all together.
LEMMA DedCount ==
  ASSUME NEW f, Shape(f), NEW e, NEW p \in Pointers(f),
         \A q \in Pointers(f) : /\ Node(f, q).ded \in Seq(Event)
                                /\ q # p => Occurrences(Node(f, q).ded, e) = 0
  PROVE  /\ FlattenSeq(ListsOf(f, "ded")) \in Seq(Event)
         /\ Occurrences(FlattenSeq(ListsOf(f, "ded")), e) = Occurrences(Node(f, p).ded, e)
<1>1. \A q \in Pointers(f) : /\ Node(f, q)["ded"] \in Seq(Event)
                             /\ q # p => Occurrences(Node(f, q)["ded"], e) = 0
  OBVIOUS
<1>2. Occurrences(Node(f, p)["ded"], e) = Occurrences(Node(f, p).ded, e)
  OBVIOUS
<1>. QED
  BY <1>1, <1>2, FieldCount

\* ... and in the other lists.
LEMMA NedCount ==
  ASSUME NEW f, Shape(f), NEW e, NEW p \in Pointers(f),
         \A q \in Pointers(f) : /\ Node(f, q).ned \in Seq(Event)
                                /\ q # p => Occurrences(Node(f, q).ned, e) = 0
  PROVE  /\ FlattenSeq(ListsOf(f, "ned")) \in Seq(Event)
         /\ Occurrences(FlattenSeq(ListsOf(f, "ned")), e) = Occurrences(Node(f, p).ned, e)
<1>1. \A q \in Pointers(f) : /\ Node(f, q)["ned"] \in Seq(Event)
                             /\ q # p => Occurrences(Node(f, q)["ned"], e) = 0
  OBVIOUS
<1>2. Occurrences(Node(f, p)["ned"], e) = Occurrences(Node(f, p).ned, e)
  OBVIOUS
<1>. QED
  BY <1>1, <1>2, FieldCount

\* A forest without nodes has no lists.
LEMMA NoLists ==
  ASSUME NEW f, Shape(f), Pointers(f) = {}, NEW field
  PROVE  FlattenSeq(ListsOf(f, field)) = <<>>
<1>1. PICK n \in Nat, m \in Nat : Wide(f, n, m) /\ BothIn(AllNodes(f), f.nodes, f.index, n, m)
  BY AllPlaces
<1>2. n = 0 /\ m = 0
  <2>1. ASSUME n > 0 PROVE FALSE
    <3>1. 1 \in 1..n
      BY <2>1
    <3>2. Tree(1) \in Pointers(f)
      BY <1>1, <3>1 DEF Pointers, Wide
    <3>. QED
      BY <3>2
  <2>2. ASSUME m > 0 PROVE FALSE
    <3>1. 1 \in 1..m
      BY <2>2
    <3>2. Point(1) \in Pointers(f)
      BY <1>1, <3>1 DEF Pointers, Wide
    <3>. QED
      BY <3>2
  <2>. QED
    BY <2>1, <2>2
<1>3. PICK s : s = ListsOf(f, field)
  OBVIOUS
<1>4. DOMAIN AllNodes(f) = {}
  BY <1>1, <1>2 DEF BothIn
<1>5. s = [i \in {} |-> s[i]]
  BY <1>3, <1>4 DEF ListsOf
<1>6. s = <<>>
  BY <1>5
<1>7. Len(s) = 0
  BY <1>6
<1>8. FlattenSeq(s) = s
  BY <1>7, FlatSteps
<1>. QED
  BY <1>3, <1>6, <1>8

\* Of an event all lists together have as much as the indexed part of the event list.
LEMMA AllCount ==
  ASSUME NEW f, ContentInv(f), NEW e \in Event
  PROVE  Occurrences(FlattenSeq(ListsOf(f, "ded")) \o FlattenSeq(ListsOf(f, "ned")), e)
           = Occurrences(Indexed(f), e)
<1>1. Shape(f)
  BY DEF ContentInv, ForestInv
<1>2. PICK d, x : d = FlattenSeq(ListsOf(f, "ded")) /\ x = FlattenSeq(ListsOf(f, "ned"))
  OBVIOUS
<1>3. ASSUME d \in Seq(Event), x \in Seq(Event)
      PROVE  Occurrences(d \o x, e) = Occurrences(d, e) + Occurrences(x, e)
  BY <1>3, OccBoth
<1>4. CASE Occurrences(Indexed(f), e) # 0
  <2>1. PICK p \in Pointers(f) :
          /\ Occurrences(Node(f, p).ded, e) + Occurrences(Node(f, p).ned, e) = Occurrences(Indexed(f), e)
          /\ \A q \in Pointers(f) : Has(Node(f, q), e) => q = p
    BY <1>4, OneHas
  <2>2. \A q \in Pointers(f) : /\ Node(f, q).ded \in Seq(Event) /\ Node(f, q).ned \in Seq(Event)
                               /\ q # p => /\ Occurrences(Node(f, q).ded, e) = 0
                                           /\ Occurrences(Node(f, q).ned, e) = 0
    BY <2>1, ListCount DEF Has
  <2>3. d \in Seq(Event) /\ Occurrences(d, e) = Occurrences(Node(f, p).ded, e)
    BY <1>1, <1>2, <2>2, DedCount
  <2>4. x \in Seq(Event) /\ Occurrences(x, e) = Occurrences(Node(f, p).ned, e)
    BY <1>1, <1>2, <2>2, NedCount
  <2>. QED
    BY <1>2, <1>3, <2>1, <2>3, <2>4
<1>5. CASE Occurrences(Indexed(f), e) = 0
  <2>1. \A q \in Pointers(f) : /\ Node(f, q).ded \in Seq(Event) /\ Node(f, q).ned \in Seq(Event)
                               /\ Occurrences(Node(f, q).ded, e) = 0 /\ Occurrences(Node(f, q).ned, e) = 0
    BY <1>5, ListCount
  <2>2. CASE Pointers(f) = {}
    <3>1. d = <<>> /\ x = <<>>
      BY <1>1, <1>2, <2>2, NoLists
    <3>2. <<>> \in Seq(Event) /\ Occurrences(<<>>, e) = 0
      BY NoneInEmpty
    <3>3. Occurrences(d \o x, e) = 0
      BY <1>3, <3>1, <3>2
    <3>. QED
      BY <1>2, <1>5, <3>3
  <2>3. CASE Pointers(f) # {}
    <3>1. PICK p \in Pointers(f) : TRUE
      BY <2>3
    <3>2. d \in Seq(Event) /\ Occurrences(d, e) = 0
      BY <1>1, <1>2, <2>1, <3>1, DedCount
    <3>3. x \in Seq(Event) /\ Occurrences(x, e) = 0
      BY <1>1, <1>2, <2>1, <3>1, NedCount
    <3>. QED
      BY <1>2, <1>3, <1>5, <3>2, <3>3
  <2>. QED
    BY <2>2, <2>3
<1>. QED
  BY <1>4, <1>5

\* No merge of forest-points loses an event or puts it into two nodes: together the nodes
\* and forest-points have each indexed event as often as it was appended, and nothing else
\* (merge_forest_points, copy_start_asc, copy_end_dec).
THEOREM ForestEventsOnce == Spec => []EachEventOnce
<1>1. ContentInv(forest) => EachEventOnce
  <2>. SUFFICES ASSUME ContentInv(forest) PROVE EachEventOnce
    OBVIOUS
  <2>1. ASSUME NEW e \in Event
        PROVE  Occurrences(FlattenSeq(ListsOf(forest, "ded")) \o FlattenSeq(ListsOf(forest, "ned")), e)
                 = Occurrences(SubSeq(forest.events, 1, forest.tail - 1), e)
    BY AllCount DEF Indexed
  <2>2. ASSUME NEW e \in Event, NEW n \in Nodes \cup Points
        PROVE  Occurrences(n.nsa, e) = Occurrences(n.ned, e)
    <3>1. forest.nodes \in Seq(NodeRecord) /\ forest.index \in Seq(PointRecord)
      BY DEF ContentInv, ForestInv, Shape, Typed
    <3>2. (\E j \in 1..Len(forest.nodes) : n = forest.nodes[j]) \/ (\E i \in 1..Len(forest.index) : n = forest.index[i])
      BY <3>1 DEF Nodes, Points, ToSet
    <3>3. \E p \in Pointers(forest) : n = Node(forest, p)
      <4>1. \A j \in 1..Len(forest.nodes) : Tree(j) \in Pointers(forest) /\ Node(forest, Tree(j)) = forest.nodes[j]
        BY DEF Pointers, Node, Tree
      <4>2. \A i \in 1..Len(forest.index) : Point(i) \in Pointers(forest) /\ Node(forest, Point(i)) = forest.index[i]
        BY DEF Pointers, Node, Point
      <4>. QED
        BY <3>2, <4>1, <4>2
    <3>. QED
      BY <3>3, ListCount
  <2>3. /\ ListsOf(forest, "ded") = LET all == forest.nodes \o forest.index IN [i \in DOMAIN all |-> all[i]["ded"]]
        /\ ListsOf(forest, "ned") = LET all == forest.nodes \o forest.index IN [i \in DOMAIN all |-> all[i]["ned"]]
    BY DEF ListsOf, AllNodes
  <2>. QED
    BY <2>1, <2>2, <2>3 DEF EachEventOnce
<1>. QED
  BY <1>1, ForestContentHolds, PTL

---------------------------------------------------------------------------------
(* What a stab that looks from start c on writes of what a search would copy. *)

\* t has what s has of the starts after c, nothing of those before, and of c's perhaps less.
Forwards(t, s, c) ==
  /\ t \in Seq(Event) /\ s \in Seq(Event)
  /\ \A e \in Event : /\ Occurrences(t, e) <= Occurrences(s, e)
                      /\ e.start < c => Occurrences(t, e) = 0
                      /\ c < e.start => Occurrences(t, e) = Occurrences(s, e)

\* Piece by piece.
LEMMA ForwardsBoth ==
  ASSUME NEW a, NEW b, NEW s, NEW t, NEW c, Forwards(a, s, c), Forwards(b, t, c)
  PROVE  Forwards(a \o b, s \o t, c)
<1>1. a \in Seq(Event) /\ b \in Seq(Event) /\ s \in Seq(Event) /\ t \in Seq(Event)
  BY DEF Forwards
<1>2. a \o b \in Seq(Event) /\ s \o t \in Seq(Event)
  BY <1>1
<1>3. ASSUME NEW e \in Event
      PROVE  /\ Occurrences(a \o b, e) <= Occurrences(s \o t, e)
             /\ e.start < c => Occurrences(a \o b, e) = 0
             /\ c < e.start => Occurrences(a \o b, e) = Occurrences(s \o t, e)
  <2>1. /\ Occurrences(a \o b, e) = Occurrences(a, e) + Occurrences(b, e)
        /\ Occurrences(s \o t, e) = Occurrences(s, e) + Occurrences(t, e)
    BY <1>1, OccBoth
  <2>2. /\ Occurrences(a, e) \in Nat /\ Occurrences(b, e) \in Nat
        /\ Occurrences(s, e) \in Nat /\ Occurrences(t, e) \in Nat
    <3>1. Len(a) \in Nat /\ Len(b) \in Nat /\ Len(s) \in Nat /\ Len(t) \in Nat
      BY <1>1
    <3>. QED
      BY <3>1, OccNat
  <2>3. /\ Occurrences(a, e) <= Occurrences(s, e) /\ Occurrences(b, e) <= Occurrences(t, e)
        /\ e.start < c => Occurrences(a, e) = 0 /\ Occurrences(b, e) = 0
        /\ c < e.start => /\ Occurrences(a, e) = Occurrences(s, e)
                          /\ Occurrences(b, e) = Occurrences(t, e)
    BY DEF Forwards
  <2>. QED
    BY <2>1, <2>2, <2>3
<1>. QED
  BY <1>2, <1>3 DEF Forwards

\* A list that starts by c may be left out, ...
LEMMA ForwardsNone ==
  ASSUME NEW s \in Seq(Event), NEW c \in Int, \A i \in 1..Len(s) : s[i].start <= c
  PROVE  Forwards(<<>>, s, c)
<1>1. Len(s) \in Nat
  OBVIOUS
<1>2. ASSUME NEW e \in Event
      PROVE  Occurrences(s, e) \in Nat /\ (c < e.start => Occurrences(s, e) = 0)
  <2>1. Occurrences(s, e) \in Nat
    BY <1>1, OccNat
  <2>2. ASSUME c < e.start, Occurrences(s, e) # 0 PROVE FALSE
    <3>1. PICK i \in 1..Len(s) : s[i] = e
      BY <2>2, OccAt
    <3>2. e.start <= c /\ e.start \in Int
      BY <3>1, EventTimes
    <3>. QED
      BY <2>2, <3>2
  <2>. QED
    BY <2>1, <2>2
<1>3. \A e \in Event : Occurrences(<<>>, e) = 0
  BY OccFew
<1>4. <<>> \in Seq(Event)
  OBVIOUS
<1>. QED
  BY <1>2, <1>3, <1>4 DEF Forwards

\* ... and a list that has what starts from c on may stand for another that has all.
LEMMA ForwardsFrom ==
  ASSUME NEW t \in Seq(Event), NEW s \in Seq(Event), NEW c \in Int,
         \A e \in Event : Occurrences(t, e) = IF c <= e.start THEN Occurrences(s, e) ELSE 0
  PROVE  Forwards(t, s, c)
<1>1. \A e \in Event : e.start \in Int /\ Occurrences(s, e) \in Nat
  <2>1. Len(s) \in Nat
    OBVIOUS
  <2>. QED
    BY <2>1, EventTimes, OccNat
<1>. QED
  BY <1>1 DEF Forwards

\* copy_end_dec with and without mstart.
LEMMA CopyEndForwards ==
  ASSUME NEW s \in Seq(Event), NEW v \in Int, NEW c \in Int
  PROVE  Forwards(CopyEndDec(s, v, c), CopyEndDec(s, v, 0), c)
<1>1. PICK t : t = SubSeq(s, 1, UpperBoundEnd(s, v) - 1)
  OBVIOUS
<1>2. t \in Seq(Event) /\ DOMAIN t = 1..Len(t)
  <2>1. PICK u \in 1..(Len(s) + 1) : u = UpperBoundEnd(s, v)
    BY CutAt
  <2>2. u - 1 \in 0..Len(s) /\ 1 \in 1..(Len(s) + 1)
    BY <2>1
  <2>3. t \in Seq(Event)
    BY <1>1, <2>1, <2>2, PartOf
  <2>. QED
    BY <2>3
<1>3. ASSUME NEW z \in Int
      PROVE  /\ CopyEndDec(s, v, z) \in Seq(Event)
             /\ \A e \in Event : Occurrences(CopyEndDec(s, v, z), e)
                                   = IF z <= e.start THEN Occurrences(t, e) ELSE 0
  <2>1. PICK D : D = {e \in Event : z <= e.start}
    OBVIOUS
  <2>2. PICK kept : kept = {i \in DOMAIN t : t[i] \in D}
    OBVIOUS
  <2>3. CopyEndDec(s, v, z) = ElementsAt(t, {i \in DOMAIN t : z <= t[i].start})
    BY <1>1 DEF CopyEndDec, Selected, UpperBoundEnd
  <2>4. {i \in DOMAIN t : z <= t[i].start} = kept
    <3>1. \A i \in DOMAIN t : t[i] \in Event
      BY <1>2
    <3>. QED
      BY <2>1, <2>2, <3>1
  <2>5. Holds(t, t, Event)
    BY <1>2, HoldsItself
  <2>6. Holds(ElementsAt(t, kept), t, Event \cap D)
    BY <2>2, <2>5, HoldsKept
  <2>7. Holds(CopyEndDec(s, v, z), t, Event \cap D)
    BY <2>3, <2>4, <2>6
  <2>. QED
    BY <2>1, <2>7 DEF Holds
<1>4. \A e \in Event : 0 <= e.start
  BY EventFields DEF Timestamp
<1>5. \A e \in Event : Occurrences(CopyEndDec(s, v, 0), e) = Occurrences(t, e)
  BY <1>3, <1>4
<1>6. CopyEndDec(s, v, 0) \in Seq(Event)
  BY <1>3
<1>7. CopyEndDec(s, v, c) \in Seq(Event)
  BY <1>3
<1>8. \A e \in Event : Occurrences(CopyEndDec(s, v, c), e)
                         = IF c <= e.start THEN Occurrences(CopyEndDec(s, v, 0), e) ELSE 0
  BY <1>3, <1>5
<1>. QED
  BY <1>6, <1>7, <1>8, ForwardsFrom

\* The first position from i on that Test fails at, if any does.
FirstFrom(s, i, p, T) ==
  /\ p \in i..(Len(s) + 1)
  /\ \A k \in i..(p - 1) : s[k] \in T
  /\ p <= Len(s) => s[p] \notin T

\* Skip, of any test, from any position: I is where the test fails.
LEMMA SkipFrom ==
  ASSUME NEW s, NEW n \in Nat, Len(s) = n, NEW i \in 1..(n + 1), NEW T,
         NEW I, I = {k \in i..n : s[k] \notin T}, NEW q,
         I = {} => q = n + 1, I # {} => q \in I /\ \A y \in I : q <= y
  PROVE  FirstFrom(s, i, q, T)
<1>1. CASE I = {}
  <2>1. q = n + 1
    BY <1>1
  <2>2. \A k \in i..n : s[k] \in T
    BY <1>1
  <2>3. n + 1 \in i..(n + 1) /\ (n + 1) - 1 = n /\ ~(n + 1 <= n)
    OBVIOUS
  <2>. QED
    BY <2>1, <2>2, <2>3 DEF FirstFrom
<1>2. CASE I # {}
  <2>1. q \in I /\ \A y \in I : q <= y
    BY <1>2
  <2>2. q \in i..n /\ s[q] \notin T
    BY <2>1
  <2>3. \A k \in i..(q - 1) : k \in i..n /\ ~(q <= k)
    BY <2>2
  <2>4. \A k \in i..(q - 1) : s[k] \in T
    BY <2>1, <2>3
  <2>5. q \in i..(n + 1)
    BY <2>2
  <2>. QED
    BY <2>2, <2>4, <2>5 DEF FirstFrom
<1>. QED
  BY <1>1, <1>2

\* What the least of some positions is.
LEMMA LeastPlace ==
  ASSUME NEW n \in Nat, NEW I \in SUBSET (1..n)
  PROVE  LET p == IF I # {} THEN CHOOSE x \in I : \A y \in I : x <= y ELSE 0
             q == IF p = 0 THEN n + 1 ELSE p
         IN (I = {} => q = n + 1) /\ (I # {} => q \in I /\ \A y \in I : q <= y)
<1>. DEFINE p == IF I # {} THEN CHOOSE x \in I : \A y \in I : x <= y ELSE 0
<1>1. CASE I = {}
  BY <1>1
<1>2. CASE I # {}
  <2>1. I \in SUBSET Nat
    OBVIOUS
  <2>2. \E x \in I : \A y \in I : x <= y
    BY <1>2, <2>1, NatMin
  <2>3. p \in I /\ \A y \in I : p <= y
    BY <1>2, <2>2
  <2>. HIDE DEF p
  <2>4. p # 0
    BY <2>3
  <2>. QED
    BY <1>2, <2>3, <2>4 DEF p
<1>. QED
  BY <1>1, <1>2

\* What has started before c.
Before(c) == {e \in Event : e.start < c}

\* The position that copy_start_asc begins at, and the one it returns.
LEMMA CopyPlaces ==
  ASSUME NEW s \in Seq(Event), NEW i \in 1..(Len(s) + 1), NEW v, NEW c
  PROVE  \E a \in Int, b \in Int :
           /\ FirstFrom(s, i, a, Before(c)) /\ FirstFrom(s, a, b, Started(v))
           /\ CopyStartAsc(s, i, v, c).out = SubSeq(s, a, b - 1)
           /\ CopyStartAsc(s, i, v, c).next = b
<1>. DEFINE I == {k \in i..Len(s) : ~(s[k].start < c)}
            p == IF I # {} THEN CHOOSE x \in I : \A y \in I : x <= y ELSE 0
            a == Skip(s, i, LAMBDA e : e.start < c)
            J == {k \in a..Len(s) : ~(s[k].start <= v)}
            q == IF J # {} THEN CHOOSE x \in J : \A y \in J : x <= y ELSE 0
            b == Skip(s, a, LAMBDA e : e.start <= v)
<1>1. a = IF p = 0 THEN Len(s) + 1 ELSE p
  BY DEF Skip, SelectInSubSeq, Min
<1>2. b = IF q = 0 THEN Len(s) + 1 ELSE q
  BY DEF Skip, SelectInSubSeq, Min
<1>3. PICK n \in Nat : n = Len(s) /\ \A k \in 1..n : s[k] \in Event
  OBVIOUS
<1>4. FirstFrom(s, i, a, Before(c))
  <2>1. I = {k \in i..n : s[k] \notin Before(c)}
    <3>1. \A k \in i..n : s[k] \in Event
      BY <1>3
    <3>. QED
      BY <1>3, <3>1 DEF Before
  <2>2. I \in SUBSET (1..n)
    BY <1>3
  <2>. HIDE DEF I, a
  <2>3. (I = {} => a = n + 1) /\ (I # {} => a \in I /\ \A y \in I : a <= y)
    BY <1>1, <1>3, <2>2, LeastPlace
  <2>. HIDE DEF p
  <2>. QED
    BY <1>3, <2>1, <2>3, SkipFrom
<1>5. a \in 1..(n + 1)
  <2>. HIDE DEF a
  <2>. QED
    BY <1>3, <1>4 DEF FirstFrom
<1>6. FirstFrom(s, a, b, Started(v))
  <2>. HIDE DEF a
  <2>1. J = {k \in a..n : s[k] \notin Started(v)}
    <3>1. \A k \in a..n : s[k] \in Event
      BY <1>3, <1>5
    <3>. QED
      BY <1>3, <3>1 DEF Started
  <2>2. J \in SUBSET (1..n)
    BY <1>3, <1>5
  <2>. HIDE DEF J, b
  <2>3. (J = {} => b = n + 1) /\ (J # {} => b \in J /\ \A y \in J : b <= y)
    BY <1>2, <1>3, <2>2, LeastPlace
  <2>. HIDE DEF q
  <2>. QED
    BY <1>3, <1>5, <2>1, <2>3, SkipFrom
<1>7. b \in Int /\ a \in Int
  <2>. HIDE DEF a, b
  <2>. QED
    BY <1>3, <1>5, <1>6 DEF FirstFrom
<1>8. CopyStartAsc(s, i, v, c).out = SubSeq(s, a, b - 1) /\ CopyStartAsc(s, i, v, c).next = b
  BY DEF CopyStartAsc
<1>. HIDE DEF a, b
<1>. QED
  BY <1>4, <1>6, <1>7, <1>8

\* What a part of a list has, the elements of the rest being in another set.
LEMMA PartCount ==
  ASSUME NEW s \in Seq(Event), NEW a \in Nat, NEW b \in Nat, 1 <= a, a <= b, b <= Len(s) + 1,
         NEW D, \A k \in 1..Len(s) : s[k] \in D <=> a <= k /\ k < b
  PROVE  /\ SubSeq(s, a, b - 1) \in Seq(Event)
         /\ \A e \in Event : Occurrences(SubSeq(s, a, b - 1), e) = IF e \in D THEN Occurrences(s, e) ELSE 0
<1>1. PICK n \in Nat : n = Len(s) /\ \A k \in 1..n : s[k] \in Event
  OBVIOUS
<1>2. PICK t : t = SubSeq(s, a, b - 1)
  OBVIOUS
<1>3. t \in Seq(Event)
  <2>1. a \in 1..(n + 1) /\ b - 1 \in 0..n
    BY <1>1
  <2>. QED
    BY <1>1, <1>2, <2>1, PartOf
<1>4. Len(t) = b - a /\ \A k \in 1..(b - a) : t[k] = s[a + k - 1]
  <2>1. /\ \A k \in a..(b - 1) : k \in 1..n
        /\ a \in Int /\ b - 1 \in Int
    BY <1>1
  <2>2. Len(t) = IF a <= b - 1 THEN (b - 1) - a + 1 ELSE 0
    BY <1>2
  <2>3. \A k \in 1..((b - 1) - a + 1) : t[k] = s[a + k - 1]
    BY <1>1, <1>2
  <2>4. b - a = (b - 1) - a + 1
    OBVIOUS
  <2>5. Len(t) = b - a
    BY <2>2
  <2>6. \A k \in 1..(b - a) : t[k] = s[a + k - 1]
    BY <2>3, <2>4
  <2>. QED
    BY <2>5, <2>6
<1>5. ASSUME NEW e \in Event
      PROVE  Occurrences(t, e) = IF e \in D THEN Occurrences(s, e) ELSE 0
  <2>1. /\ Len(t) \in Nat /\ Len(s) \in Nat
        /\ IsFiniteSet(Places(t, e)) /\ Occurrences(t, e) = Cardinality(Places(t, e))
        /\ Occurrences(s, e) = Cardinality(Places(s, e))
        /\ Occurrences(t, e) = 0 <=> \A i \in 1..Len(t) : t[i] # e
    BY <1>1, <1>3, OccNat
  <2>2. CASE e \notin D
    <3>1. ASSUME NEW i \in 1..Len(t) PROVE t[i] # e
      <4>1. i \in 1..(b - a) /\ a + i - 1 \in 1..n /\ a <= a + i - 1 /\ a + i - 1 < b
        BY <1>1, <1>4
      <4>. QED
        BY <1>1, <1>4, <2>2, <4>1
    <3>. QED
      BY <2>1, <2>2, <3>1
  <2>3. CASE e \in D
    <3>. DEFINE g == [i \in Places(t, e) |-> a + i - 1]
    <3>1. \A i \in Places(t, e) : i \in 1..(b - a) /\ s[a + i - 1] = e /\ a + i - 1 \in 1..n
      BY <1>1, <1>4 DEF Places
    <3>2. g \in [Places(t, e) -> Places(s, e)]
      BY <1>1, <3>1 DEF Places
    <3>3. ASSUME NEW k \in Places(s, e) PROVE \E i \in Places(t, e) : g[i] = k
      <4>1. k \in 1..n /\ s[k] = e
        BY <1>1 DEF Places
      <4>2. a <= k /\ k < b
        BY <1>1, <2>3, <4>1
      <4>3. PICK i \in 1..(b - a) : a + i - 1 = k
        <5>1. k - a + 1 \in 1..(b - a) /\ a + (k - a + 1) - 1 = k
          BY <4>1, <4>2
        <5>. QED
          BY <5>1
      <4>4. i \in Places(t, e)
        BY <1>4, <4>1, <4>3 DEF Places
      <4>. QED
        BY <4>3, <4>4
    <3>4. \A x, y \in Places(t, e) : g[x] = g[y] => x = y
      <4>1. \A x, y \in 1..(b - a) : a + x - 1 = a + y - 1 => x = y
        OBVIOUS
      <4>. QED
        BY <3>1, <4>1
    <3>. HIDE DEF g
    <3>5. Cardinality(Places(s, e)) = Cardinality(Places(t, e))
      BY <2>1, <3>2, <3>3, <3>4, SameSize
    <3>. QED
      BY <2>1, <2>3, <3>5
  <2>. QED
    BY <2>2, <2>3
<1>. QED
  BY <1>2, <1>3, <1>5

\* copy_start_asc on an ordered list, from a position behind starts before c only, returns
\* where a search does, and copies what starts from c on.
LEMMA CopyStartForwards ==
  ASSUME NEW s \in Seq(Event), Ordered(s), NEW i \in 1..(Len(s) + 1), NEW v \in Int, NEW c \in Int,
         \A k \in 1..(i - 1) : s[k].start < c,
         \A k \in 1..Len(s) : s[k].start < c => s[k].start <= v
  PROVE  /\ CopyStartAsc(s, i, v, c).next = StartsAfter(s, v)
         /\ Forwards(CopyStartAsc(s, i, v, c).out, CopyStartAsc(s, 1, v, 0).out, c)
<1>1. PICK a \in Int, b \in Int :
        /\ FirstFrom(s, i, a, Before(c)) /\ FirstFrom(s, a, b, Started(v))
        /\ CopyStartAsc(s, i, v, c).out = SubSeq(s, a, b - 1)
        /\ CopyStartAsc(s, i, v, c).next = b
  BY CopyPlaces
<1>2. PICK n \in Nat : /\ n = Len(s) /\ DOMAIN s = 1..n
                       /\ \A k \in 1..n : s[k] \in Event /\ s[k].start \in Int
  BY EventTimes
<1>3. /\ a \in i..(n + 1) /\ b \in a..(n + 1) /\ 1 <= i
      /\ \A k \in i..(a - 1) : s[k] \in Before(c)
      /\ \A k \in a..(b - 1) : s[k] \in Started(v)
      /\ a <= n => s[a] \notin Before(c)
      /\ b <= n => s[b] \notin Started(v)
  BY <1>1, <1>2 DEF FirstFrom
<1>4. ASSUME NEW k \in 1..n, NEW j \in 1..n, k <= j PROVE s[k].start <= s[j].start
  <2>1. k = j \/ AtOrBefore(s[k], s[j])
    BY <1>2, <1>4 DEF Ordered
  <2>. QED
    BY <1>2, <2>1 DEF AtOrBefore
<1>5. ASSUME NEW k \in 1..n PROVE s[k].start < c <=> k < a
  <2>1. CASE k < a
    <3>1. CASE k < i
      <4>1. k \in 1..(i - 1)
        BY <3>1
      <4>. QED
        BY <2>1, <4>1
    <3>2. CASE ~(k < i)
      <4>1. k \in i..(a - 1)
        BY <1>3, <2>1, <3>2
      <4>. QED
        BY <1>3, <2>1, <4>1 DEF Before
    <3>. QED
      BY <3>1, <3>2
  <2>2. CASE ~(k < a)
    <3>1. a <= n /\ a \in 1..n /\ a <= k
      BY <1>3, <2>2
    <3>2. s[a] \notin Before(c) /\ s[a] \in Event /\ s[a].start \in Int /\ s[a].start <= s[k].start
      BY <1>2, <1>3, <1>4, <3>1
    <3>3. ~(s[a].start < c)
      BY <3>2 DEF Before
    <3>4. ~(s[k].start < c)
      BY <1>2, <3>2, <3>3
    <3>. QED
      BY <2>2, <3>4
  <2>. QED
    BY <2>1, <2>2
<1>6. ASSUME NEW k \in 1..n PROVE s[k].start <= v <=> k < b
  <2>1. CASE k < b
    <3>1. CASE k < a
      BY <1>2, <1>5, <2>1, <3>1
    <3>2. CASE ~(k < a)
      <4>1. k \in a..(b - 1)
        BY <1>3, <2>1, <3>2
      <4>. QED
        BY <1>3, <2>1, <4>1 DEF Started
    <3>. QED
      BY <3>1, <3>2
  <2>2. CASE ~(k < b)
    <3>1. b <= n /\ b \in 1..n /\ b <= k
      BY <1>3, <2>2
    <3>2. s[b] \notin Started(v) /\ s[b] \in Event /\ s[b].start \in Int /\ s[b].start <= s[k].start
      BY <1>2, <1>3, <1>4, <3>1
    <3>3. ~(s[b].start <= v)
      BY <3>2 DEF Started
    <3>4. ~(s[k].start <= v)
      BY <1>2, <3>2, <3>3
    <3>. QED
      BY <2>2, <3>4
  <2>. QED
    BY <2>1, <2>2
<1>7. b \in 1..(n + 1) /\ a \in Nat /\ b \in Nat /\ 1 <= a /\ a <= b /\ b <= n + 1
  BY <1>3
<1>8. b = StartsAfter(s, v)
  BY <1>2, <1>6, <1>7, StartsCutOnly
<1>9. CopyStartAsc(s, 1, v, 0).out = SubSeq(s, 1, b - 1)
  BY <1>8, CopyStart
<1>10. /\ SubSeq(s, 1, b - 1) \in Seq(Event)
       /\ \A e \in Event : Occurrences(SubSeq(s, 1, b - 1), e)
                             = IF e \in Started(v) THEN Occurrences(s, e) ELSE 0
  <2>1. \A k \in 1..Len(s) : s[k] \in Started(v) <=> 1 <= k /\ k < b
    BY <1>2, <1>6 DEF Started
  <2>2. 1 \in Nat /\ 1 <= 1 /\ 1 <= b /\ b <= Len(s) + 1
    BY <1>2, <1>7
  <2>. QED
    BY <1>7, <2>1, <2>2, PartCount
<1>11. /\ SubSeq(s, a, b - 1) \in Seq(Event)
       /\ \A e \in Event : Occurrences(SubSeq(s, a, b - 1), e)
                             = IF e \in Started(v) \ Before(c) THEN Occurrences(s, e) ELSE 0
  <2>1. \A k \in 1..Len(s) : s[k] \in Started(v) \ Before(c) <=> a <= k /\ k < b
    <3>1. ASSUME NEW k \in 1..n PROVE s[k] \in Started(v) \ Before(c) <=> a <= k /\ k < b
      <4>1. s[k] \in Event /\ (s[k].start < c <=> k < a) /\ (s[k].start <= v <=> k < b)
        BY <1>2, <1>5, <1>6
      <4>. QED
        BY <1>7, <4>1 DEF Started, Before
    <3>. QED
      BY <1>2, <3>1
  <2>2. b <= Len(s) + 1
    BY <1>2, <1>7
  <2>3. PICK D : D = Started(v) \ Before(c)
    OBVIOUS
  <2>4. \A k \in 1..Len(s) : s[k] \in D <=> a <= k /\ k < b
    BY <2>1, <2>3
  <2>5. /\ SubSeq(s, a, b - 1) \in Seq(Event)
        /\ \A e \in Event : Occurrences(SubSeq(s, a, b - 1), e) = IF e \in D THEN Occurrences(s, e) ELSE 0
    BY <1>7, <2>2, <2>4, PartCount
  <2>. QED
    BY <2>3, <2>5
<1>12. ASSUME NEW e \in Event
       PROVE  Occurrences(SubSeq(s, a, b - 1), e)
                = IF c <= e.start THEN Occurrences(SubSeq(s, 1, b - 1), e) ELSE 0
  <2>1. e.start \in Int
    BY EventTimes
  <2>2. e \in Before(c) <=> ~(c <= e.start)
    BY <2>1 DEF Before
  <2>. QED
    BY <1>10, <1>11, <2>2
<1>13. Forwards(SubSeq(s, a, b - 1), SubSeq(s, 1, b - 1), c)
  BY <1>10, <1>11, <1>12, ForwardsFrom
<1>. QED
  BY <1>1, <1>8, <1>9, <1>13

---------------------------------------------------------------------------------
(* What a helper remembers. *)

\* The heights of visited_nodes and start_asc_it.
Heights(f) == IF f.index = <<>> THEN {} ELSE 0..IndexHeight(f)

\* No forest-point and no node is higher than the first forest-point.
LEMMA HeightsAll ==
  ASSUME NEW f, Shape(f), Linked(f), NEW p \in Pointers(f)
  PROVE  Node(f, p).height \in Heights(f)
<1>1. PICK n \in Nat, m \in Nat : n = Len(f.nodes) /\ m = Len(f.index)
  <2>1. Len(f.nodes) \in Nat /\ Len(f.index) \in Nat
    BY UnderNat
  <2>. QED
    BY <2>1
<1>2. \A i \in 1..m : f.index[i].height \in Nat
  BY <1>1, UnderNat
<1>3. ASSUME NEW i \in 1..m PROVE f.index[i].height <= f.index[1].height
  <2>. DEFINE S == {k \in Nat : k + 1 <= m => f.index[k + 1].height <= f.index[1].height}
  <2>1. 0 \in S
    <3>1. 1 \in 1..m
      OBVIOUS
    <3>. QED
      BY <1>2, <3>1
  <2>2. ASSUME NEW k \in S PROVE k + 1 \in S
    <3>1. k \in Nat /\ (k + 1 <= m => f.index[k + 1].height <= f.index[1].height)
      OBVIOUS
    <3>2. ASSUME (k + 1) + 1 <= m PROVE f.index[(k + 1) + 1].height <= f.index[1].height
      <4>1. k + 1 \in 1..(m - 1) /\ k + 1 \in 1..m /\ (k + 1) + 1 \in 1..m /\ 1 \in 1..m /\ k + 1 <= m
        BY <3>1, <3>2
      <4>2. f.index[k + 1].height > f.index[(k + 1) + 1].height
        BY <1>1, <4>1 DEF Linked
      <4>3. PICK x \in Nat, y \in Nat, z \in Nat :
              x = f.index[1].height /\ y = f.index[k + 1].height /\ z = f.index[(k + 1) + 1].height
        BY <1>2, <4>1
      <4>. QED
        BY <3>1, <4>1, <4>2, <4>3
    <3>. QED
      BY <3>1, <3>2
  <2>3. S = Nat
    <3>1. S \in SUBSET Nat
      OBVIOUS
    <3>. HIDE DEF S
    <3>. QED
      BY <2>1, <2>2, <3>1, NatAll
  <2>4. i - 1 \in Nat /\ (i - 1) + 1 = i /\ i <= m
    OBVIOUS
  <2>5. i - 1 \in S
    <3>. HIDE DEF S
    <3>. QED
      BY <2>3, <2>4
  <2>. QED
    BY <2>4, <2>5
<1>4. ASSUME NEW i \in 1..m, NEW h \in Nat, h <= f.index[i].height PROVE h \in Heights(f)
  <2>1. f.index \in Seq(PointRecord) /\ m > 0
    BY DEF Shape, Typed
  <2>2. f.index # <<>> /\ Head(f.index) = f.index[1]
    BY <1>1, <2>1
  <2>3. PICK x \in Nat, y \in Nat : x = f.index[1].height /\ y = f.index[i].height
    BY <1>2, <2>1
  <2>4. y <= x
    BY <1>3, <2>3
  <2>5. h \in 0..x
    BY <1>4, <2>3, <2>4
  <2>. QED
    BY <2>2, <2>3, <2>5 DEF Heights, IndexHeight
<1>5. CASE \E i \in 1..m : p = Point(i)
  <2>1. PICK i \in 1..m : p = Point(i)
    BY <1>5
  <2>2. Node(f, p) = f.index[i]
    BY <2>1 DEF Node, Point
  <2>3. f.index[i].height \in Nat /\ f.index[i].height <= f.index[i].height
    BY <1>2
  <2>. QED
    BY <1>4, <2>2, <2>3
<1>6. CASE \E j \in 1..n : p = Tree(j)
  <2>1. PICK j \in 1..n : p = Tree(j)
    BY <1>6
  <2>2. Node(f, p) = f.nodes[j] /\ Node(f, p).height \in Nat
    <3>1. Node(f, p) = f.nodes[j]
      BY <2>1 DEF Node, Tree
    <3>. QED
      BY <3>1, HeightBound
  <2>3. PICK i \in 1..m : Under(f, i - 1) < j /\ j <= Under(f, i)
    BY <1>1, Covered
  <2>4. PICK u \in Nat : u = Under(f, i) /\ u = f.index[i].replacement
    BY <1>1, UnderNat
  <2>5. CASE j = u
    <3>1. f.nodes[j].height = 0
      BY <1>1, <2>4, <2>5 DEF Shape, PointOK
    <3>2. 0 <= f.index[i].height /\ 0 \in Nat
      BY <1>2
    <3>. QED
      BY <1>4, <2>2, <3>1, <3>2
  <2>6. CASE j # u
    <3>1. j < u /\ j \in Nat
      BY <2>3, <2>4, <2>6
    <3>2. TreeNodeOK(f.nodes, Under(f, i - 1), j, Under(f, i), f.index[i].height)
      BY <1>1, <2>3, <2>4, <3>1 DEF Shape, TreesOK
    <3>3. PICK h \in Nat, y \in Nat : h = f.nodes[j].height /\ y = f.index[i].height
      BY <1>2, <2>2
    <3>4. h < y
      BY <3>2, <3>3 DEF TreeNodeOK
    <3>5. h <= y
      BY <3>4
    <3>. QED
      BY <1>4, <2>2, <3>3, <3>5
  <2>. QED
    BY <2>5, <2>6
<1>. QED
  BY <1>1, <1>5, <1>6 DEF Pointers

\* What the lists of a node or forest-point hold, as far as a helper relies on it.
ListsFit(f, n) ==
  /\ n.nkey \in Int /\ n.dkey \in Int /\ n.nkey <= n.dkey /\ n.height \in Heights(f)
  /\ n.nsa \in Seq(Event) /\ n.ded \in Seq(Event) /\ n.ned \in Seq(Event) /\ Ordered(n.nsa)
  /\ \A i \in 1..Len(n.nsa) : Occurrences(f.events, n.nsa[i]) # 0
  /\ \A i \in 1..Len(n.ded) : n.ded[i].start = n.dkey
  /\ \A i \in 1..Len(n.ned) : n.ned[i].start < n.nkey

\* Lists of the right sides fit.
LEMMA SidesFit ==
  ASSUME NEW n, NEW all, NEW low, NEW x, NEW y, NEW C, NEW D, Sides(n, all, C, D),
         C \in SUBSET Crossing(low, x), D \in SUBSET Starting(y)
  PROVE  /\ n.nsa \in Seq(Event) /\ n.ded \in Seq(Event) /\ n.ned \in Seq(Event) /\ Ordered(n.nsa)
         /\ \A i \in 1..Len(n.nsa) : Occurrences(all, n.nsa[i]) # 0
         /\ \A i \in 1..Len(n.ded) : n.ded[i].start = y
         /\ \A i \in 1..Len(n.ned) : n.ned[i].start < x
<1>1. Holds(n.nsa, all, C) /\ Holds(n.ned, all, C) /\ Holds(n.ded, all, D) /\ Ordered(n.nsa)
  BY DEF Sides
<1>2. \A i \in 1..Len(n.nsa) : Occurrences(all, n.nsa[i]) # 0
  BY <1>1, HoldsMember
<1>3. \A i \in 1..Len(n.ded) : n.ded[i].start = y
  <2>1. \A i \in 1..Len(n.ded) : n.ded[i] \in D
    BY <1>1, HoldsMember
  <2>. QED
    BY <2>1 DEF Starting
<1>4. \A i \in 1..Len(n.ned) : n.ned[i].start < x
  <2>1. \A i \in 1..Len(n.ned) : n.ned[i] \in C
    BY <1>1, HoldsMember
  <2>. QED
    BY <2>1 DEF Crossing
<1>. QED
  BY <1>1, <1>2, <1>3, <1>4 DEF Holds

\* The lists of every node and forest-point do.
LEMMA NodeFits ==
  ASSUME NEW f, ContentInv(f), NEW p \in Pointers(f)
  PROVE  ListsFit(f, Node(f, p))
<1>1. Shape(f) /\ Linked(f) /\ ListsHold(f) /\ CutOK(f) /\ ForestInv(f)
  BY DEF ContentInv, ForestInv
<1>2. PICK n : n = Node(f, p)
  OBVIOUS
<1>3. n.nkey \in Int /\ n.dkey \in Int /\ n.nkey <= n.dkey
  <2>1. PICK j \in 1..Len(f.nodes) : n.nkey = f.nodes[j].nkey /\ n.dkey = f.nodes[j].dkey
    BY <1>1, <1>2, NodeCuts
  <2>2. f.nodes[j].nkey \in Int /\ f.nodes[j].dkey \in Int /\ f.nodes[j].nkey <= f.nodes[j].dkey
    BY <1>1, KeysUp
  <2>. QED
    BY <2>1, <2>2
<1>4. n.height \in Heights(f)
  BY <1>1, <1>2, HeightsAll
<1>. DEFINE Good == /\ n.nsa \in Seq(Event) /\ n.ded \in Seq(Event) /\ n.ned \in Seq(Event) /\ Ordered(n.nsa)
                    /\ \A i \in 1..Len(n.nsa) : Occurrences(Indexed(f), n.nsa[i]) # 0
                    /\ \A i \in 1..Len(n.ded) : n.ded[i].start = n.dkey
                    /\ \A i \in 1..Len(n.ned) : n.ned[i].start < n.nkey
<1>5. ASSUME \E i \in 1..Len(f.index) : p = Point(i) PROVE Good
  <2>1. PICK i \in 1..Len(f.index) : p = Point(i)
    BY <1>5
  <2>2. Node(f, p) = f.index[i]
    BY <2>1 DEF Node, Point
  <2>3. PointHolds(f, i)
    BY <1>1 DEF ListsHold
  <2>4. PICK low, C, D : /\ Sides(n, Indexed(f), C, D)
                         /\ C \in SUBSET Crossing(low, n.nkey) /\ D \in SUBSET Starting(n.dkey)
    BY <1>2, <2>2, <2>3 DEF PointHolds
  <2>. QED
    BY <2>4, SidesFit
<1>6. ASSUME \E j \in 1..Len(f.nodes) : p = Tree(j) PROVE Good
  <2>1. PICK j \in 1..Len(f.nodes) : p = Tree(j)
    BY <1>6
  <2>2. Node(f, p) = f.nodes[j]
    BY <2>1 DEF Node, Tree
  <2>3. CASE j \in Settled(f)
    <3>1. NodeHolds(f, j)
      BY <1>1, <2>3 DEF ListsHold
    <3>2. PICK low, C, D : /\ Sides(n, Indexed(f), C, D)
                           /\ C \in SUBSET Crossing(low, n.nkey) /\ D \in SUBSET Starting(n.dkey)
      <4>. DEFINE w == Leaves[n.height] - 1
                  gone == Ending(f.nodes[j + w].dkey + 1)
                  low == f.nodes[j - w].nkey
                  C == Crossing(low, n.nkey) \cap gone
                  D == Starting(n.dkey) \cap gone
      <4>1. Sides(n, Indexed(f), C, D)
        BY <1>2, <2>2, <3>1 DEF NodeHolds
      <4>2. C \in SUBSET Crossing(low, n.nkey) /\ D \in SUBSET Starting(n.dkey)
        OBVIOUS
      <4>. HIDE DEF C, D, low
      <4>. QED
        BY <4>1, <4>2
    <3>. QED
      BY <3>2, SidesFit
  <2>4. CASE j \notin Settled(f)
    <3>1. n.nsa = <<>> /\ n.ded = <<>> /\ n.ned = <<>>
      BY <1>1, <1>2, <2>2, <2>4 DEF ListsHold
    <3>2. <<>> \in Seq(Event) /\ Ordered(<<>>) /\ Len(<<>>) = 0
      BY DEF Ordered
    <3>. QED
      BY <3>1, <3>2
  <2>. QED
    BY <2>3, <2>4
<1>7. Good
  BY <1>5, <1>6 DEF Pointers
<1>8. ASSUME NEW i \in 1..Len(n.nsa) PROVE Occurrences(f.events, n.nsa[i]) # 0
  <2>1. PICK e \in Event : e = n.nsa[i] /\ Occurrences(Indexed(f), e) # 0
    BY <1>7
  <2>2. /\ f.events = Indexed(f) \o EventTail(f)
        /\ Indexed(f) \in Seq(Event) /\ EventTail(f) \in Seq(Event)
    BY <1>1, WholeList
  <2>3. Occurrences(f.events, e) = Occurrences(Indexed(f), e) + Occurrences(EventTail(f), e)
    BY <2>2, OccBoth
  <2>4. Occurrences(Indexed(f), e) \in Nat /\ Occurrences(EventTail(f), e) \in Nat
    <3>1. Len(Indexed(f)) \in Nat /\ Len(EventTail(f)) \in Nat
      BY <2>2
    <3>. QED
      BY <3>1, OccNat
  <2>. QED
    BY <2>1, <2>3, <2>4
<1>. HIDE DEF Good
<1>9. ListsFit(f, n)
  BY <1>3, <1>4, <1>7, <1>8 DEF ListsFit, Good
<1>. QED
  BY <1>2, <1>9

\* The helpers over a forest.
Helpers(f) ==
  [policy : Policies, it : 1..(Len(f.events) + 1), out : Seq(Event), wentLeft : BOOLEAN,
   firstLeft : Pointer, visited : [Heights(f) -> Pointer], startAt : [Heights(f) -> Nat]]

\* A pointer of visited_nodes and its position in start_asc_it, when all that starts by x
\* has been passed: only that is before the position, unless no later stab goes left there.
Remembers(f, p, s, x) ==
  p = Null \/ /\ p \in Pointers(f)
              /\ \/ Node(f, p).nkey <= x + 1
                 \/ /\ s \in 1..(Len(Node(f, p).nsa) + 1)
                    /\ \A i \in 1..(s - 1) : Node(f, p).nsa[i].start <= x

\* Where the values of a forest-point's tree begin.
FirstKey(f, k) == f.nodes[Under(f, k - 1) + 1].nkey

\* first_left_parent: what the trees before it have has been passed.
KnowsLeft(f, p, x) ==
  p = Null \/ \E k \in 1..Len(f.index) : p = Point(k) /\ FirstKey(f, k) <= x + 1

\* A stab at v that looks from c on, x having been passed before it and z after it.
Going(f, v, c, x, z) ==
  /\ v \in Int /\ c \in Int /\ x \in Int /\ z \in Int /\ x < v /\ x <= z
  /\ \A e \in Event : Occurrences(f.events, e) # 0 =>
       (e.start <= x <=> e.start < c) /\ (e.start <= v => e.start <= z)
  /\ \A p \in Pointers(f) : Node(f, p).nkey <= v => Node(f, p).nkey <= z + 1

\* What one visit of p adds to the helper: t, and what is remembered at p's height.
Took(f, g, g2, p, t, z) ==
  /\ g2 \in Helpers(f) /\ g2.out = g.out \o t
  /\ \A a \in Heights(f) : a # Node(f, p).height =>
       g2.visited[a] = g.visited[a] /\ g2.startAt[a] = g.startAt[a]
  /\ Remembers(f, g2.visited[Node(f, p).height], g2.startAt[Node(f, p).height], z)

\* Pointers are pointers.
LEMMA PointersTyped ==
  ASSUME NEW f, Shape(f), NEW p \in Pointers(f)
  PROVE  p \in Pointer
<1>1. \A i \in 1..Len(f.nodes) : i \in Nat
  OBVIOUS
<1>2. \A i \in 1..Len(f.index) : i \in Nat
  OBVIOUS
<1>. QED
  BY <1>1, <1>2, PointerFacts DEF Pointers

\* A max-list that starts by c may be left out.
LEMMA CopyEndNone ==
  ASSUME NEW s \in Seq(Event), NEW v \in Int, NEW c \in Int, \A i \in 1..Len(s) : s[i].start <= c
  PROVE  Forwards(<<>>, CopyEndDec(s, v, 0), c)
<1>1. PICK u \in 1..(Len(s) + 1) : u = UpperBoundEnd(s, v)
  BY CutAt
<1>2. PICK k \in 0..Len(s) : k = u - 1
  OBVIOUS
<1>3. PICK t : t = SubSeq(s, 1, k)
  OBVIOUS
<1>4. t \in Seq(Event) /\ Len(t) = k /\ \A i \in 1..k : i \in 1..Len(s) /\ t[i] = s[i]
  <2>1. \A i \in 1..k : i \in 1..Len(s)
    OBVIOUS
  <2>. QED
    BY <1>3, <2>1, TwoParts
<1>5. PICK kept : kept = {i \in DOMAIN t : 0 <= t[i].start}
  OBVIOUS
<1>6. kept \in SUBSET (1..Len(t))
  BY <1>4, <1>5
<1>7. PICK w : w = ElementsAt(t, kept) /\ w = CopyEndDec(s, v, 0)
  BY <1>1, <1>2, <1>3, <1>5 DEF CopyEndDec, Selected, UpperBoundEnd
<1>8. /\ w \in Seq(Event) /\ Len(w) = Cardinality(kept)
      /\ \A n \in 1..Cardinality(kept) : \E i \in kept : w[n] = t[i]
  <2>1. t \in Seq(Event) /\ kept \in SUBSET (1..Len(t))
    BY <1>4, <1>6
  <2>2. /\ ElementsAt(t, kept) \in Seq(Event) /\ Len(ElementsAt(t, kept)) = Cardinality(kept)
        /\ \A n \in 1..Cardinality(kept) : \E i \in kept :
             Rank(kept, i) = n - 1 /\ ElementsAt(t, kept)[n] = t[i]
    BY <2>1, Elements
  <2>. QED
    BY <1>7, <2>2
<1>9. ASSUME NEW n \in 1..Len(w) PROVE w[n].start <= c
  <2>1. PICK i \in kept : w[n] = t[i]
    BY <1>8
  <2>2. i \in 1..k
    BY <1>4, <1>6
  <2>. QED
    BY <1>4, <2>1, <2>2
<1>. QED
  BY <1>7, <1>8, <1>9, ForwardsNone

\* What is copied of the navigation key's max-list.
LEMMA NavForwards ==
  ASSUME NEW f, NEW n, ListsFit(f, n), NEW v \in Int, NEW c \in Int
  PROVE  Forwards(IF NavListAhead(n, c) THEN CopyEndDec(n.ned, v, c) ELSE <<>>, CopyEndDec(n.ned, v, 0), c)
<1>1. /\ n.nkey \in Int /\ n.ned \in Seq(Event)
      /\ \A i \in 1..Len(n.ned) : n.ned[i].start < n.nkey
  BY DEF ListsFit
<1>2. CASE NavListAhead(n, c)
  BY <1>1, <1>2, CopyEndForwards
<1>3. CASE ~NavListAhead(n, c)
  <2>1. ASSUME NEW i \in 1..Len(n.ned) PROVE n.ned[i].start <= c
    <3>1. n.ned[i] \in Event
      BY <1>1
    <3>2. PICK k \in Int : k = n.ned[i].start /\ 0 <= k /\ k < n.nkey
      <4>1. n.ned[i].start \in Timestamp
        BY <3>1, EventFields
      <4>2. n.ned[i].start \in Int /\ 0 <= n.ned[i].start
        BY <4>1, EventFields DEF Timestamp
      <4>. QED
        BY <1>1, <4>2
    <3>3. n.nkey = 0 \/ ~(c < n.nkey - 1)
      BY <1>3 DEF NavListAhead
    <3>. QED
      BY <1>1, <3>2, <3>3
  <2>. QED
    BY <1>1, <1>3, <2>1, CopyEndNone
<1>. QED
  BY <1>2, <1>3

\* right_child.
LEMMA RightTakes ==
  ASSUME NEW f, ContentInv(f), NEW g \in Helpers(f), NEW p \in Pointers(f), NEW v, NEW c, NEW x, NEW z,
         Going(f, v, c, x, z), Node(f, p).nkey <= v
  PROVE  \E t : /\ Took(f, g, RightChild(f, g, p, v, c), p, t, z)
                /\ Forwards(t, RightCopy(Node(f, p), v), c)
                /\ RightChild(f, g, p, v, c).it = g.it
                /\ RightChild(f, g, p, v, c).wentLeft = g.wentLeft
                /\ RightChild(f, g, p, v, c).firstLeft = g.firstLeft
<1>1. PICK n : n = Node(f, p)
  OBVIOUS
<1>2. ListsFit(f, n)
  BY <1>1, NodeFits
<1>3. /\ n.nkey \in Int /\ n.dkey \in Int /\ n.nkey <= n.dkey /\ n.height \in Heights(f)
      /\ n.ded \in Seq(Event) /\ n.ned \in Seq(Event)
      /\ \A i \in 1..Len(n.ded) : n.ded[i].start = n.dkey
      /\ \A i \in 1..Len(n.ned) : n.ned[i].start < n.nkey
  BY <1>2 DEF ListsFit
<1>4. v \in Int /\ c \in Int /\ n.nkey <= z + 1
  BY <1>1 DEF Going
<1>5. PICK t1 : t1 = IF DataListAhead(n, c) THEN CopyEndDec(n.ded, v, c) ELSE <<>>
  OBVIOUS
<1>6. PICK t2 : t2 = IF NavListAhead(n, c) THEN CopyEndDec(n.ned, v, c) ELSE <<>>
  OBVIOUS
<1>7. Forwards(t1, CopyEndDec(n.ded, v, 0), c)
  <2>1. CASE DataListAhead(n, c)
    BY <1>3, <1>4, <1>5, <2>1, CopyEndForwards
  <2>2. CASE ~DataListAhead(n, c)
    <3>1. n.dkey < c
      BY <1>3, <1>4, <2>2 DEF DataListAhead
    <3>2. \A i \in 1..Len(n.ded) : n.ded[i].start <= c
      BY <1>3, <1>4, <3>1
    <3>. QED
      BY <1>3, <1>4, <1>5, <2>2, <3>2, CopyEndNone
  <2>. QED
    BY <2>1, <2>2
<1>8. Forwards(t2, CopyEndDec(n.ned, v, 0), c)
  BY <1>2, <1>4, <1>6, NavForwards
<1>9. PICK t : t = t1 \o t2
  OBVIOUS
<1>10. Forwards(t, RightCopy(n, v), c)
  BY <1>7, <1>8, <1>9, ForwardsBoth DEF RightCopy
<1>11. t \in Seq(Event)
  BY <1>10 DEF Forwards
<1>12. PICK g2 : g2 = RightChild(f, g, p, v, c)
  OBVIOUS
<1>13. g2 = [[g EXCEPT !.visited[n.height] = p] EXCEPT !.out = @ \o t]
  BY <1>1, <1>5, <1>6, <1>9, <1>12 DEF RightChild, Emit
<1>14. p \in Pointer
  BY PointersTyped DEF ContentInv, ForestInv
<1>15. /\ g2 \in Helpers(f) /\ g2.out = g.out \o t /\ g2.it = g.it
       /\ g2.wentLeft = g.wentLeft /\ g2.firstLeft = g.firstLeft
       /\ g2.visited = [g.visited EXCEPT ![n.height] = p] /\ g2.startAt = g.startAt
  <2>1. g.out \o t \in Seq(Event)
    BY <1>11 DEF Helpers
  <2>. QED
    BY <1>3, <1>13, <1>14, <2>1 DEF Helpers
<1>16. /\ g2.visited[n.height] = p
       /\ \A a \in Heights(f) : a # n.height => g2.visited[a] = g.visited[a] /\ g2.startAt[a] = g.startAt[a]
  BY <1>3, <1>15 DEF Helpers
<1>17. Remembers(f, g2.visited[n.height], g2.startAt[n.height], z)
  BY <1>1, <1>4, <1>16 DEF Remembers
<1>18. Took(f, g, g2, p, t, z)
  BY <1>1, <1>15, <1>16, <1>17 DEF Took
<1>. QED
  BY <1>1, <1>10, <1>12, <1>15, <1>18

\* select.
LEMMA SelectTakes ==
  ASSUME NEW f, ContentInv(f), NEW g \in Helpers(f), NEW p \in Pointers(f), NEW v, NEW c, NEW x, NEW z,
         Going(f, v, c, x, z), Selects(Node(f, p), v)
  PROVE  \E t : /\ Took(f, g, SelectNode(f, g, p, v, c), p, t, z)
                /\ Forwards(t, SelectCopy(Node(f, p), v), c)
                /\ SelectNode(f, g, p, v, c).it = StartsAfter(f.events, v)
                /\ SelectNode(f, g, p, v, c).wentLeft = g.wentLeft
                /\ SelectNode(f, g, p, v, c).firstLeft = g.firstLeft
<1>1. PICK n : n = Node(f, p)
  OBVIOUS
<1>2. ListsFit(f, n)
  BY <1>1, NodeFits
<1>3. /\ n.nkey \in Int /\ n.dkey \in Int /\ n.nkey <= n.dkey /\ n.height \in Heights(f)
      /\ n.ded \in Seq(Event) /\ n.ned \in Seq(Event)
  BY <1>2 DEF ListsFit
<1>4. v \in Int /\ c \in Int /\ n.nkey <= v /\ n.nkey <= z + 1
  BY <1>1 DEF Going, Selects
<1>5. PICK t1 : t1 = IF v = n.dkey THEN CopyEndDec(n.ded, v, c) ELSE <<>>
  OBVIOUS
<1>6. PICK t2 : t2 = IF NavListAhead(n, c) THEN CopyEndDec(n.ned, v, c) ELSE <<>>
  OBVIOUS
<1>7. PICK s1 : s1 = IF v = n.dkey THEN CopyEndDec(n.ded, v, 0) ELSE <<>>
  OBVIOUS
<1>8. Forwards(t1, s1, c)
  <2>1. CASE v = n.dkey
    BY <1>3, <1>4, <1>5, <1>7, <2>1, CopyEndForwards
  <2>2. CASE v # n.dkey
    <3>1. <<>> \in Seq(Event) /\ \A i \in 1..Len(<<>>) : <<>>[i].start <= c
      OBVIOUS
    <3>2. Forwards(<<>>, <<>>, c)
      BY <1>4, <3>1, ForwardsNone
    <3>. QED
      BY <1>5, <1>7, <2>2, <3>2
  <2>. QED
    BY <2>1, <2>2
<1>9. Forwards(t2, CopyEndDec(n.ned, v, 0), c)
  BY <1>2, <1>4, <1>6, NavForwards
<1>10. PICK t : t = t1 \o t2
  OBVIOUS
<1>11. Forwards(t, SelectCopy(n, v), c)
  BY <1>7, <1>8, <1>9, <1>10, ForwardsBoth DEF SelectCopy
<1>12. t \in Seq(Event)
  BY <1>11 DEF Forwards
<1>13. PICK k \in 1..(Len(f.events) + 1) : k = SelectNext(n, v) /\ k = StartsAfter(f.events, v)
  <2>1. Shape(f) /\ CutOK(f) /\ EventsOK(f) /\ f.events \in Seq(Event)
    BY DEF ContentInv, ForestInv, Shape, Typed
  <2>2. SelectNext(n, v) = StartsAfter(f.events, v)
    BY <1>1, <1>4, <2>1, SelectGoesOn
  <2>. QED
    BY <1>4, <2>1, <2>2, StartsCut
<1>14. PICK g2 : g2 = SelectNode(f, g, p, v, c)
  OBVIOUS
<1>15. g2 = [[g EXCEPT !.visited[n.height] = p, !.it = k] EXCEPT !.out = @ \o t]
  BY <1>1, <1>5, <1>6, <1>10, <1>13, <1>14 DEF SelectNode, Emit
<1>16. p \in Pointer
  BY PointersTyped DEF ContentInv, ForestInv
<1>17. /\ g2 \in Helpers(f) /\ g2.out = g.out \o t /\ g2.it = k
       /\ g2.wentLeft = g.wentLeft /\ g2.firstLeft = g.firstLeft
       /\ g2.visited = [g.visited EXCEPT ![n.height] = p] /\ g2.startAt = g.startAt
  <2>1. g.out \o t \in Seq(Event)
    BY <1>12 DEF Helpers
  <2>. QED
    BY <1>3, <1>15, <1>16, <2>1 DEF Helpers
<1>18. /\ g2.visited[n.height] = p
       /\ \A a \in Heights(f) : a # n.height => g2.visited[a] = g.visited[a] /\ g2.startAt[a] = g.startAt[a]
  BY <1>3, <1>17 DEF Helpers
<1>19. Remembers(f, g2.visited[n.height], g2.startAt[n.height], z)
  BY <1>1, <1>4, <1>18 DEF Remembers
<1>20. Took(f, g, g2, p, t, z)
  BY <1>1, <1>17, <1>18, <1>19 DEF Took
<1>. QED
  BY <1>1, <1>11, <1>13, <1>14, <1>17, <1>20

\* left_child: the position saved in the left-list is behind nothing that a stab from c on
\* would copy.
LEMMA LeftTakes ==
  ASSUME NEW f, ContentInv(f), NEW g \in Helpers(f), NEW p \in Pointers(f), NEW v, NEW c, NEW x, NEW z,
         Going(f, v, c, x, z), v < Node(f, p).nkey,
         LET a == Node(f, p).height IN Remembers(f, g.visited[a], g.startAt[a], x)
  PROVE  \E t : /\ Took(f, g, LeftChild(f, g, p, v, c), p, t, z)
                /\ Forwards(t, LeftCopy(Node(f, p), v), c)
                /\ LeftChild(f, g, p, v, c).it = g.it
                /\ LeftChild(f, g, p, v, c).wentLeft
                /\ LeftChild(f, g, p, v, c).firstLeft = FirstLeft(g, p)
<1>1. PICK n : n = Node(f, p)
  OBVIOUS
<1>2. ListsFit(f, n)
  BY <1>1, NodeFits
<1>3. /\ n.nkey \in Int /\ n.height \in Heights(f) /\ n.nsa \in Seq(Event) /\ Ordered(n.nsa)
      /\ \A i \in 1..Len(n.nsa) : Occurrences(f.events, n.nsa[i]) # 0
  BY <1>2 DEF ListsFit
<1>4. v \in Int /\ c \in Int /\ x \in Int /\ z \in Int /\ x < v /\ v < n.nkey
  BY <1>1 DEF Going
<1>5. ASSUME NEW i \in 1..Len(n.nsa)
      PROVE  /\ n.nsa[i].start \in Int
             /\ n.nsa[i].start <= x <=> n.nsa[i].start < c
             /\ n.nsa[i].start <= v => n.nsa[i].start <= z
  <2>1. n.nsa[i] \in Event
    BY <1>3
  <2>. QED
    BY <1>3, <2>1, EventTimes DEF Going
<1>6. PICK k : k = SavedStart(g, n, p)
  OBVIOUS
<1>7. k \in 1..(Len(n.nsa) + 1) /\ \A i \in 1..(k - 1) : n.nsa[i].start <= x
  <2>1. CASE g.visited[n.height] = p
    <3>1. k = g.startAt[n.height]
      BY <1>6, <2>1 DEF SavedStart
    <3>2. Remembers(f, p, k, x)
      BY <1>1, <2>1, <3>1
    <3>3. p # Null
      BY PointerFacts DEF Pointers
    <3>4. ~(n.nkey <= x + 1)
      BY <1>3, <1>4
    <3>. QED
      BY <1>1, <3>2, <3>3, <3>4 DEF Remembers
  <2>2. CASE g.visited[n.height] # p
    <3>1. k = 1
      BY <1>6, <2>2 DEF SavedStart
    <3>2. 1 \in 1..(Len(n.nsa) + 1) /\ \A i \in 1..(1 - 1) : FALSE
      BY <1>3
    <3>. QED
      BY <3>1, <3>2
  <2>. QED
    BY <2>1, <2>2
<1>8. PICK found : found = CopyStartAsc(n.nsa, k, v, c)
  OBVIOUS
<1>9. found.next = StartsAfter(n.nsa, v) /\ Forwards(found.out, LeftCopy(n, v), c)
  <2>1. ASSUME NEW i \in 1..(k - 1) PROVE n.nsa[i].start < c
    <3>1. i \in 1..Len(n.nsa)
      BY <1>3, <1>7
    <3>. QED
      BY <1>5, <1>7, <3>1
  <2>2. ASSUME NEW i \in 1..Len(n.nsa), n.nsa[i].start < c PROVE n.nsa[i].start <= v
    BY <1>4, <1>5, <2>2
  <2>. QED
    BY <1>3, <1>4, <1>7, <1>8, <2>1, <2>2, CopyStartForwards DEF LeftCopy
<1>10. PICK b \in 1..(Len(n.nsa) + 1) : b = found.next /\ \A i \in 1..(b - 1) : n.nsa[i].start <= z
  <2>1. PICK b \in 1..(Len(n.nsa) + 1) : b = found.next /\ \A i \in 1..(b - 1) : n.nsa[i].start <= v
    BY <1>3, <1>4, <1>9, StartsCut
  <2>2. \A i \in 1..(b - 1) : i \in 1..Len(n.nsa)
    BY <1>3
  <2>. QED
    BY <1>5, <2>1, <2>2
<1>11. PICK t : t = found.out
  OBVIOUS
<1>12. t \in Seq(Event)
  BY <1>9, <1>11 DEF Forwards
<1>13. PICK q : q = FirstLeft(g, p)
  OBVIOUS
<1>14. PICK g2 : g2 = LeftChild(f, g, p, v, c)
  OBVIOUS
<1>15. g2 = [[g EXCEPT !.wentLeft = TRUE, !.firstLeft = q, !.visited[n.height] = p, !.startAt[n.height] = b]
               EXCEPT !.out = @ \o t]
  BY <1>1, <1>6, <1>8, <1>10, <1>11, <1>13, <1>14 DEF LeftChild, Emit
<1>16. p \in Pointer /\ q \in Pointer /\ b \in Nat
  <2>1. p \in Pointer
    BY PointersTyped DEF ContentInv, ForestInv
  <2>2. g.firstLeft \in Pointer
    BY DEF Helpers
  <2>3. b \in Nat
    BY <1>3, <1>10
  <2>. QED
    BY <1>13, <2>1, <2>2, <2>3 DEF FirstLeft
<1>17. /\ g2 \in Helpers(f) /\ g2.out = g.out \o t /\ g2.it = g.it /\ g2.wentLeft /\ g2.firstLeft = q
       /\ g2.visited = [g.visited EXCEPT ![n.height] = p] /\ g2.startAt = [g.startAt EXCEPT ![n.height] = b]
  <2>1. g.out \o t \in Seq(Event)
    BY <1>12 DEF Helpers
  <2>. QED
    BY <1>3, <1>15, <1>16, <2>1 DEF Helpers
<1>18. /\ g2.visited[n.height] = p /\ g2.startAt[n.height] = b
       /\ \A a \in Heights(f) : a # n.height => g2.visited[a] = g.visited[a] /\ g2.startAt[a] = g.startAt[a]
  BY <1>3, <1>17 DEF Helpers
<1>19. Remembers(f, g2.visited[n.height], g2.startAt[n.height], z)
  BY <1>1, <1>10, <1>18 DEF Remembers
<1>20. Took(f, g, g2, p, t, z)
  BY <1>1, <1>17, <1>18, <1>19 DEF Took
<1>. QED
  BY <1>1, <1>9, <1>11, <1>13, <1>14, <1>17, <1>20

\* navigate_stab_tree_node at one pointer.
LEMMA VisitTakes ==
  ASSUME NEW f, ContentInv(f), NEW g \in Helpers(f), NEW p \in Pointers(f), NEW v, NEW c, NEW x, NEW z,
         Going(f, v, c, x, z),
         LET a == Node(f, p).height IN Remembers(f, g.visited[a], g.startAt[a], x),
         NEW g2, g2 = Visit(f, g, p, v, c)
  PROVE  \E t : /\ Took(f, g, g2, p, t, z)
                /\ Forwards(t, VisitOf(Node(f, p), v), c)
                /\ Selects(Node(f, p), v) =>
                     g2.it = StartsAfter(f.events, v) /\ g2.wentLeft = g.wentLeft /\ g2.firstLeft = g.firstLeft
                /\ ~Selects(Node(f, p), v) /\ v < Node(f, p).nkey =>
                     g2.it = g.it /\ g2.wentLeft /\ g2.firstLeft = FirstLeft(g, p)
                /\ ~Selects(Node(f, p), v) /\ ~(v < Node(f, p).nkey) =>
                     g2.it = g.it /\ g2.wentLeft = g.wentLeft /\ g2.firstLeft = g.firstLeft
<1>1. PICK n : n = Node(f, p)
  OBVIOUS
<1>2. n.nkey \in Int /\ n.dkey \in Int /\ v \in Int
  BY <1>1, NodeFits DEF ListsFit, Going
<1>3. CASE Selects(n, v)
  <2>1. ~(v < n.nkey)
    BY <1>2, <1>3 DEF Selects
  <2>2. g2 = SelectNode(f, g, p, v, c) /\ VisitOf(n, v) = SelectCopy(n, v)
    BY <1>1, <1>3, <2>1 DEF Visit, VisitOf
  <2>. QED
    BY <1>1, <1>3, <2>2, SelectTakes
<1>4. CASE ~Selects(n, v) /\ v < n.nkey
  <2>2. g2 = LeftChild(f, g, p, v, c) /\ VisitOf(n, v) = LeftCopy(n, v)
    BY <1>1, <1>4 DEF Visit, VisitOf
  <2>3. \E t : /\ Took(f, g, g2, p, t, z) /\ Forwards(t, LeftCopy(n, v), c)
               /\ g2.it = g.it /\ g2.wentLeft /\ g2.firstLeft = FirstLeft(g, p)
    BY <1>1, <1>4, <2>2, LeftTakes
  <2>. QED
    BY <1>1, <1>4, <2>2, <2>3
<1>5. CASE ~Selects(n, v) /\ ~(v < n.nkey)
  <2>1. n.nkey <= v
    BY <1>2, <1>5
  <2>2. g2 = RightChild(f, g, p, v, c) /\ VisitOf(n, v) = RightCopy(n, v)
    BY <1>1, <1>5 DEF Visit, VisitOf
  <2>3. \E t : /\ Took(f, g, g2, p, t, z) /\ Forwards(t, RightCopy(n, v), c)
               /\ g2.it = g.it /\ g2.wentLeft = g.wentLeft /\ g2.firstLeft = g.firstLeft
    BY <1>1, <2>1, <2>2, RightTakes
  <2>. QED
    BY <1>1, <1>5, <2>2, <2>3
<1>. QED
  BY <1>3, <1>4, <1>5

---------------------------------------------------------------------------------
(* The loops. *)

\* Visiting a list of pointers one after the other, and passing the trees at them.
IsVisits(f, h, s, v, c, w) ==
  w = [n \in 0..Len(s) |-> IF n = 0 THEN h ELSE Visit(f, w[n - 1], s[n], v, c)]
IsPasses(f, h, s, v, c, w) ==
  w = [n \in 0..Len(s) |-> IF n = 0 THEN h ELSE RightChild(f, w[n - 1], s[n], v, c)]

\* The forests that the appends of a list go through.
IsAppends(s, w) ==
  w = [n \in 0..Len(s) |-> IF n = 0 THEN EmptyForest ELSE AppendEvent(w[n - 1], s[n])]

\* One step of each.
OneStep(loop, f, g, p, v, c) ==
  CASE loop = "visit" -> Visit(f, g, p, v, c)
    [] loop = "pass"  -> RightChild(f, g, p, v, c)
    [] OTHER          -> AppendEvent(g, p)
StepsTo(loop, f, h, s, n, v, c, w) ==
  \A k \in 0..n : w[k] = IF k = 0 THEN h ELSE OneStep(loop, f, w[k - 1], s[k], v, c)

\* There are such loops.
LEMMA StepsExist ==
  ASSUME NEW loop, NEW f, NEW h, NEW s, NEW n \in Nat, NEW v, NEW c
  PROVE  \E w : w = [k \in 0..n |-> w[k]] /\ StepsTo(loop, f, h, s, n, v, c, w)
<1>. DEFINE Step(w, k) == IF k = 0 THEN h ELSE OneStep(loop, f, w[k - 1], s[k], v, c)
            On(w) == w = [k \in 0..n |-> w[k]]
            Up(m, w) == \A k \in 0..n : k < m => w[k] = Step(w, k)
            S == {m \in Nat : \E w : On(w) /\ Up(m, w)}
<1>1. 0 \in S
  <2>. DEFINE w == [k \in 0..n |-> h]
  <2>1. On(w) /\ Up(0, w)
    OBVIOUS
  <2>. HIDE DEF w, On, Up
  <2>. QED
    BY <2>1
<1>2. ASSUME NEW m \in S PROVE m + 1 \in S
  <2>1. m \in Nat
    OBVIOUS
  <2>2. PICK w : On(w) /\ Up(m, w)
    OBVIOUS
  <2>. DEFINE u == [k \in 0..n |-> Step(w, k)]
  <2>3. On(u) /\ \A k \in 0..n : u[k] = Step(w, k)
    OBVIOUS
  <2>. HIDE DEF u
  <2>4. ASSUME NEW k \in 0..n, k < m + 1 PROVE u[k] = Step(u, k)
    <3>1. CASE k = 0
      BY <2>3, <3>1
    <3>2. CASE k # 0
      <4>1. k - 1 \in 0..n /\ k - 1 < m
        BY <2>1, <2>4, <3>2
      <4>2. w[k - 1] = u[k - 1]
        BY <2>2, <2>3, <4>1
      <4>. QED
        BY <2>3, <3>2, <4>2
    <3>. QED
      BY <3>1, <3>2
  <2>5. Up(m + 1, u) /\ m + 1 \in Nat
    BY <2>1, <2>4
  <2>. HIDE DEF On, Up
  <2>. QED
    BY <2>3, <2>5
<1>3. S = Nat
  <2>1. S \in SUBSET Nat
    OBVIOUS
  <2>. HIDE DEF S
  <2>. QED
    BY <1>1, <1>2, <2>1, NatAll
<1>4. n + 1 \in S
  <2>. HIDE DEF S
  <2>. QED
    BY <1>3
<1>5. PICK w : On(w) /\ Up(n + 1, w)
  BY <1>4
<1>6. \A k \in 0..n : w[k] = Step(w, k)
  <2>1. \A k \in 0..n : k < n + 1
    OBVIOUS
  <2>. QED
    BY <1>5, <2>1
<1>. QED
  BY <1>5, <1>6 DEF StepsTo

\* What the loops do, step by step.
LEMMA NavigateSteps ==
  ASSUME NEW f, NEW h, NEW p, NEW v, NEW c, NEW s, s = Path(f, p, v), NEW n \in Nat, n = Len(s)
  PROVE  \E w : /\ w[0] = h /\ Navigate(f, h, p, v, c) = w[n]
                /\ \A k \in 1..n : w[k] = Visit(f, w[k - 1], s[k], v, c)
<1>1. PICK u : u = [k \in 0..n |-> u[k]] /\ StepsTo("visit", f, h, s, n, v, c, u)
  BY StepsExist
<1>2. \A k \in 0..n : u[k] = IF k = 0 THEN h ELSE Visit(f, u[k - 1], s[k], v, c)
  BY <1>1 DEF StepsTo, OneStep
<1>3. IsVisits(f, h, s, v, c, u)
  BY <1>1, <1>2 DEF IsVisits
<1>4. PICK w : w = CHOOSE y : IsVisits(f, h, s, v, c, y)
  OBVIOUS
<1>5. IsVisits(f, h, s, v, c, w)
  BY <1>3, <1>4
<1>6. Navigate(f, h, p, v, c) = (CHOOSE y : IsVisits(f, h, s, v, c, y))[n]
  BY DEF Navigate, IsVisits
<1>7. Navigate(f, h, p, v, c) = w[n]
  BY <1>4, <1>6
<1>8. w[0] = h
  BY <1>5 DEF IsVisits
<1>9. ASSUME NEW k \in 1..n PROVE w[k] = Visit(f, w[k - 1], s[k], v, c)
  <2>1. k \in 0..n /\ k # 0
    OBVIOUS
  <2>. QED
    BY <1>5, <2>1 DEF IsVisits
<1>. QED
  BY <1>7, <1>8, <1>9

\* The same of the loop of after_trees.
LEMMA PassSteps ==
  ASSUME NEW f, NEW h, NEW p, NEW v, NEW c, NEW s, s = RightChain(f, p), NEW n \in Nat, n = Len(s)
  PROVE  \E w : /\ w[0] = h /\ PassTrees(f, h, p, v, c) = w[n]
                /\ \A k \in 1..n : w[k] = RightChild(f, w[k - 1], s[k], v, c)
<1>1. PICK u : u = [k \in 0..n |-> u[k]] /\ StepsTo("pass", f, h, s, n, v, c, u)
  BY StepsExist
<1>2. \A k \in 0..n : u[k] = IF k = 0 THEN h ELSE RightChild(f, u[k - 1], s[k], v, c)
  BY <1>1 DEF StepsTo, OneStep
<1>3. IsPasses(f, h, s, v, c, u)
  BY <1>1, <1>2 DEF IsPasses
<1>4. PICK w : w = CHOOSE y : IsPasses(f, h, s, v, c, y)
  OBVIOUS
<1>5. IsPasses(f, h, s, v, c, w)
  BY <1>3, <1>4
<1>6. PassTrees(f, h, p, v, c) = (CHOOSE y : IsPasses(f, h, s, v, c, y))[n]
  BY DEF PassTrees, IsPasses
<1>7. PassTrees(f, h, p, v, c) = w[n]
  BY <1>4, <1>6
<1>8. w[0] = h
  BY <1>5 DEF IsPasses
<1>9. ASSUME NEW k \in 1..n PROVE w[k] = RightChild(f, w[k - 1], s[k], v, c)
  <2>1. k \in 0..n /\ k # 0
    OBVIOUS
  <2>. QED
    BY <1>5, <2>1 DEF IsPasses
<1>. QED
  BY <1>7, <1>8, <1>9

\* The helpers between the steps of that loop, from a forest-point on.
Passing(f, h, k, s, n, v, c, w) ==
  /\ w[0] = h /\ PassTrees(f, h, Point(k), v, c) = w[n]
  /\ \A j \in 1..n : w[j] = RightChild(f, w[j - 1], s[j], v, c)

\* There are such helpers.
LEMMA PassingSteps ==
  ASSUME NEW f, NEW h, NEW k, NEW v, NEW c, NEW s, s = RightChain(f, Point(k)), NEW n \in Nat, n = Len(s)
  PROVE  \E w : Passing(f, h, k, s, n, v, c, w)
<1>1. PICK p : p = Point(k)
  OBVIOUS
<1>2. s = RightChain(f, p)
  BY <1>1
<1>3. PICK w : /\ w[0] = h /\ PassTrees(f, h, p, v, c) = w[n]
               /\ \A j \in 1..n : w[j] = RightChild(f, w[j - 1], s[j], v, c)
  BY <1>2, PassSteps
<1>. QED
  BY <1>1, <1>3 DEF Passing

---------------------------------------------------------------------------------
(* The policy of a helper. *)

HasPolicy(h, b) == "policy" \in DOMAIN h /\ h.policy = b

\* right_child keeps it, ...
LEMMA RightPolicy ==
  ASSUME NEW f, NEW h, NEW b, HasPolicy(h, b), NEW p, NEW v, NEW c, NEW g, g = RightChild(f, h, p, v, c)
  PROVE  HasPolicy(g, b)
<1>0. PICK n : n = Node(f, p)
  OBVIOUS
<1>1. PICK t : t = (IF DataListAhead(n, c) THEN CopyEndDec(n.ded, v, c) ELSE <<>>)
                     \o (IF NavListAhead(n, c) THEN CopyEndDec(n.ned, v, c) ELSE <<>>)
  OBVIOUS
<1>2. PICK k : k = [h EXCEPT !.visited[n.height] = p]
  OBVIOUS
<1>3. HasPolicy(k, b)
  BY <1>2 DEF HasPolicy
<1>4. g = [k EXCEPT !.out = k.out \o t]
  BY <1>0, <1>1, <1>2 DEF RightChild, Emit
<1>. QED
  BY <1>3, <1>4 DEF HasPolicy

\* ... so do the other callbacks, ...
LEMMA VisitPolicy ==
  ASSUME NEW f, NEW h, NEW b, HasPolicy(h, b), NEW p, NEW v, NEW c, NEW g, g = Visit(f, h, p, v, c)
  PROVE  HasPolicy(g, b)
<1>1. CASE g = RightChild(f, h, p, v, c)
  BY <1>1, RightPolicy
<1>2. CASE g = LeftChild(f, h, p, v, c)
  <2>1. PICK n, found : n = Node(f, p) /\ found = CopyStartAsc(n.nsa, SavedStart(h, n, p), v, c)
    OBVIOUS
  <2>2. PICK k : k = [h EXCEPT !.wentLeft = TRUE, !.firstLeft = FirstLeft(h, p),
                               !.visited[n.height] = p, !.startAt[n.height] = found.next]
    OBVIOUS
  <2>3. HasPolicy(k, b)
    BY <2>2 DEF HasPolicy
  <2>4. g = [k EXCEPT !.out = k.out \o found.out]
    BY <1>2, <2>1, <2>2 DEF LeftChild, Emit
  <2>. QED
    BY <2>3, <2>4 DEF HasPolicy
<1>3. CASE g = SelectNode(f, h, p, v, c)
  <2>1. PICK n : n = Node(f, p)
    OBVIOUS
  <2>2. PICK t : t = (IF v = n.dkey THEN CopyEndDec(n.ded, v, c) ELSE <<>>)
                       \o (IF NavListAhead(n, c) THEN CopyEndDec(n.ned, v, c) ELSE <<>>)
    OBVIOUS
  <2>3. PICK k : k = [h EXCEPT !.visited[n.height] = p, !.it = SelectNext(n, v)]
    OBVIOUS
  <2>4. HasPolicy(k, b)
    BY <2>3 DEF HasPolicy
  <2>5. g = [k EXCEPT !.out = k.out \o t]
    BY <1>3, <2>1, <2>2, <2>3 DEF SelectNode, Emit
  <2>. QED
    BY <2>4, <2>5 DEF HasPolicy
<1>. QED
  BY <1>1, <1>2, <1>3 DEF Visit

\* ... and so do the loops.
LEMMA LoopPolicy ==
  ASSUME NEW n \in Nat, NEW w, NEW b, HasPolicy(w[0], b),
         \A k \in 1..n : HasPolicy(w[k - 1], b) => HasPolicy(w[k], b)
  PROVE  HasPolicy(w[n], b)
<1>. DEFINE S == {k \in Nat : k <= n => HasPolicy(w[k], b)}
<1>1. 0 \in S
  OBVIOUS
<1>2. ASSUME NEW k \in S PROVE k + 1 \in S
  <2>1. k \in Nat /\ (k <= n => HasPolicy(w[k], b))
    OBVIOUS
  <2>2. ASSUME k + 1 <= n PROVE HasPolicy(w[k + 1], b)
    <3>1. k + 1 \in 1..n /\ (k + 1) - 1 = k /\ k <= n
      BY <2>1, <2>2
    <3>. QED
      BY <2>1, <3>1
  <2>. QED
    BY <2>1, <2>2
<1>3. S = Nat
  <2>1. S \in SUBSET Nat
    OBVIOUS
  <2>. HIDE DEF S
  <2>. QED
    BY <1>1, <1>2, <2>1, NatAll
<1>4. n \in S
  <2>. HIDE DEF S
  <2>. QED
    BY <1>3
<1>. QED
  BY <1>4

---------------------------------------------------------------------------------
(* A stab in the trees. *)

\* Each pointer of a path but the last is the child of the one before it that v leads to.
Links(f, v, s) ==
  \A i \in 1..(Len(s) - 1) : ~Selects(Node(f, s[i]), v) /\ s[i + 1] = Child(Node(f, s[i]), v)

\* A pointer before a path.
LEMMA LinksOn ==
  ASSUME NEW f, NEW v, NEW p \in Pointers(f), NEW s \in Seq(Pointers(f)), s # <<>>, Links(f, v, s),
         ~Selects(Node(f, p), v), s[1] = Child(Node(f, p), v)
  PROVE  Links(f, v, <<p>> \o s)
<1>1. PICK n \in Nat : n = Len(s) /\ n > 0
  OBVIOUS
<1>2. PICK t : t = <<p>> \o s
  OBVIOUS
<1>3. Len(t) = n + 1 /\ t[1] = p /\ \A i \in 1..n : t[i + 1] = s[i]
  BY <1>1, <1>2, ConsFacts
<1>4. ASSUME NEW i \in 1..((n + 1) - 1)
      PROVE  ~Selects(Node(f, t[i]), v) /\ t[i + 1] = Child(Node(f, t[i]), v)
  <2>1. CASE i = 1
    BY <1>1, <1>3, <2>1
  <2>2. CASE i # 1
    <3>1. PICK k \in 1..(n - 1) : k = i - 1 /\ i = k + 1
      BY <2>2
    <3>2. k \in 1..n /\ k + 1 \in 1..n
      BY <3>1
    <3>3. t[i] = s[k] /\ t[i + 1] = s[k + 1]
      BY <1>3, <3>1, <3>2
    <3>4. ~Selects(Node(f, s[k]), v) /\ s[k + 1] = Child(Node(f, s[k]), v)
      BY <1>1, <3>1 DEF Links
    <3>. QED
      BY <3>3, <3>4
  <2>. QED
    BY <2>1, <2>2
<1>. QED
  BY <1>2, <1>3, <1>4 DEF Links

\* Every path goes from child to child as the comparisons with v say (navigate_stab_tree_node).
LEMMA PathLinks ==
  ASSUME NEW f, Shape(f), Linked(f), NEW v \in Int, NEW p \in Pointers(f), InRange(f, p, v)
  PROVE  Links(f, v, Path(f, p, v))
<1>. DEFINE Good(q) == Links(f, v, Path(f, q, v))
            S == {k \in Nat : \A q \in Pointers(f) :
                                InRange(f, q, v) /\ Node(f, q).height < k => Good(q)}
<1>1. 0 \in S
  BY HeightBound
<1>2. ASSUME NEW k \in S PROVE k + 1 \in S
  <2>1. k \in Nat
    OBVIOUS
  <2>2. ASSUME NEW q \in Pointers(f), InRange(f, q, v), Node(f, q).height < k + 1 PROVE Good(q)
    <3>1. CASE Selects(Node(f, q), v)
      <4>1. Path(f, q, v) = <<q>>
        BY <3>1, PathGoesOn
      <4>2. PICK s : s = <<q>> /\ Len(s) = 1
        <5>1. Len(<<q>>) = 1
          OBVIOUS
        <5>. QED
          BY <5>1
      <4>3. Links(f, v, s)
        BY <4>2 DEF Links
      <4>. QED
        BY <4>1, <4>2, <4>3
    <3>2. CASE ~Selects(Node(f, q), v)
      <4>1. PICK c : c = Child(Node(f, q), v)
        OBVIOUS
      <4>2. InRange(f, c, v)
        <5>1. InRange(f, Child(Node(f, q), v), v)
          BY <2>2, <3>2, RangeStep
        <5>. QED
          BY <4>1, <5>1
      <4>3. c \in Pointers(f) /\ c # Null
        BY <4>2, InRangePoints
      <4>4. Node(f, c).height \in Nat /\ Node(f, q).height \in Nat
        BY <4>3, HeightBound
      <4>5. Node(f, c).height < Node(f, q).height
        <5>1. c \in {Node(f, q).left, Node(f, q).right}
          BY <4>1 DEF Child
        <5>. QED
          BY <4>3, <5>1, Leads
      <4>6. Node(f, c).height < k
        BY <2>1, <2>2, <4>4, <4>5
      <4>7. Good(c)
        BY <4>2, <4>3, <4>6
      <4>8. Path(f, q, v) = <<q>> \o Path(f, c, v)
        BY <3>2, <4>1, PathGoesOn
      <4>9. PICK s : s = Path(f, c, v)
        OBVIOUS
      <4>10. s \in Seq(Pointers(f)) /\ s # <<>> /\ s[1] = c
        BY <4>2, <4>3, <4>9, PathDown DEF GoesDown
      <4>11. Links(f, v, <<q>> \o s)
        BY <3>2, <4>1, <4>7, <4>9, <4>10, LinksOn
      <4>. QED
        BY <4>8, <4>9, <4>11
    <3>. QED
      BY <3>1, <3>2
  <2>3. k + 1 \in Nat
    BY <2>1
  <2>. HIDE DEF Good
  <2>. QED
    BY <2>2, <2>3
<1>3. S = Nat
  <2>1. S \in SUBSET Nat
    OBVIOUS
  <2>. HIDE DEF S
  <2>. QED
    BY <1>1, <1>2, <2>1, NatAll
<1>4. PICK h \in Nat : h = Node(f, p).height
  BY HeightBound
<1>5. h + 1 \in S /\ h < h + 1
  <2>. HIDE DEF S
  <2>. QED
    BY <1>3
<1>. HIDE DEF Good
<1>6. Good(p)
  BY <1>4, <1>5
<1>. QED
  BY <1>6 DEF Good

\* A forest-point passed on the right leads to the next, whose values begin by v.
LEMMA PointNext ==
  ASSUME NEW f, Shape(f), Linked(f), NEW v \in Int, NEW k \in 1..Len(f.index), FirstKey(f, k) <= v,
         v <= f.nodes[Len(f.nodes)].dkey, f.index[k].dkey < v
  PROVE  \E i \in 1..Len(f.index) : f.index[k].right = Point(i) /\ FirstKey(f, i) <= v
<1>1. PICK low, last, d : low = f.nodes[Under(f, k - 1) + 1].nkey /\ last = f.nodes[Len(f.nodes)].dkey /\ d = f.index[k].dkey
  OBVIOUS
<1>2. GoesOn(f, f.index[k], v, low, Event, last)
  BY <1>1, PointGoesOn DEF FirstKey
<1>3. PICK q : q = f.index[k].right /\ Place(f, q, d + 1, Event, last)
  BY <1>1, <1>2 DEF GoesOn
<1>4. q # Null
  <2>1. \/ \E j \in Settled(f) : q = Tree(j)
        \/ \E i \in 1..Len(f.index) : q = Point(i)
    BY <1>3 DEF Place
  <2>. QED
    BY <2>1, PointerFacts
<1>5. PICK m \in Nat : m = Len(f.index)
  BY UnderNat
<1>6. k # m
  <2>1. f.index[m].right = Null
    BY <1>5 DEF Shape, Descending
  <2>. QED
    BY <1>3, <1>4, <2>1
<1>7. q = Point(k + 1) /\ k + 1 \in 1..m
  <2>1. k \in 1..(m - 1)
    BY <1>5, <1>6
  <2>. QED
    BY <1>3, <1>5, <2>1 DEF Linked
<1>8. PICK i \in 1..Len(f.index) : q = Point(i) /\ d + 1 = f.nodes[Under(f, i - 1) + 1].nkey
  <2>1. \A j : q # Tree(j)
    BY <1>7, PointerFacts
  <2>. QED
    BY <1>3, <2>1 DEF Place
<1>9. d \in Int
  <2>1. f.index[k] \in PointRecord
    BY UnderNat
  <2>. QED
    BY <1>1, <2>1 DEF PointRecord
<1>10. FirstKey(f, i) <= v
  BY <1>1, <1>8, <1>9 DEF FirstKey
<1>. QED
  BY <1>3, <1>8, <1>10

\* What is remembered stays good when more has been passed.
LEMMA RemembersMore ==
  ASSUME NEW f, ContentInv(f), NEW p, NEW s, NEW x \in Int, NEW z \in Int, x <= z, Remembers(f, p, s, x)
  PROVE  Remembers(f, p, s, z)
<1>1. CASE p = Null
  BY <1>1 DEF Remembers
<1>2. CASE p # Null
  <2>1. p \in Pointers(f)
    BY <1>2 DEF Remembers
  <2>2. PICK n : n = Node(f, p)
    OBVIOUS
  <2>3. ListsFit(f, n)
    BY <2>1, <2>2, NodeFits
  <2>4. n.nkey \in Int /\ n.nsa \in Seq(Event)
    BY <2>3 DEF ListsFit
  <2>5. CASE n.nkey <= x + 1
    <3>1. n.nkey <= z + 1
      BY <2>4, <2>5
    <3>. QED
      BY <2>1, <2>2, <3>1 DEF Remembers
  <2>6. CASE ~(n.nkey <= x + 1)
    <3>1. s \in 1..(Len(n.nsa) + 1) /\ \A i \in 1..(s - 1) : n.nsa[i].start <= x
      BY <1>2, <2>2, <2>6 DEF Remembers
    <3>2. ASSUME NEW i \in 1..(s - 1) PROVE n.nsa[i].start <= z
      <4>1. i \in 1..Len(n.nsa)
        BY <2>4, <3>1
      <4>2. n.nsa[i].start \in Int
        BY <2>4, <4>1, EventTimes
      <4>. QED
        BY <3>1, <4>2
    <3>. QED
      BY <2>1, <2>2, <3>1, <3>2 DEF Remembers
  <2>. QED
    BY <2>5, <2>6
<1>. QED
  BY <1>1, <1>2

\* The first key of a forest-point's tree is that of a node.
LEMMA FirstKeyNode ==
  ASSUME NEW f, Shape(f), NEW k \in 1..Len(f.index)
  PROVE  /\ FirstKey(f, k) \in Int
         /\ \E p \in Pointers(f) : Node(f, p).nkey = FirstKey(f, k)
<1>1. PICK j \in 1..Len(f.nodes) : j = Under(f, k - 1) + 1
  BY UnderNext
<1>2. f.nodes[j].nkey \in Int
  BY Keys
<1>3. Tree(j) \in Pointers(f) /\ Node(f, Tree(j)) = f.nodes[j]
  BY DEF Pointers, Node, Tree
<1>. QED
  BY <1>1, <1>2, <1>3 DEF FirstKey

\* Who knows the left up to a start knows it up to a later one.
LEMMA KnowsMore ==
  ASSUME NEW f, Shape(f), NEW p, NEW x \in Int, NEW z \in Int, x <= z, KnowsLeft(f, p, x)
  PROVE  KnowsLeft(f, p, z)
<1>1. CASE p = Null
  BY <1>1 DEF KnowsLeft
<1>2. CASE p # Null
  <2>1. PICK k \in 1..Len(f.index) : p = Point(k) /\ FirstKey(f, k) <= x + 1
    BY <1>2 DEF KnowsLeft
  <2>2. FirstKey(f, k) \in Int
    BY FirstKeyNode
  <2>3. FirstKey(f, k) <= z + 1
    BY <2>1, <2>2
  <2>. QED
    BY <2>1, <2>3 DEF KnowsLeft
<1>. QED
  BY <1>1, <1>2

\* A stab that meets a forest-point on its way has passed what starts before its tree.
LEMMA KnowsReached ==
  ASSUME NEW f, Shape(f), NEW v, NEW c, NEW x, NEW z, Going(f, v, c, x, z),
         NEW k \in 1..Len(f.index), FirstKey(f, k) <= v
  PROVE  KnowsLeft(f, Point(k), z)
<1>1. PICK p \in Pointers(f) : Node(f, p).nkey = FirstKey(f, k)
  BY FirstKeyNode
<1>2. FirstKey(f, k) <= z + 1
  BY <1>1 DEF Going
<1>. QED
  BY <1>2 DEF KnowsLeft

\* The path of a stab: it goes down, pointer by pointer, and G joins what a search copies.
Route(f, v, s, G) ==
  /\ GoesDown(f, v, s[1], s) /\ Links(f, v, s)
  /\ Walk(f, v, s, Visits(f, v, s)) /\ FlatBy(Visits(f, v, s), Len(s), G)
  /\ v <= f.nodes[Len(f.nodes)].dkey

\* The helper g after n of its pointers.  The heights still to come are as the last stab
\* left them, for the path meets no height twice.
Midway(f, v, c, x, z, s, G, g, n) ==
  /\ g \in Helpers(f)
  /\ IF n = 0 THEN g.out = <<>> ELSE Forwards(g.out, G[n], c)
  /\ \A a \in Heights(f) : Remembers(f, g.visited[a], g.startAt[a], z)
  /\ \A j \in (n + 1)..Len(s) :
       Remembers(f, g.visited[Node(f, s[j]).height], g.startAt[Node(f, s[j]).height], x)
  /\ KnowsLeft(f, g.firstLeft, z)
  /\ n < Len(s) /\ ~g.wentLeft => \E k \in 1..Len(f.index) : s[n + 1] = Point(k) /\ FirstKey(f, k) <= v
  /\ n = Len(s) => g.it = StartsAfter(f.events, v)

\* One pointer more.
LEMMA MidwayOn ==
  ASSUME NEW f, ContentInv(f), NEW v, NEW c, NEW x, NEW z, Going(f, v, c, x, z),
         NEW s, NEW G, Route(f, v, s, G), NEW n \in Nat, n < Len(s),
         NEW g, Midway(f, v, c, x, z, s, G, g, n),
         NEW g2, g2 = Visit(f, g, s[n + 1], v, c)
  PROVE  Midway(f, v, c, x, z, s, G, g2, n + 1)
<1>1. Shape(f) /\ Linked(f)
  BY DEF ContentInv, ForestInv
<1>2. v \in Int /\ c \in Int /\ x \in Int /\ z \in Int /\ x <= z
  BY DEF Going
<1>3. PICK l \in Nat : l = Len(s) /\ s \in Seq(Pointers(f)) /\ DOMAIN s = 1..l
  <2>1. s \in Seq(Pointers(f))
    BY DEF Route, GoesDown
  <2>. QED
    BY <2>1
<1>4. n + 1 \in 1..l
  BY <1>3
<1>5. PICK p \in Pointers(f) : p = s[n + 1]
  BY <1>3, <1>4
<1>6. PICK y : y = Node(f, p)
  OBVIOUS
<1>7. y.height \in Heights(f) /\ y.nkey \in Int /\ y.dkey \in Int
  BY <1>5, <1>6, NodeFits DEF ListsFit
<1>8. g \in Helpers(f) /\ Remembers(f, g.visited[y.height], g.startAt[y.height], x)
  <2>1. n + 1 \in (n + 1)..Len(s)
    BY <1>3, <1>4
  <2>. QED
    BY <1>5, <1>6, <2>1 DEF Midway
<1>9. PICK t : /\ Took(f, g, g2, p, t, z) /\ Forwards(t, VisitOf(y, v), c)
               /\ Selects(y, v) =>
                    g2.it = StartsAfter(f.events, v) /\ g2.wentLeft = g.wentLeft /\ g2.firstLeft = g.firstLeft
               /\ ~Selects(y, v) /\ v < y.nkey =>
                    g2.it = g.it /\ g2.wentLeft /\ g2.firstLeft = FirstLeft(g, p)
               /\ ~Selects(y, v) /\ ~(v < y.nkey) =>
                    g2.it = g.it /\ g2.wentLeft = g.wentLeft /\ g2.firstLeft = g.firstLeft
  BY <1>5, <1>6, <1>8, VisitTakes
<1>10. /\ g2 \in Helpers(f) /\ g2.out = g.out \o t
       /\ \A a \in Heights(f) : a # y.height => g2.visited[a] = g.visited[a] /\ g2.startAt[a] = g.startAt[a]
       /\ Remembers(f, g2.visited[y.height], g2.startAt[y.height], z)
  BY <1>6, <1>9 DEF Took
\* what is copied
<1>11. Forwards(g2.out, G[n + 1], c)
  <2>1. PICK a : a = Visits(f, v, s)
    OBVIOUS
  <2>2. a[n + 1] = VisitOf(y, v)
    BY <1>3, <1>4, <1>5, <1>6, <2>1 DEF Visits
  <2>3. FlatBy(a, l, G)
    BY <1>3, <2>1 DEF Route
  <2>4. CASE n = 0
    <3>1. g.out = <<>> /\ t \in Seq(Event)
      BY <1>9, <2>4 DEF Midway, Forwards
    <3>2. g2.out = t
      BY <1>10, <3>1
    <3>3. G[n + 1] = VisitOf(y, v)
      BY <2>2, <2>3, <2>4 DEF FlatBy
    <3>. QED
      BY <1>9, <3>2, <3>3
  <2>5. CASE n # 0
    <3>1. Forwards(g.out, G[n], c)
      BY <2>5 DEF Midway
    <3>2. n \in 1..l /\ n + 1 <= l
      BY <1>4, <2>5
    <3>3. G[n + 1] = G[n] \o VisitOf(y, v)
      BY <2>2, <2>3, <3>2 DEF FlatBy
    <3>. QED
      BY <1>9, <1>10, <3>1, <3>3, ForwardsBoth
  <2>. QED
    BY <2>4, <2>5
\* what is remembered
<1>12. ASSUME NEW a \in Heights(f) PROVE Remembers(f, g2.visited[a], g2.startAt[a], z)
  <2>1. CASE a = y.height
    BY <1>10, <2>1
  <2>2. CASE a # y.height
    BY <1>10, <2>2 DEF Midway
  <2>. QED
    BY <2>1, <2>2
<1>13. ASSUME NEW j \in ((n + 1) + 1)..l
       PROVE  Remembers(f, g2.visited[Node(f, s[j]).height], g2.startAt[Node(f, s[j]).height], x)
  <2>1. j \in (n + 1)..l /\ j \in 1..l /\ n + 1 < j
    BY <1>4
  <2>2. PICK a : a = Node(f, s[j]).height
    OBVIOUS
  <2>3. s[j] \in Pointers(f)
    BY <1>3, <2>1
  <2>4. a \in Heights(f) /\ a \in Nat /\ y.height \in Nat
    BY <1>1, <1>5, <1>6, <2>2, <2>3, HeightsAll, HeightBound
  <2>5. y.height > a
    BY <1>3, <1>4, <1>5, <1>6, <2>1, <2>2 DEF Route, GoesDown
  <2>6. a # y.height
    BY <2>4, <2>5
  <2>7. Remembers(f, g.visited[a], g.startAt[a], x)
    BY <1>3, <2>1, <2>2 DEF Midway
  <2>8. Remembers(f, g2.visited[a], g2.startAt[a], x)
    BY <1>10, <2>4, <2>6, <2>7
  <2>. QED
    BY <2>2, <2>8
\* the first pointer followed to the left
<1>14. KnowsLeft(f, g.firstLeft, z)
  BY DEF Midway
<1>15. ~g.wentLeft => \E k \in 1..Len(f.index) : p = Point(k) /\ FirstKey(f, k) <= v
  BY <1>5 DEF Midway
<1>16. KnowsLeft(f, g2.firstLeft, z)
  <2>1. CASE ~Selects(y, v) /\ v < y.nkey /\ ~g.wentLeft
    <3>1. g2.firstLeft = p
      BY <1>9, <2>1 DEF FirstLeft
    <3>2. PICK k \in 1..Len(f.index) : p = Point(k) /\ FirstKey(f, k) <= v
      BY <1>15, <2>1
    <3>. QED
      BY <1>1, <3>1, <3>2, KnowsReached
  <2>2. CASE ~(~Selects(y, v) /\ v < y.nkey /\ ~g.wentLeft)
    <3>1. g2.firstLeft = g.firstLeft
      BY <1>9, <2>2 DEF FirstLeft
    <3>. QED
      BY <1>14, <3>1
  <2>. QED
    BY <2>1, <2>2
<1>17. ASSUME n + 1 < l, ~g2.wentLeft
       PROVE  \E k \in 1..Len(f.index) : s[(n + 1) + 1] = Point(k) /\ FirstKey(f, k) <= v
  <2>1. n + 1 \in 1..(l - 1)
    BY <1>17
  <2>2. ~Selects(y, v) /\ s[(n + 1) + 1] = Child(y, v)
    BY <1>3, <1>5, <1>6, <2>1 DEF Route, Links
  <2>3. ~(v < y.nkey) /\ g2.wentLeft = g.wentLeft
    BY <1>9, <1>17, <2>2
  <2>4. PICK k \in 1..Len(f.index) : p = Point(k) /\ FirstKey(f, k) <= v
    BY <1>15, <1>17, <2>3
  <2>5. y = f.index[k]
    BY <1>6, <2>4 DEF Node, Point
  <2>6. y.dkey < v
    BY <1>2, <1>7, <2>2, <2>3 DEF Selects
  <2>7. PICK i \in 1..Len(f.index) : f.index[k].right = Point(i) /\ FirstKey(f, i) <= v
    BY <1>1, <1>2, <2>4, <2>5, <2>6, PointNext DEF Route
  <2>. QED
    BY <2>2, <2>3, <2>5, <2>7 DEF Child
\* the selected node
<1>18. ASSUME n + 1 = l PROVE g2.it = StartsAfter(f.events, v)
  <2>1. Last(s) = p
    BY <1>3, <1>5, <1>18 DEF Last
  <2>2. Selects(y, v)
    BY <1>6, <2>1 DEF Route, GoesDown
  <2>. QED
    BY <1>9, <2>2
<1>. QED
  <2>1. n + 1 # 0
    OBVIOUS
  <2>. QED
    BY <1>3, <1>10, <1>11, <1>12, <1>13, <1>16, <1>17, <1>18, <2>1 DEF Midway

\* What a stab at v from c on should write: what is active at v, of c's perhaps less, and
\* of what starts before c nothing.
Answers(f, t, v, c) ==
  /\ t \in Seq(Event)
  /\ \A e \in Event : LET all == IF e \in Active(v) THEN Occurrences(f.events, e) ELSE 0
                      IN /\ Occurrences(t, e) <= all
                         /\ e.start < c => Occurrences(t, e) = 0
                         /\ c < e.start => Occurrences(t, e) = all

\* It does so if it forwards a list that has nothing else, and all that starts behind c.
LEMMA AnswersForward ==
  ASSUME NEW f, f.events \in Seq(Event), NEW t, NEW s, NEW v, NEW c, Forwards(t, s, c), NEW C,
         Holds(s, f.events, C),
         \A e \in Event : Occurrences(f.events, e) # 0 =>
           (e \in C => e \in Active(v)) /\ (e \in Active(v) /\ c < e.start => e \in C)
  PROVE  Answers(f, t, v, c)
<1>1. ASSUME NEW e \in Event, NEW all, all = IF e \in Active(v) THEN Occurrences(f.events, e) ELSE 0
      PROVE  /\ Occurrences(t, e) <= all
             /\ e.start < c => Occurrences(t, e) = 0
             /\ c < e.start => Occurrences(t, e) = all
  <2>1. Occurrences(f.events, e) \in Nat /\ Occurrences(t, e) \in Nat /\ Occurrences(s, e) \in Nat
    <3>1. f.events \in Seq(Event) /\ t \in Seq(Event) /\ s \in Seq(Event)
      BY DEF Forwards
    <3>2. Len(f.events) \in Nat /\ Len(t) \in Nat /\ Len(s) \in Nat
      BY <3>1
    <3>. QED
      BY <3>2, OccNat
  <2>2. /\ Occurrences(t, e) <= Occurrences(s, e)
        /\ e.start < c => Occurrences(t, e) = 0
        /\ c < e.start => Occurrences(t, e) = Occurrences(s, e)
    BY DEF Forwards
  <2>3. Occurrences(s, e) = IF e \in C THEN Occurrences(f.events, e) ELSE 0
    BY DEF Holds
  <2>4. CASE Occurrences(f.events, e) = 0
    BY <1>1, <2>1, <2>2, <2>3, <2>4
  <2>5. CASE Occurrences(f.events, e) # 0
    BY <1>1, <2>1, <2>2, <2>3, <2>5
  <2>. QED
    BY <2>4, <2>5
<1>2. t \in Seq(Event)
  BY DEF Forwards
<1>. QED
  BY <1>1, <1>2 DEF Answers

\* The events of the trees are apart from the tail: what has started by a data key is indexed.
LEMMA WithinIndexed ==
  ASSUME NEW f, ContentInv(f), NEW s, NEW low, NEW v \in Int, Len(f.nodes) > 0,
         v <= f.nodes[Len(f.nodes)].dkey, Holds(s, Indexed(f), Within(low, Event, v))
  PROVE  Holds(s, f.events, Within(low, Event, v))
<1>1. ForestInv(f) /\ Shape(f)
  BY DEF ContentInv, ForestInv
<1>2. PICK d \in Int : d = f.nodes[Len(f.nodes)].dkey
  <2>1. Len(f.nodes) \in 1..Len(f.nodes)
    <3>1. Len(f.nodes) \in Nat
      BY <1>1, UnderNat
    <3>. QED
      BY <3>1
  <2>. QED
    BY <1>1, <2>1, Keys
<1>3. ASSUME NEW e \in Event, e \in Within(low, Event, v)
      PROVE  Occurrences(f.events, e) = Occurrences(Indexed(f), e)
  <2>1. Occurrences(EventTail(f), e) # 0 => d < e.start
    BY <1>2, WhereEventsStart
  <2>2. e.start \in Int /\ e.start <= v
    BY <1>3, EventTimes DEF Within, ActiveAt
  <2>3. Occurrences(EventTail(f), e) = 0
    BY <1>2, <2>1, <2>2
  <2>4. /\ f.events = Indexed(f) \o EventTail(f)
        /\ Indexed(f) \in Seq(Event) /\ EventTail(f) \in Seq(Event)
    BY <1>1, WholeList
  <2>5. Occurrences(f.events, e) = Occurrences(Indexed(f), e) + Occurrences(EventTail(f), e)
    BY <2>4, OccBoth
  <2>6. Occurrences(Indexed(f), e) \in Nat
    <3>1. Len(Indexed(f)) \in Nat
      BY <2>4
    <3>. QED
      BY <3>1, OccNat
  <2>. QED
    BY <2>3, <2>5, <2>6
<1>. QED
  BY <1>3, HoldsSame

\* A helper of which x has been passed.
Knows(f, h, x) ==
  /\ h \in Helpers(f)
  /\ \A a \in Heights(f) : Remembers(f, h.visited[a], h.startAt[a], x)
  /\ KnowsLeft(f, h.firstLeft, x)

\* What a stab at v from c on makes of it.
Moved(f, g, v, c, z) ==
  Knows(f, g, z) /\ g.it = StartsAfter(f.events, v) /\ Answers(f, g.out, v, c)

\* A stab that goes down from a forest-point.
LEMMA NavigateMoves ==
  ASSUME NEW f, ContentInv(f), NEW v, NEW c, NEW x, NEW z, Going(f, v, c, x, z),
         NEW h, Knows(f, h, x), h.out = <<>>, ~h.wentLeft,
         NEW i \in 1..Len(f.index), FirstKey(f, i) <= v, v <= f.nodes[Len(f.nodes)].dkey,
         \A e \in Event : Occurrences(f.events, e) # 0 /\ c < e.start => FirstKey(f, i) <= e.start
  PROVE  /\ Moved(f, Navigate(f, h, Point(i), v, c), v, c, z)
         /\ HasPolicy(Navigate(f, h, Point(i), v, c), h.policy)
<1>1. /\ Shape(f) /\ Linked(f) /\ ListsHold(f) /\ CutOK(f) /\ f.tail \in 1..(Len(f.events) + 1)
      /\ f.events \in Seq(Event)
  BY DEF ContentInv, ForestInv, EventsOK, Shape, Typed
<1>2. v \in Int /\ c \in Int /\ x \in Int /\ z \in Int /\ x <= z
  BY DEF Going
<1>3. PICK low, last : low = FirstKey(f, i) /\ last = f.nodes[Len(f.nodes)].dkey /\ low <= v /\ v <= last
  OBVIOUS
<1>4. Place(f, Point(i), low, Event, last)
  BY <1>3 DEF Place, FirstKey
<1>5. PICK s : s = Path(f, Point(i), v)
  OBVIOUS
<1>6. PICK a : Walk(f, v, s, a) /\ Holds(FlattenSeq(a), Indexed(f), Within(low, Event, v))
  <2>1. Finds(f, v, Point(i), low, Event)
    BY <1>1, <1>2, <1>3, <1>4, PathFinds
  <2>. QED
    BY <1>5, <2>1 DEF Finds
<1>7. PICK l \in Nat : l = Len(s) /\ l > 0 /\ Len(a) = l
  <2>1. s \in Seq(Pointers(f)) /\ s # <<>> /\ Len(a) = Len(s)
    BY <1>6 DEF Walk
  <2>. QED
    BY <2>1
<1>8. PICK G : FlatBy(a, l, G)
  BY <1>7, FlatSteps
<1>9. a = Visits(f, v, s)
  BY <1>6 DEF Walk
<1>10. InRange(f, Point(i), v) /\ Point(i) \in Pointers(f)
  BY <1>3 DEF InRange, Pointers, FirstKey
<1>11. GoesDown(f, v, Point(i), s) /\ Links(f, v, s)
  BY <1>1, <1>2, <1>5, <1>10, PathDown, PathLinks
<1>12. s[1] = Point(i)
  BY <1>11 DEF GoesDown
<1>13. Route(f, v, s, G)
  BY <1>3, <1>6, <1>7, <1>8, <1>9, <1>11, <1>12 DEF Route
<1>14. PICK w : /\ w[0] = h /\ Navigate(f, h, Point(i), v, c) = w[l]
                /\ \A k \in 1..l : w[k] = Visit(f, w[k - 1], s[k], v, c)
  BY <1>5, <1>7, NavigateSteps
<1>15. Midway(f, v, c, x, z, s, G, w[0], 0)
  <2>1. s \in Seq(Pointers(f))
    BY <1>6 DEF Walk
  <2>2. ASSUME NEW j \in (0 + 1)..l
        PROVE  Remembers(f, h.visited[Node(f, s[j]).height], h.startAt[Node(f, s[j]).height], x)
    <3>1. s[j] \in Pointers(f)
      BY <1>7, <2>1
    <3>2. Node(f, s[j]).height \in Heights(f)
      BY <1>1, <3>1, HeightsAll
    <3>. QED
      BY <3>2 DEF Knows
  <2>3. \A b \in Heights(f) : Remembers(f, h.visited[b], h.startAt[b], z)
    BY <1>2, RemembersMore DEF Knows
  <2>4. KnowsLeft(f, h.firstLeft, z)
    BY <1>1, <1>2, KnowsMore DEF Knows
  <2>5. 0 + 1 = 1 /\ ~(0 = l)
    BY <1>7
  <2>6. \E k \in 1..Len(f.index) : s[0 + 1] = Point(k) /\ FirstKey(f, k) <= v
    BY <1>12, <2>5
  <2>7. h \in Helpers(f)
    BY DEF Knows
  <2>. QED
    BY <1>7, <1>14, <2>2, <2>3, <2>4, <2>5, <2>6, <2>7 DEF Midway
<1>16. Midway(f, v, c, x, z, s, G, w[l], l)
  <2>. DEFINE S == {k \in Nat : k <= l => Midway(f, v, c, x, z, s, G, w[k], k)}
  <2>1. 0 \in S
    BY <1>15
  <2>2. ASSUME NEW k \in S PROVE k + 1 \in S
    <3>1. k \in Nat /\ (k <= l => Midway(f, v, c, x, z, s, G, w[k], k))
      OBVIOUS
    <3>2. ASSUME k + 1 <= l PROVE Midway(f, v, c, x, z, s, G, w[k + 1], k + 1)
      <4>1. k + 1 \in 1..l /\ (k + 1) - 1 = k /\ k < l /\ k <= l
        BY <3>1, <3>2
      <4>2. w[k + 1] = Visit(f, w[k], s[k + 1], v, c)
        BY <1>14, <4>1
      <4>. QED
        BY <1>7, <1>13, <3>1, <4>1, <4>2, MidwayOn
    <3>. QED
      BY <3>1, <3>2
  <2>3. S = Nat
    <3>1. S \in SUBSET Nat
      OBVIOUS
    <3>. HIDE DEF S
    <3>. QED
      BY <2>1, <2>2, <3>1, NatAll
  <2>4. l \in S
    <3>. HIDE DEF S
    <3>. QED
      BY <2>3
  <2>. QED
    BY <2>4
<1>17. PICK g : g = w[l]
  OBVIOUS
<1>18. /\ g \in Helpers(f) /\ Forwards(g.out, G[l], c) /\ KnowsLeft(f, g.firstLeft, z)
       /\ \A b \in Heights(f) : Remembers(f, g.visited[b], g.startAt[b], z)
       /\ g.it = StartsAfter(f.events, v)
  <2>1. l # 0
    BY <1>7
  <2>. QED
    BY <1>7, <1>16, <1>17, <2>1 DEF Midway
<1>19. Answers(f, g.out, v, c)
  <2>1. G[l] = FlattenSeq(a)
    BY <1>8 DEF FlatBy
  <2>2. Len(f.nodes) > 0
    <3>1. Under(f, i - 1) + 1 \in 1..Len(f.nodes) /\ Len(f.nodes) \in Nat
      BY <1>1, UnderNext, UnderNat
    <3>. QED
      BY <3>1
  <2>3. Holds(G[l], f.events, Within(low, Event, v))
    BY <1>2, <1>3, <1>6, <2>1, <2>2, WithinIndexed
  <2>4. \A e \in Event : Occurrences(f.events, e) # 0 =>
          /\ e \in Within(low, Event, v) => e \in Active(v)
          /\ e \in Active(v) /\ c < e.start => e \in Within(low, Event, v)
    BY <1>3 DEF Within, Active
  <2>. QED
    BY <1>1, <1>18, <2>3, <2>4, AnswersForward
<1>20. HasPolicy(g, h.policy)
  <2>1. HasPolicy(w[0], h.policy)
    BY <1>14 DEF Knows, Helpers, HasPolicy
  <2>2. ASSUME NEW k \in 1..l, HasPolicy(w[k - 1], h.policy) PROVE HasPolicy(w[k], h.policy)
    <3>1. w[k] = Visit(f, w[k - 1], s[k], v, c)
      BY <1>14
    <3>. QED
      BY <2>2, <3>1, VisitPolicy
  <2>. QED
    BY <1>17, <2>1, <2>2, LoopPolicy
<1>21. Moved(f, g, v, c, z)
  BY <1>18, <1>19 DEF Moved, Knows
<1>. QED
  BY <1>14, <1>17, <1>20, <1>21

---------------------------------------------------------------------------------
(* What has been passed. *)

\* The start of the last event before position i.
Passed(f, i) == IF i = 1 THEN -1 ELSE f.events[i - 1].start

\* There is an event at every data key.
LEMMA DataKeyTaken ==
  ASSUME NEW f, ContentInv(f), NEW p \in Pointers(f)
  PROVE  \E i \in 1..Len(f.events) : f.events[i].start = Node(f, p).dkey
<1>1. /\ Shape(f) /\ CutOK(f) /\ f.tail \in 1..(Len(f.events) + 1) /\ f.events \in Seq(Event)
      /\ f.nodes \in Seq(NodeRecord)
  BY DEF ContentInv, ForestInv, EventsOK, Shape, Typed
<1>2. PICK j \in 1..Len(f.nodes) : Node(f, p).dkey = f.nodes[j].dkey /\ CutsAt(f, j)
  BY <1>1, NodeCuts
<1>3. PICK l \in Nat, t \in Int : l = Len(f.events) /\ t = f.tail /\ t \in 1..(l + 1)
  BY <1>1
<1>4. PICK b \in Int, d \in Int : b = f.nodes[j].dataBegin /\ d = f.nodes[j].dataEnd
  <2>1. f.nodes[j] \in NodeRecord
    BY <1>1
  <2>. QED
    BY <2>1 DEF NodeRecord
<1>5. 1 <= b /\ b < d /\ d <= t
  BY <1>1, <1>3, <1>4 DEF Shape, KeysOK
<1>6. b \in 1..l
  BY <1>3, <1>5
<1>7. f.events[b].start = f.nodes[j].dkey
  BY <1>2, <1>3, <1>4, <1>5, <1>6 DEF CutsAt
<1>. QED
  BY <1>2, <1>3, <1>6, <1>7

\* The navigation key of a node is the first start of all, or comes after a data key.
LEMMA NavKeyAfter ==
  ASSUME NEW f, ContentInv(f), NEW p \in Pointers(f)
  PROVE  \E i \in 1..Len(f.events) : Node(f, p).nkey \in {f.events[i].start, f.events[i].start + 1}
<1>1. Shape(f) /\ CutOK(f) /\ EventsOK(f) /\ f.events \in Seq(Event)
  BY DEF ContentInv, ForestInv, EventsOK, Shape, Typed
<1>2. PICK j \in 1..Len(f.nodes) : Node(f, p).nkey = f.nodes[j].nkey
  BY <1>1, NodeCuts
<1>3. PICK n \in Nat : n = Len(f.nodes) /\ n > 0
  BY <1>1, <1>2, UnderNat
<1>4. CASE j = 1
  <2>1. f.nodes[1].nkey = f.minKey /\ Len(f.events) > 0 /\ f.minKey = f.events[1].start
    BY <1>1, <1>3 DEF Shape, KeysOK, EventsOK
  <2>2. 1 \in 1..Len(f.events)
    BY <1>1, <2>1
  <2>. QED
    BY <1>2, <1>4, <2>1, <2>2
<1>5. CASE j # 1
  <2>1. j - 1 \in 1..(n - 1) /\ j - 1 \in 1..n /\ (j - 1) + 1 = j
    BY <1>3, <1>5
  <2>2. f.nodes[j].nkey = f.nodes[j - 1].dkey + 1
    BY <1>1, <1>3, <2>1 DEF Shape, KeysOK
  <2>3. Tree(j - 1) \in Pointers(f) /\ Node(f, Tree(j - 1)) = f.nodes[j - 1]
    BY <1>3, <2>1 DEF Pointers, Node, Tree
  <2>4. PICK i \in 1..Len(f.events) : f.events[i].start = f.nodes[j - 1].dkey
    BY <2>3, DataKeyTaken
  <2>. QED
    BY <1>2, <2>2, <2>4
<1>. QED
  BY <1>4, <1>5

\* The helper at i may be moved to v, and looks from start c on.
MayGo(f, i, v, c) ==
  /\ i \in 1..(Len(f.events) + 1) /\ v \in Timestamp
  /\ (c = -1 /\ i = 1) \/ (i <= Len(f.events) /\ c = f.events[i].start)
  /\ i > 1 => v > f.events[i - 1].start
  /\ i > 1 /\ i <= Len(f.events) => f.events[i].start # f.events[i - 1].start

\* Starts go up.
LEMMA StartsUp ==
  ASSUME NEW s \in Seq(Event), Ordered(s)
  PROVE  /\ \A k \in 1..Len(s) : s[k].start \in Int /\ s[k].start >= 0
         /\ \A j, k \in 1..Len(s) : j <= k => s[j].start <= s[k].start
<1>1. PICK l \in Nat : l = Len(s) /\ DOMAIN s = 1..l
  OBVIOUS
<1>2. \A k \in 1..l : s[k].start \in Int /\ s[k].start >= 0
  <2>1. \A k \in 1..l : s[k] \in Event
    BY <1>1
  <2>2. \A t \in Timestamp : t \in Int /\ t >= 0
    BY EventFields DEF Timestamp
  <2>. QED
    BY <2>1, <2>2, EventFields
<1>3. ASSUME NEW j \in 1..l, NEW k \in 1..l, j <= k PROVE s[j].start <= s[k].start
  <2>1. CASE j = k
    BY <1>2, <2>1
  <2>2. CASE j < k
    <3>1. AtOrBefore(s[j], s[k])
      BY <1>1, <2>2 DEF Ordered
    <3>2. PICK x \in Int, y \in Int : x = s[j].start /\ y = s[k].start
      BY <1>2
    <3>3. x < y \/ x = y
      BY <3>1, <3>2 DEF AtOrBefore
    <3>. QED
      BY <3>2, <3>3
  <2>. QED
    BY <1>3, <2>1, <2>2
<1>. QED
  BY <1>1, <1>2, <1>3

\* What starts by then is what is before the position.
LEMMA PassedIs ==
  ASSUME NEW f, f.events \in Seq(Event), Ordered(f.events), NEW i \in 1..(Len(f.events) + 1),
         i > 1 /\ i <= Len(f.events) => f.events[i].start # f.events[i - 1].start
  PROVE  /\ Passed(f, i) \in Int /\ Passed(f, i) >= -1
         /\ \A k \in 1..Len(f.events) : f.events[k].start <= Passed(f, i) <=> k < i
<1>1. PICK l \in Nat : l = Len(f.events)
  OBVIOUS
<1>2. \A k \in 1..l : f.events[k].start \in Int /\ f.events[k].start >= 0
  BY <1>1, StartsUp
<1>3. \A j, k \in 1..l : j <= k => f.events[j].start <= f.events[k].start
  BY <1>1, StartsUp
<1>4. CASE i = 1
  <2>1. Passed(f, i) = -1
    BY <1>4 DEF Passed
  <2>2. ASSUME NEW k \in 1..l PROVE ~(f.events[k].start <= -1) /\ ~(k < i)
    BY <1>2, <1>4
  <2>. QED
    BY <1>1, <2>1, <2>2
<1>5. CASE i > 1
  <2>1. i - 1 \in 1..l
    BY <1>1, <1>5
  <2>2. PICK x \in Int : x = f.events[i - 1].start /\ x = Passed(f, i) /\ x >= 0
    BY <1>2, <1>5, <2>1 DEF Passed
  <2>3. ASSUME NEW k \in 1..l PROVE f.events[k].start <= x <=> k < i
    <3>1. PICK y \in Int : y = f.events[k].start
      BY <1>2
    <3>2. CASE k < i
      <4>1. k <= i - 1
        BY <3>2
      <4>2. y <= x
        BY <1>3, <2>1, <2>2, <3>1, <4>1
      <4>. QED
        BY <3>1, <3>2, <4>2
    <3>3. CASE i <= k
      <4>1. i \in 1..l /\ i - 1 < i
        BY <1>5, <3>3
      <4>2. PICK z \in Int : z = f.events[i].start
        BY <1>2, <4>1
      <4>3. x <= z /\ x # z
        <5>1. i - 1 <= i /\ i <= Len(f.events)
          BY <1>1, <4>1
        <5>2. f.events[i].start # f.events[i - 1].start
          BY <1>5, <5>1
        <5>. QED
          BY <1>3, <2>1, <2>2, <4>1, <4>2, <5>1, <5>2
      <4>4. z <= y
        BY <1>3, <3>1, <3>3, <4>1, <4>2
      <4>5. ~(y <= x)
        BY <4>3, <4>4
      <4>. QED
        BY <3>1, <3>3, <4>5
    <3>. QED
      BY <3>2, <3>3
  <2>4. x >= -1
    BY <2>2
  <2>. QED
    BY <1>1, <2>2, <2>3, <2>4
<1>. QED
  BY <1>4, <1>5

\* More is passed further on.
LEMMA PassedMore ==
  ASSUME NEW f, f.events \in Seq(Event), Ordered(f.events), NEW i \in 1..(Len(f.events) + 1),
         NEW k \in 1..(Len(f.events) + 1), i <= k
  PROVE  Passed(f, i) \in Int /\ Passed(f, k) \in Int /\ Passed(f, i) <= Passed(f, k)
<1>1. PICK l \in Nat : l = Len(f.events)
  OBVIOUS
<1>2. \A j \in 1..l : f.events[j].start \in Int /\ f.events[j].start >= 0
  BY <1>1, StartsUp
<1>3. \A j, m \in 1..l : j <= m => f.events[j].start <= f.events[m].start
  BY <1>1, StartsUp
<1>4. CASE i = 1
  <2>1. Passed(f, i) = -1
    BY <1>4 DEF Passed
  <2>2. k = 1 \/ k - 1 \in 1..l
    BY <1>1
  <2>3. Passed(f, k) \in Int /\ -1 <= Passed(f, k)
    BY <1>2, <2>2 DEF Passed
  <2>. QED
    BY <2>1, <2>3
<1>5. CASE i > 1
  <2>1. i - 1 \in 1..l /\ k - 1 \in 1..l /\ k # 1 /\ i # 1 /\ i - 1 <= k - 1
    BY <1>1, <1>5
  <2>. QED
    BY <1>2, <1>3, <2>1 DEF Passed
<1>. QED
  BY <1>4, <1>5

\* An event of the list starts where one of its positions says.
LEMMA StartAt ==
  ASSUME NEW s \in Seq(Event), NEW e, Occurrences(s, e) # 0
  PROVE  \E k \in 1..Len(s) : s[k].start = e.start
BY OccAt

\* A helper that may be moved is going.
LEMMA GoingHolds ==
  ASSUME NEW f, ContentInv(f), NEW i, NEW v, NEW c, MayGo(f, i, v, c),
         NEW x, x = Passed(f, i), NEW z, z = Passed(f, StartsAfter(f.events, v))
  PROVE  Going(f, v, c, x, z)
<1>1. f.events \in Seq(Event) /\ Ordered(f.events)
  BY DEF ContentInv, ForestInv, EventsOK, Shape, Typed
<1>2. PICK l \in Nat : l = Len(f.events) /\ i \in 1..(l + 1)
  BY <1>1 DEF MayGo
<1>3. v \in Int /\ v >= 0
  <2>1. \A t \in Timestamp : t \in Int /\ t >= 0
    BY EventFields DEF Timestamp
  <2>. QED
    BY <2>1 DEF MayGo
<1>4. \A k \in 1..l : f.events[k].start \in Int /\ f.events[k].start >= 0
  BY <1>1, <1>2, StartsUp
<1>5. \A j, k \in 1..l : j <= k => f.events[j].start <= f.events[k].start
  BY <1>1, <1>2, StartsUp
<1>6. /\ x \in Int /\ x >= -1
      /\ \A k \in 1..l : f.events[k].start <= x <=> k < i
  <2>1. i > 1 /\ i <= Len(f.events) => f.events[i].start # f.events[i - 1].start
    BY DEF MayGo
  <2>2. i \in 1..(Len(f.events) + 1)
    BY <1>2
  <2>. QED
    BY <1>1, <1>2, <2>1, <2>2, PassedIs
<1>7. x < v
  <2>1. CASE i = 1
    <3>1. x = -1
      BY <2>1 DEF Passed
    <3>. QED
      BY <1>3, <3>1
  <2>2. CASE i # 1
    <3>1. i > 1 /\ x = f.events[i - 1].start
      BY <1>2, <2>2 DEF Passed
    <3>2. v > f.events[i - 1].start
      BY <3>1 DEF MayGo
    <3>. QED
      BY <1>3, <1>6, <3>1, <3>2
  <2>. QED
    BY <2>1, <2>2
<1>8. PICK n \in 1..(l + 1) :
        /\ n = StartsAfter(f.events, v)
        /\ \A k \in 1..(n - 1) : f.events[k].start <= v
        /\ n <= l => ~(f.events[n].start <= v)
  BY <1>1, <1>2, <1>3, StartsCut
<1>9. ASSUME NEW k \in 1..l PROVE f.events[k].start <= v <=> k < n
  <2>1. PICK y \in Int : y = f.events[k].start
    BY <1>4
  <2>2. ASSUME k < n PROVE y <= v
    <3>1. k \in 1..(n - 1)
      BY <2>2
    <3>. QED
      BY <1>8, <2>1, <3>1
  <2>3. ASSUME n <= k PROVE ~(y <= v)
    <3>1. n \in 1..l /\ n <= l
      BY <2>3
    <3>2. PICK w \in Int : w = f.events[n].start
      BY <1>4, <3>1
    <3>3. w <= y /\ ~(w <= v)
      BY <1>5, <1>8, <2>1, <2>3, <3>1, <3>2
    <3>. QED
      BY <1>3, <3>3
  <2>. QED
    BY <2>1, <2>2, <2>3
<1>10. i <= n
  <2>1. CASE i > n
    <3>1. n \in 1..l /\ n < i
      BY <1>2, <2>1
    <3>2. PICK w \in Int : w = f.events[n].start
      BY <1>4, <3>1
    <3>3. w <= x /\ ~(w <= v)
      BY <1>6, <1>9, <3>1, <3>2
    <3>. QED
      BY <1>3, <1>6, <1>7, <3>2, <3>3
  <2>. QED
    BY <1>2, <2>1
<1>11. z \in Int /\ x <= z
  <2>1. i \in 1..(Len(f.events) + 1) /\ n \in 1..(Len(f.events) + 1)
    BY <1>2
  <2>. QED
    BY <1>1, <1>8, <1>10, <2>1, PassedMore
<1>12. ASSUME NEW k \in 1..l, f.events[k].start <= v PROVE f.events[k].start <= z
  <2>1. k < n
    BY <1>9, <1>12
  <2>2. n - 1 \in 1..l /\ n # 1 /\ k <= n - 1
    BY <2>1
  <2>3. z = f.events[n - 1].start
    BY <1>8, <2>2 DEF Passed
  <2>. QED
    BY <1>5, <2>2, <2>3
<1>13. ASSUME NEW k \in 1..l PROVE f.events[k].start <= x <=> f.events[k].start < c
  <2>1. PICK y \in Int : y = f.events[k].start /\ y >= 0
    BY <1>4
  <2>2. CASE c = -1 /\ i = 1
    <3>1. ~(y < -1) /\ ~(k < i) /\ c = -1
      BY <2>1, <2>2
    <3>2. ~(y <= x)
      BY <1>6, <2>1, <3>1
    <3>3. ~(y < c)
      BY <3>1
    <3>. QED
      BY <2>1, <3>2, <3>3
  <2>3. CASE i <= Len(f.events) /\ c = f.events[i].start
    <3>1. i \in 1..l
      BY <1>2, <2>3
    <3>2. PICK w \in Int : w = f.events[i].start /\ w = c
      BY <1>4, <2>3, <3>1
    <3>3. ~(w <= x)
      <4>1. f.events[i].start <= x <=> i < i
        BY <1>6, <3>1
      <4>2. ~(i < i)
        BY <3>1
      <4>. QED
        BY <3>2, <4>1, <4>2
    <3>4. y <= x <=> k < i
      BY <1>6, <2>1
    <3>5. i <= k => w <= y
      BY <1>5, <2>1, <3>1, <3>2
    <3>6. y <= x <=> y < w
      BY <1>2, <1>6, <2>1, <3>3, <3>4, <3>5
    <3>. QED
      BY <2>1, <3>2, <3>6
  <2>. QED
    BY <2>2, <2>3 DEF MayGo
<1>14. ASSUME NEW e \in Event, Occurrences(f.events, e) # 0
       PROVE  (e.start <= x <=> e.start < c) /\ (e.start <= v => e.start <= z)
  <2>1. PICK k \in 1..l : f.events[k].start = e.start
    BY <1>1, <1>2, <1>14, StartAt
  <2>. QED
    BY <1>12, <1>13, <2>1
<1>15. ASSUME NEW p \in Pointers(f), Node(f, p).nkey <= v PROVE Node(f, p).nkey <= z + 1
  <2>1. PICK k \in 1..l : Node(f, p).nkey \in {f.events[k].start, f.events[k].start + 1}
    BY <1>2, NavKeyAfter
  <2>2. PICK y \in Int, w \in Int : y = f.events[k].start /\ w = Node(f, p).nkey /\ w \in {y, y + 1}
    BY <1>4, <2>1
  <2>3. y <= v
    BY <1>3, <1>15, <2>2
  <2>4. y <= z
    BY <1>12, <2>2, <2>3
  <2>. QED
    BY <1>11, <2>2, <2>4
<1>16. c \in Int
  <2>1. CASE c = -1
    BY <2>1
  <2>2. CASE i <= Len(f.events) /\ c = f.events[i].start
    <3>1. i \in 1..l
      BY <1>2, <2>2
    <3>. QED
      BY <1>4, <2>2, <3>1
  <2>. QED
    BY <2>1, <2>2 DEF MayGo
<1>. QED
  BY <1>3, <1>6, <1>7, <1>11, <1>14, <1>15, <1>16 DEF Going

---------------------------------------------------------------------------------
(* The forest-points from one on. *)

\* One step along right_ptr, when w has the rest.
ChainStep(f, w, p) == IF p = Null THEN <<>> ELSE <<p>> \o w[Node(f, p).right]
IsChain(f, w) == w = [p \in Pointers(f) \cup {Null} |-> ChainStep(f, w, p)]

\* The chain is the function that makes these steps.
LEMMA ChainChoice ==
  ASSUME NEW f, NEW p
  PROVE  RightChain(f, p) = (CHOOSE w : IsChain(f, w))[p]
BY DEF RightChain, IsChain, ChainStep

\* A right pointer leads to a pointer with less left.
LEMMA RightLevel ==
  ASSUME NEW f, Shape(f), Linked(f), NEW p \in Pointers(f)
  PROVE  /\ p # Null /\ Node(f, p).right \in Pointers(f) \cup {Null}
         /\ Level(f, p) \in Nat /\ Level(f, Node(f, p).right) \in Nat
         /\ Level(f, Node(f, p).right) < Level(f, p)
<1>1. p # Null
  BY PointerFacts DEF Pointers
<1>2. PICK c \in {Node(f, p).left, Node(f, p).right} : c = Node(f, p).right
  OBVIOUS
<1>3. Node(f, p).height \in Nat
  BY HeightBound
<1>4. CASE c = Null
  BY <1>1, <1>2, <1>3, <1>4 DEF Level
<1>5. CASE c # Null
  <2>1. c \in Pointers(f) /\ Node(f, c).height \in Nat /\ Node(f, c).height < Node(f, p).height
    BY <1>2, <1>5, Leads
  <2>. QED
    BY <1>1, <1>2, <1>3, <1>5, <2>1 DEF Level
<1>. QED
  BY <1>4, <1>5

\* There are such chains.
LEMMA ChainsExist ==
  ASSUME NEW f, Shape(f), Linked(f)
  PROVE  \E w : IsChain(f, w)
<1>. DEFINE P == Pointers(f) \cup {Null}
            On(w) == w = [p \in P |-> w[p]]
            Up(k, w) == \A p \in P : Level(f, p) < k => w[p] = ChainStep(f, w, p)
            S == {k \in Nat : \E w : On(w) /\ Up(k, w)}
<1>0. \A p \in P : Level(f, p) \in Nat
  <2>1. Level(f, Null) = 0
    BY DEF Level
  <2>. QED
    BY <2>1, RightLevel
<1>1. 0 \in S
  <2>. DEFINE w == [p \in P |-> <<>>]
  <2>1. On(w) /\ Up(0, w)
    BY <1>0
  <2>. HIDE DEF w, On, Up
  <2>. QED
    BY <2>1
<1>2. ASSUME NEW k \in S PROVE k + 1 \in S
  <2>1. k \in Nat
    OBVIOUS
  <2>2. PICK w : On(w) /\ Up(k, w)
    OBVIOUS
  <2>. DEFINE u == [p \in P |-> ChainStep(f, w, p)]
  <2>3. On(u) /\ \A p \in P : u[p] = ChainStep(f, w, p)
    OBVIOUS
  <2>. HIDE DEF u
  <2>4. ASSUME NEW p \in P, Level(f, p) < k + 1 PROVE u[p] = ChainStep(f, u, p)
    <3>1. CASE p = Null
      BY <2>3, <3>1 DEF ChainStep
    <3>2. CASE p # Null
      <4>1. PICK c \in P : c = Node(f, p).right /\ Level(f, c) < Level(f, p)
        BY <3>2, RightLevel
      <4>2. Level(f, c) < k
        <5>1. Level(f, c) \in Nat /\ Level(f, p) \in Nat
          BY <1>0
        <5>. QED
          BY <2>1, <2>4, <4>1, <5>1
      <4>3. w[c] = u[c]
        BY <2>2, <2>3, <4>2
      <4>. QED
        BY <2>3, <3>2, <4>1, <4>3 DEF ChainStep
    <3>. QED
      BY <3>1, <3>2
  <2>5. Up(k + 1, u) /\ k + 1 \in Nat
    BY <2>1, <2>4
  <2>. HIDE DEF On, Up
  <2>. QED
    BY <2>3, <2>5
<1>3. S = Nat
  <2>1. S \in SUBSET Nat
    OBVIOUS
  <2>. HIDE DEF S
  <2>. QED
    BY <1>1, <1>2, <2>1, NatAll
<1>4. PICK n \in Nat : n = Len(f.nodes)
  BY UnderNat
<1>5. n + 2 \in S
  <2>. HIDE DEF S
  <2>. QED
    BY <1>3
<1>6. PICK w : On(w) /\ Up(n + 2, w)
  BY <1>5
<1>7. ASSUME NEW p \in P PROVE w[p] = ChainStep(f, w, p)
  <2>1. Level(f, p) < n + 2
    <3>1. CASE p = Null
      BY <3>1 DEF Level
    <3>2. CASE p # Null
      <4>1. Node(f, p).height \in Nat /\ Node(f, p).height <= n
        BY <1>4, <3>2, HeightBound
      <4>. QED
        BY <3>2, <4>1 DEF Level
    <3>. QED
      BY <3>1, <3>2
  <2>. QED
    BY <1>6, <2>1
<1>. QED
  BY <1>6, <1>7 DEF IsChain

\* The forest-points from the k-th on, m in all.
PointsFrom(s, k, m) ==
  /\ s \in Seq(Pointer) /\ Len(s) = m - k + 1
  /\ \A j \in 1..(m - k + 1) : s[j] = Point(k + j - 1)

\* One more in front.
LEMMA PointsOneMore ==
  ASSUME NEW m \in Nat, NEW k \in Nat, 1 <= k, k < m, NEW s, PointsFrom(s, k + 1, m),
         NEW t, t = <<Point(k)>> \o s
  PROVE  PointsFrom(t, k, m)
<1>1. s \in Seq(Pointer) /\ Len(s) = m - k
  BY DEF PointsFrom
<1>2. PICK q \in Pointer : q = Point(k)
  BY PointerFacts
<1>3. /\ t \in Seq(Pointer) /\ Len(t) = (m - k) + 1
      /\ t[1] = Point(k) /\ \A i \in 1..(m - k) : t[i + 1] = s[i]
  <2>1. t = <<q>> \o s
    BY <1>2
  <2>2. t \in Seq(Pointer) /\ Len(t) = Len(s) + 1 /\ t[1] = q /\ \A i \in 1..Len(s) : t[i + 1] = s[i]
    BY <1>1, <2>1, ConsFacts
  <2>. QED
    BY <1>1, <1>2, <2>2
<1>4. ASSUME NEW j \in 1..(m - k + 1) PROVE t[j] = Point(k + j - 1)
  <2>1. CASE j = 1
    <3>1. k + j - 1 = k
      BY <2>1
    <3>. QED
      BY <1>3, <2>1, <3>1
  <2>2. CASE j # 1
    <3>1. j - 1 \in 1..(m - k) /\ (j - 1) + 1 = j
      BY <2>2
    <3>2. j - 1 \in 1..(m - (k + 1) + 1) /\ k + 1 + (j - 1) - 1 = k + j - 1
      BY <3>1
    <3>3. s[j - 1] = Point(k + 1 + (j - 1) - 1)
      BY <3>2 DEF PointsFrom
    <3>. QED
      BY <1>3, <3>1, <3>2, <3>3
  <2>. QED
    BY <2>1, <2>2
<1>. QED
  BY <1>3, <1>4 DEF PointsFrom

\* The chain from a forest-point is the forest-points from it on.
LEMMA ChainPoints ==
  ASSUME NEW f, Shape(f), Linked(f), NEW m \in Nat, m = Len(f.index), NEW k \in 1..m
  PROVE  PointsFrom(RightChain(f, Point(k)), k, m)
<1>1. PICK w : w = CHOOSE u : IsChain(f, u)
  OBVIOUS
<1>2. IsChain(f, w)
  BY <1>1, ChainsExist
<1>3. \A p : RightChain(f, p) = w[p]
  BY <1>1, ChainChoice
<1>4. ASSUME NEW i \in 1..m
      PROVE  /\ w[Point(i)] = <<Point(i)>> \o w[f.index[i].right]
             /\ i = m => f.index[i].right = Null
             /\ i < m => f.index[i].right = Point(i + 1)
  <2>1. Point(i) \in Pointers(f) /\ Node(f, Point(i)) = f.index[i] /\ Point(i) # Null
    BY PointerFacts DEF Pointers, Node, Point
  <2>2. w[Point(i)] = ChainStep(f, w, Point(i))
    BY <1>2, <2>1 DEF IsChain
  <2>3. i = m => f.index[i].right = Null
    BY DEF Shape, Descending
  <2>4. i < m => f.index[i].right = Point(i + 1)
    BY DEF Linked
  <2>. QED
    BY <2>1, <2>2, <2>3, <2>4 DEF ChainStep
<1>5. w[Null] = <<>>
  BY <1>2 DEF IsChain, ChainStep
<1>. DEFINE S == {n \in Nat : n < m => PointsFrom(w[Point(m - n)], m - n, m)}
<1>6. 0 \in S
  <2>1. ASSUME 0 < m PROVE PointsFrom(w[Point(m - 0)], m - 0, m)
    <3>1. m - 0 = m /\ m \in 1..m
      BY <2>1
    <3>2. w[Point(m)] = <<Point(m)>> \o <<>>
      BY <1>4, <1>5, <3>1
    <3>3. PICK q \in Pointer : q = Point(m)
      BY PointerFacts
    <3>4. <<q>> \in Seq(Pointer) /\ Len(<<q>>) = 1 /\ <<q>>[1] = q /\ <<q>> \o <<>> = <<q>>
      OBVIOUS
    <3>5. w[Point(m)] = <<q>>
      BY <3>2, <3>3, <3>4
    <3>6. m - m + 1 = 1 /\ \A j \in 1..1 : j = 1 /\ m + j - 1 = m
      OBVIOUS
    <3>7. PointsFrom(<<q>>, m, m)
      BY <3>3, <3>4, <3>6 DEF PointsFrom
    <3>. QED
      BY <3>1, <3>5, <3>7
  <2>. QED
    BY <2>1
<1>7. ASSUME NEW n \in S PROVE n + 1 \in S
  <2>1. n \in Nat /\ (n < m => PointsFrom(w[Point(m - n)], m - n, m))
    OBVIOUS
  <2>2. ASSUME n + 1 < m PROVE PointsFrom(w[Point(m - (n + 1))], m - (n + 1), m)
    <3>1. PICK i \in 1..m, k2 \in 1..m : i = m - (n + 1) /\ i < m /\ k2 = i + 1 /\ k2 = m - n /\ n < m
      <4>1. m - (n + 1) \in 1..m /\ m - n \in 1..m /\ m - n = (m - (n + 1)) + 1 /\ n < m /\ m - (n + 1) < m
        BY <2>1, <2>2
      <4>. QED
        BY <4>1
    <3>2. w[Point(i)] = <<Point(i)>> \o w[Point(i + 1)]
      BY <1>4, <3>1
    <3>3. PointsFrom(w[Point(i + 1)], i + 1, m)
      <4>1. PointsFrom(w[Point(k2)], k2, m)
        BY <2>1, <3>1
      <4>. QED
        BY <3>1, <4>1
    <3>4. PointsFrom(w[Point(i)], i, m)
      <4>1. i \in Nat /\ 1 <= i
        OBVIOUS
      <4>. QED
        BY <3>1, <3>2, <3>3, <4>1, PointsOneMore
    <3>. QED
      BY <3>1, <3>4
  <2>3. n + 1 \in Nat
    BY <2>1
  <2>. QED
    BY <2>2, <2>3
<1>8. S = Nat
  <2>1. S \in SUBSET Nat
    OBVIOUS
  <2>. HIDE DEF S
  <2>. QED
    BY <1>6, <1>7, <2>1, NatAll
<1>9. m - k \in S
  <2>1. m - k \in Nat
    OBVIOUS
  <2>. HIDE DEF S
  <2>. QED
    BY <1>8, <2>1
<1>10. m - k < m /\ m - (m - k) = k
  OBVIOUS
<1>. QED
  BY <1>3, <1>9, <1>10

---------------------------------------------------------------------------------
(* A stab behind the trees. *)

\* A forest-point in front of a tree whose earlier starts have all been passed has nothing
\* more to give.
LEMMA PointPassed ==
  ASSUME NEW f, ContentInv(f), NEW v, NEW c, NEW x, NEW z, Going(f, v, c, x, z),
         NEW k \in 1..Len(f.index), FirstKey(f, k) <= x + 1, NEW i \in 1..Len(f.index), i < k
  PROVE  Forwards(<<>>, RightCopy(f.index[i], v), c)
<1>1. Shape(f) /\ f.events \in Seq(Event)
  BY DEF ContentInv, ForestInv, Shape, Typed
<1>2. v \in Int /\ c \in Int /\ x \in Int
  BY DEF Going
<1>3. PICK p, n : p \in Pointers(f) /\ p = Point(i) /\ n = Node(f, p) /\ n = f.index[i]
  <2>1. Point(i) \in Pointers(f) /\ Node(f, Point(i)) = f.index[i]
    BY DEF Pointers, Node, Point
  <2>. QED
    BY <2>1
<1>4. ListsFit(f, n)
  BY <1>3, NodeFits
<1>5. PICK d \in Int, y \in Int : d = n.dkey /\ y = n.nkey /\ y <= d
  BY <1>4 DEF ListsFit
<1>6. d < FirstKey(f, k)
  <2>1. PICK a \in 1..Len(f.nodes) : a = f.index[i].replacement /\ f.index[i].dkey = f.nodes[a].dkey
    BY <1>1 DEF Shape, PointOK
  <2>2. PICK b \in 1..Len(f.nodes) : b = Under(f, k - 1) + 1
    BY <1>1, UnderNext
  <2>3. a < b
    <3>1. Under(f, k - 1) = f.index[k - 1].replacement /\ k - 1 \in 1..Len(f.index) /\ i <= k - 1
      BY <1>1, UnderNat DEF Under
    <3>2. i < k - 1 => f.index[i].replacement < f.index[k - 1].replacement
      BY <1>1, <3>1 DEF Shape, Counted
    <3>3. PICK e \in Int : e = Under(f, k - 1) /\ b = e + 1
      <4>1. Under(f, k - 1) \in 0..Len(f.nodes)
        BY <1>1, <3>1, UnderNat
      <4>. QED
        BY <2>2, <4>1
    <3>4. i = k - 1 => a = e
      BY <2>1, <3>1, <3>3
    <3>5. i < k - 1 => a < e
      BY <2>1, <3>1, <3>2, <3>3
    <3>. QED
      BY <3>1, <3>3, <3>4, <3>5
  <2>4. f.nodes[a].dkey < f.nodes[b].nkey
    BY <1>1, <2>3, KeysUp
  <2>. QED
    BY <1>3, <1>5, <2>1, <2>2, <2>4 DEF FirstKey
<1>7. d < c
  <2>1. PICK j \in 1..Len(f.events) : f.events[j].start = d
    BY <1>3, <1>5, DataKeyTaken
  <2>2. PICK e \in Event : e = f.events[j]
    BY <1>1
  <2>3. Occurrences(f.events, e) # 0
    <3>1. Len(f.events) \in Nat
      BY <1>1
    <3>. QED
      BY <2>2, <3>1, OccNat
  <2>4. e.start <= x <=> e.start < c
    BY <2>3 DEF Going
  <2>5. PICK y2 \in Int : y2 = FirstKey(f, k)
    BY <1>1, FirstKeyNode
  <2>6. d <= x
    BY <1>2, <1>6, <2>5
  <2>. QED
    BY <2>1, <2>2, <2>4, <2>6
<1>8. Forwards(<<>>, CopyEndDec(n.ded, v, 0), c)
  <2>1. n.ded \in Seq(Event)
    BY <1>4 DEF ListsFit
  <2>2. ASSUME NEW j \in 1..Len(n.ded) PROVE n.ded[j].start <= c
    <3>1. n.ded[j].start = d
      BY <1>4, <1>5 DEF ListsFit
    <3>. QED
      BY <1>2, <1>5, <1>7, <3>1
  <2>. QED
    BY <1>2, <2>1, <2>2, CopyEndNone
<1>9. Forwards(<<>>, CopyEndDec(n.ned, v, 0), c)
  <2>1. n.ned \in Seq(Event)
    BY <1>4 DEF ListsFit
  <2>2. ASSUME NEW j \in 1..Len(n.ned) PROVE n.ned[j].start <= c
    <3>1. n.ned[j].start < y
      BY <1>4, <1>5 DEF ListsFit
    <3>2. n.ned[j] \in Event
      BY <2>1
    <3>3. n.ned[j].start \in Int
      BY <3>2, EventTimes
    <3>. QED
      BY <1>2, <1>5, <1>7, <3>1, <3>3
  <2>. QED
    BY <1>2, <2>1, <2>2, CopyEndNone
<1>10. Forwards(<<>> \o <<>>, RightCopy(n, v), c)
  BY <1>8, <1>9, ForwardsBoth DEF RightCopy
<1>11. <<>> \o <<>> = <<>>
  OBVIOUS
<1>. QED
  BY <1>3, <1>10, <1>11

\* The helper g with n forest-points behind it, of which a search copies what G joins.
Behind(f, c, z, G, g, n) ==
  /\ g \in Helpers(f)
  /\ IF n = 0 THEN g.out = <<>> ELSE Forwards(g.out, G[n], c)
  /\ \A a \in Heights(f) : Remembers(f, g.visited[a], g.startAt[a], z)

\* One more.
LEMMA BehindOn ==
  ASSUME NEW f, NEW c, NEW z, NEW G, NEW g, NEW n \in Nat, Behind(f, c, z, G, g, n),
         NEW r, G[n + 1] = IF n = 0 THEN r ELSE G[n] \o r,
         NEW t, Forwards(t, r, c),
         NEW g2 \in Helpers(f), g2.out = g.out \o t,
         \A a \in Heights(f) : Remembers(f, g2.visited[a], g2.startAt[a], z)
  PROVE  Behind(f, c, z, G, g2, n + 1)
<1>1. n + 1 # 0
  OBVIOUS
<1>2. Forwards(g2.out, G[n + 1], c)
  <2>1. CASE n = 0
    <3>1. t \in Seq(Event)
      BY DEF Forwards
    <3>2. <<>> \o t = t
      BY <3>1
    <3>3. g2.out = t
      BY <2>1, <3>2 DEF Behind
    <3>. QED
      BY <2>1, <3>3
  <2>2. CASE n # 0
    <3>1. Forwards(g.out, G[n], c)
      BY <2>2 DEF Behind
    <3>2. Forwards(g.out \o t, G[n] \o r, c)
      BY <3>1, ForwardsBoth
    <3>. QED
      BY <2>2, <3>2
  <2>. QED
    BY <2>1, <2>2
<1>. QED
  BY <1>1, <1>2 DEF Behind

\* What right_child does at the next forest-point.
LEMMA BehindPoint ==
  ASSUME NEW f, ContentInv(f), NEW v, NEW c, NEW x, NEW z, Going(f, v, c, x, z),
         NEW G, NEW g, NEW n \in Nat, n + 1 \in 1..Len(f.index), Behind(f, c, z, G, g, n),
         NEW r, r = RightCopy(f.index[n + 1], v), G[n + 1] = IF n = 0 THEN r ELSE G[n] \o r,
         f.nodes[Len(f.nodes)].dkey < v,
         NEW g2, g2 = RightChild(f, g, Point(n + 1), v, c)
  PROVE  Behind(f, c, z, G, g2, n + 1)
<1>1. Shape(f) /\ v \in Int
  BY DEF ContentInv, ForestInv, Going
<1>2. PICK p : p \in Pointers(f) /\ p = Point(n + 1) /\ Node(f, p) = f.index[n + 1]
  <2>1. Point(n + 1) \in Pointers(f) /\ Node(f, Point(n + 1)) = f.index[n + 1]
    BY DEF Pointers, Node, Point
  <2>. QED
    BY <2>1
<1>3. Node(f, p).nkey <= v
  <2>1. PICK a \in 1..Len(f.nodes) : Node(f, p).nkey = f.nodes[a].nkey
    BY <1>1, <1>2 DEF Shape, PointOK
  <2>2. PICK l \in Nat : l = Len(f.nodes) /\ l \in 1..l /\ a <= l
    <3>1. Len(f.nodes) \in Nat
      BY <1>1, UnderNat
    <3>. QED
      BY <2>1, <3>1
  <2>3. f.nodes[a].nkey \in Int /\ f.nodes[l].dkey \in Int /\ f.nodes[a].nkey <= f.nodes[l].dkey
    BY <1>1, <2>2, KeysReach
  <2>. QED
    BY <1>1, <2>1, <2>2, <2>3
<1>4. g \in Helpers(f)
  BY DEF Behind
<1>5. g2 = RightChild(f, g, p, v, c)
  BY <1>2
<1>6. PICK t : Took(f, g, g2, p, t, z) /\ Forwards(t, r, c)
  <2>1. \E t : Took(f, g, RightChild(f, g, p, v, c), p, t, z) /\ Forwards(t, RightCopy(Node(f, p), v), c)
    BY <1>1, <1>2, <1>3, <1>4, RightTakes
  <2>. QED
    BY <1>2, <1>5, <2>1
<1>7. g2 \in Helpers(f) /\ g2.out = g.out \o t
  BY <1>6 DEF Took
<1>8. ASSUME NEW a \in Heights(f) PROVE Remembers(f, g2.visited[a], g2.startAt[a], z)
  <2>1. CASE a = Node(f, p).height
    BY <1>6, <2>1 DEF Took
  <2>2. CASE a # Node(f, p).height
    <3>1. g2.visited[a] = g.visited[a] /\ g2.startAt[a] = g.startAt[a]
      BY <1>6, <2>2 DEF Took
    <3>. QED
      BY <3>1 DEF Behind
  <2>. QED
    BY <2>1, <2>2
<1>. QED
  BY <1>6, <1>7, <1>8, BehindOn

\* right_child of the forest-points from the k-th on stands for what a search copies of all.
LEMMA IndexMoves ==
  ASSUME NEW f, ContentInv(f), NEW v, NEW c, NEW x, NEW z, Going(f, v, c, x, z),
         NEW m \in Nat, m = Len(f.index), NEW k \in 1..m, k = 1 \/ FirstKey(f, k) <= x + 1,
         f.nodes[Len(f.nodes)].dkey < v, NEW h, Knows(f, h, x), h.out = <<>>,
         NEW g, g = PassTrees(f, h, Point(k), v, c)
  PROVE  /\ g \in Helpers(f) /\ Forwards(g.out, FlattenSeq(RightCopies(f, v)), c)
         /\ \A a \in Heights(f) : Remembers(f, g.visited[a], g.startAt[a], z)
         /\ HasPolicy(g, h.policy)
<1>1. Shape(f) /\ Linked(f) /\ f.index \in Seq(PointRecord)
  BY DEF ContentInv, ForestInv, Shape, Typed
<1>2. x \in Int /\ z \in Int /\ x <= z
  BY DEF Going
<1>3. PICK s : s = RightChain(f, Point(k)) /\ PointsFrom(s, k, m)
  BY <1>1, ChainPoints
<1>4. PICK n \in Nat : n = Len(s) /\ n = m - k + 1
  <2>1. Len(s) = m - k + 1
    BY <1>3 DEF PointsFrom
  <2>2. m - k + 1 \in Nat
    OBVIOUS
  <2>. QED
    BY <2>1, <2>2
<1>5. PICK w : /\ w[0] = h /\ g = w[n]
               /\ \A j \in 1..n : w[j] = RightChild(f, w[j - 1], s[j], v, c)
  <2>1. s = RightChain(f, Point(k)) /\ n = Len(s)
    BY <1>3, <1>4
  <2>2. PICK w : Passing(f, h, k, s, n, v, c, w)
    BY <2>1, PassingSteps
  <2>. QED
    BY <2>2 DEF Passing
<1>6. PICK b : b = RightCopies(f, v) /\ Len(b) = m /\ \A i \in 1..m : b[i] = RightCopy(f.index[i], v)
  <2>1. DOMAIN f.index = 1..m
    BY <1>1
  <2>2. RightCopies(f, v) = [i \in 1..m |-> RightCopy(f.index[i], v)]
    BY <2>1 DEF RightCopies
  <2>. QED
    BY <2>2
<1>7. PICK G : FlatBy(b, m, G)
  BY <1>6, FlatSteps
<1>8. ASSUME NEW i \in Nat, i < m
      PROVE  i + 1 \in 1..m /\ G[i + 1] = IF i = 0 THEN RightCopy(f.index[i + 1], v)
                                          ELSE G[i] \o RightCopy(f.index[i + 1], v)
  <2>1. i + 1 \in 1..m
    BY <1>8
  <2>2. CASE i = 0
    BY <1>6, <1>7, <2>1, <2>2 DEF FlatBy
  <2>3. CASE i # 0
    <3>1. i \in 1..m /\ i + 1 <= m
      BY <1>8, <2>3
    <3>. QED
      BY <1>6, <1>7, <2>1, <2>3, <3>1 DEF FlatBy
  <2>. QED
    BY <2>1, <2>2, <2>3
<1>9. h \in Helpers(f) /\ \A a \in Heights(f) : Remembers(f, h.visited[a], h.startAt[a], z)
  BY <1>2, RemembersMore DEF Knows
<1>. DEFINE u(i) == IF i < k THEN h ELSE w[i - k + 1]
            S == {i \in Nat : i <= m => Behind(f, c, z, G, u(i), i)}
<1>10. 0 \in S
  <2>1. u(0) = h
    OBVIOUS
  <2>2. Behind(f, c, z, G, h, 0)
    BY <1>9 DEF Behind
  <2>. QED
    BY <2>1, <2>2
<1>11. ASSUME NEW i \in S PROVE i + 1 \in S
  <2>1. i \in Nat /\ i + 1 \in Nat /\ (i <= m => Behind(f, c, z, G, u(i), i))
    OBVIOUS
  <2>2. ASSUME i + 1 <= m PROVE Behind(f, c, z, G, u(i + 1), i + 1)
    <3>1. i < m /\ i <= m
      BY <2>1, <2>2
    <3>2. /\ i + 1 \in 1..m
          /\ G[i + 1] = IF i = 0 THEN RightCopy(f.index[i + 1], v)
                        ELSE G[i] \o RightCopy(f.index[i + 1], v)
      BY <1>8, <2>1, <3>1
    <3>3. Behind(f, c, z, G, u(i), i)
      BY <2>1, <3>1
    <3>4. CASE i + 1 < k
      <4>1. u(i + 1) = h /\ u(i) = h
        BY <2>1, <3>4
      <4>2. FirstKey(f, k) <= x + 1
        BY <3>2, <3>4
      <4>3. Forwards(<<>>, RightCopy(f.index[i + 1], v), c)
        BY <3>2, <3>4, <4>2, PointPassed
      <4>4. h.out = h.out \o <<>>
        OBVIOUS
      <4>5. Behind(f, c, z, G, h, i)
        BY <3>3, <4>1
      <4>6. Behind(f, c, z, G, h, i + 1)
        BY <1>9, <2>1, <3>2, <4>3, <4>4, <4>5, BehindOn
      <4>. QED
        BY <4>1, <4>6
    <3>5. CASE k <= i + 1
      <4>1. PICK j \in 1..n : j = (i + 1) - k + 1 /\ k + j - 1 = i + 1 /\ j \in 1..(m - k + 1)
        <5>1. (i + 1) - k + 1 \in 1..n
          BY <1>4, <2>1, <2>2, <3>5
        <5>. QED
          BY <1>4, <5>1
      <4>2. u(i + 1) = w[j]
        BY <2>1, <3>5, <4>1
      <4>3. u(i) = w[j - 1]
        <5>1. CASE i < k
          <6>1. j - 1 = 0
            BY <2>1, <3>5, <4>1, <5>1
          <6>. QED
            BY <1>5, <5>1, <6>1
        <5>2. CASE ~(i < k)
          <6>1. j - 1 = i - k + 1
            BY <2>1, <4>1
          <6>. QED
            BY <5>2, <6>1
        <5>. QED
          BY <5>1, <5>2
      <4>4. s[j] = Point(i + 1)
        <5>1. s[j] = Point(k + j - 1)
          BY <1>3, <4>1 DEF PointsFrom
        <5>. QED
          BY <4>1, <5>1
      <4>5. w[j] = RightChild(f, w[j - 1], Point(i + 1), v, c)
        BY <1>5, <4>4
      <4>6. Behind(f, c, z, G, w[j - 1], i)
        BY <3>3, <4>3
      <4>7. Behind(f, c, z, G, w[j], i + 1)
        BY <2>1, <3>2, <4>5, <4>6, BehindPoint
      <4>. QED
        BY <4>2, <4>7
    <3>. QED
      BY <2>1, <3>4, <3>5
  <2>. QED
    BY <2>1, <2>2
<1>12. S = Nat
  <2>1. S \in SUBSET Nat
    OBVIOUS
  <2>. HIDE DEF S
  <2>. QED
    BY <1>10, <1>11, <2>1, NatAll
<1>13. m \in S
  <2>. HIDE DEF S
  <2>. QED
    BY <1>12
<1>14. Behind(f, c, z, G, g, m)
  <2>1. Behind(f, c, z, G, u(m), m)
    BY <1>13
  <2>2. ~(m < k) /\ m - k + 1 = n
    BY <1>4
  <2>3. u(m) = w[n]
    BY <2>2
  <2>. QED
    BY <1>5, <2>1, <2>3
<1>15. m # 0 /\ G[m] = FlattenSeq(RightCopies(f, v))
  BY <1>6, <1>7 DEF FlatBy
<1>16. HasPolicy(g, h.policy)
  <2>1. HasPolicy(w[0], h.policy)
    BY <1>5, <1>9 DEF Helpers, HasPolicy
  <2>2. ASSUME NEW i \in 1..n, HasPolicy(w[i - 1], h.policy) PROVE HasPolicy(w[i], h.policy)
    <3>1. w[i] = RightChild(f, w[i - 1], s[i], v, c)
      BY <1>5
    <3>. QED
      BY <2>2, <3>1, RightPolicy
  <2>. QED
    BY <1>5, <2>1, <2>2, LoopPolicy
<1>. QED
  BY <1>14, <1>15, <1>16 DEF Behind

\* The iterator moved and more written.
ItAt(h, i) == [h EXCEPT !.it = i]

\* Such a helper differs in these two fields only.
LEMMA EmitsAt ==
  ASSUME NEW f, NEW h \in Helpers(f), NEW i \in 1..(Len(f.events) + 1), NEW t \in Seq(Event),
         NEW g, g = Emit(ItAt(h, i), t)
  PROVE  /\ g \in Helpers(f) /\ g.it = i /\ g.out = h.out \o t /\ g.visited = h.visited
         /\ g.startAt = h.startAt /\ g.firstLeft = h.firstLeft /\ g.policy = h.policy
<1>1. PICK k : k = ItAt(h, i)
  OBVIOUS
<1>2. /\ k \in Helpers(f) /\ k.it = i /\ k.out = h.out /\ k.visited = h.visited
      /\ k.startAt = h.startAt /\ k.firstLeft = h.firstLeft /\ k.policy = h.policy
  BY <1>1 DEF Helpers, ItAt
<1>3. g = [k EXCEPT !.out = k.out \o t]
  BY <1>1 DEF Emit
<1>4. k.out \o t \in Seq(Event)
  BY <1>2 DEF Helpers
<1>5. /\ g \in Helpers(f) /\ g.it = k.it /\ g.out = k.out \o t /\ g.visited = k.visited
      /\ g.startAt = k.startAt /\ g.firstLeft = k.firstLeft /\ g.policy = k.policy
  BY <1>2, <1>3, <1>4 DEF Helpers
<1>. QED
  BY <1>2, <1>5

\* The tail, searched from c on.
LEMMA TailForwards ==
  ASSUME NEW f, ForestInv(f), NEW v \in Int, NEW c \in Int
  PROVE  /\ Forwards(SearchTail(f, v, c).out, SearchTail(f, v, 0).out, c)
         /\ SearchTail(f, v, c).next = SearchTail(f, v, 0).next
<1>1. CASE TailAfter(f, v)
  <2>1. <<>> \in Seq(Event) /\ \A i \in 1..Len(<<>>) : <<>>[i].start <= c
    OBVIOUS
  <2>2. Forwards(<<>>, <<>>, c)
    BY <2>1, ForwardsNone
  <2>. QED
    BY <1>1, <2>2 DEF SearchTail
<1>2. CASE ~TailAfter(f, v)
  <2>1. PICK r \in Seq(Event) : r = Reverse(EventTail(f))
    <3>1. EventTail(f) \in Seq(Event)
      BY WholeList
    <3>. QED
      BY <3>1, Backwards
  <2>2. Forwards(CopyEndDec(r, v, c), CopyEndDec(r, v, 0), c)
    BY CopyEndForwards
  <2>. QED
    BY <1>2, <2>1, <2>2 DEF SearchTail
<1>. QED
  BY <1>1, <1>2

\* Where stab_forward begins behind the trees, and what right_child of all forest-points left
\* makes of the helper, first_left_parent being the last one afterwards.
FirstTree(h) == IF h.firstLeft = Null THEN Point(1) ELSE h.firstLeft
TreesBehind(f, h, v, c) ==
  IF f.index = <<>> THEN h
  ELSE [PassTrees(f, h, FirstTree(h), v, c) EXCEPT !.firstLeft = BackPoint(f)]

\* All that a search would copy of the index from c on is written then.
LEMMA TreesPassed ==
  ASSUME NEW f, ContentInv(f), NEW v, NEW c, NEW x, NEW z, Going(f, v, c, x, z),
         ~BeforeTrees(f, v), ~InTrees(f, v), NEW h, Knows(f, h, x), h.out = <<>>,
         NEW g, g = TreesBehind(f, h, v, c)
  PROVE  /\ Knows(f, g, z) /\ Forwards(g.out, FlattenSeq(RightCopies(f, v)), c)
         /\ g.policy = h.policy
<1>1. Shape(f) /\ f.index \in Seq(PointRecord) /\ v \in Int /\ x \in Int /\ z \in Int /\ x <= z
  BY DEF ContentInv, ForestInv, Shape, Typed, Going
<1>2. CASE f.index = <<>>
  <2>1. RightCopies(f, v) = <<>>
    <3>1. DOMAIN f.index = {}
      BY <1>2
    <3>. QED
      BY <3>1 DEF RightCopies
  <2>2. FlattenSeq(<<>>) = <<>>
    <3>1. 0 = Len(<<>>)
      OBVIOUS
    <3>. QED
      BY <3>1, FlatSteps
  <2>3. FlattenSeq(RightCopies(f, v)) = <<>>
    BY <2>1, <2>2
  <2>4. Forwards(<<>>, <<>>, c)
    <3>1. <<>> \in Seq(Event) /\ \A i \in 1..Len(<<>>) : <<>>[i].start <= c
      OBVIOUS
    <3>2. c \in Int
      BY DEF Going
    <3>. QED
      BY <3>1, <3>2, ForwardsNone
  <2>5. Knows(f, h, z)
    <3>1. KnowsLeft(f, h.firstLeft, z)
      BY <1>1, KnowsMore DEF Knows
    <3>2. \A a \in Heights(f) : Remembers(f, h.visited[a], h.startAt[a], z)
      BY <1>1, RemembersMore DEF Knows
    <3>. QED
      BY <3>1, <3>2 DEF Knows
  <2>. QED
    BY <1>2, <2>3, <2>4, <2>5 DEF TreesBehind
<1>3. CASE f.index # <<>>
  <2>1. PICK m \in Nat : m = Len(f.index) /\ m > 0 /\ m \in 1..m /\ 1 \in 1..m
    BY <1>1, <1>3
  <2>2. f.nodes[Len(f.nodes)].dkey < v
    <3>1. Len(f.nodes) > 0 => f.nodes[Len(f.nodes)].dkey < v
      BY <1>1, IndexActive
    <3>2. Len(f.nodes) \in Nat /\ Len(f.nodes) # 0
      BY <1>1, <2>1, UnderNat
    <3>. QED
      BY <3>1, <3>2
  <2>3. PICK k \in 1..m : FirstTree(h) = Point(k) /\ (k = 1 \/ FirstKey(f, k) <= x + 1)
    <3>1. CASE h.firstLeft = Null
      BY <2>1, <3>1 DEF FirstTree
    <3>2. CASE h.firstLeft # Null
      <4>1. \E k \in 1..Len(f.index) : h.firstLeft = Point(k) /\ FirstKey(f, k) <= x + 1
        BY <3>2 DEF Knows, KnowsLeft
      <4>. QED
        BY <2>1, <3>2, <4>1 DEF FirstTree
    <3>. QED
      BY <3>1, <3>2
  <2>4. PICK t : t = PassTrees(f, h, Point(k), v, c)
    OBVIOUS
  <2>5. /\ t \in Helpers(f) /\ Forwards(t.out, FlattenSeq(RightCopies(f, v)), c)
        /\ \A a \in Heights(f) : Remembers(f, t.visited[a], t.startAt[a], z)
        /\ t.policy = h.policy
    BY <2>1, <2>2, <2>3, <2>4, IndexMoves DEF HasPolicy
  <2>6. g = [t EXCEPT !.firstLeft = Point(m)]
    BY <1>3, <2>1, <2>3, <2>4 DEF BackPoint, TreesBehind
  <2>7. Point(m) \in Pointer
    BY PointerFacts
  <2>8. /\ g \in Helpers(f) /\ g.out = t.out /\ g.visited = t.visited /\ g.startAt = t.startAt
        /\ g.firstLeft = Point(m) /\ g.policy = t.policy
    BY <2>5, <2>6, <2>7 DEF Helpers
  <2>9. KnowsLeft(f, Point(m), z)
    <3>1. FirstKey(f, m) <= v
      <4>1. PICK a \in 1..Len(f.nodes) : a = Under(f, m - 1) + 1
        BY <1>1, <2>1, UnderNext
      <4>2. PICK l \in Nat : l = Len(f.nodes) /\ l \in 1..l /\ a <= l
        <5>1. Len(f.nodes) \in Nat
          BY <1>1, UnderNat
        <5>. QED
          BY <4>1, <5>1
      <4>3. f.nodes[a].nkey \in Int /\ f.nodes[l].dkey \in Int /\ f.nodes[a].nkey <= f.nodes[l].dkey
        BY <1>1, <4>2, KeysReach
      <4>. QED
        BY <1>1, <2>2, <4>1, <4>2, <4>3 DEF FirstKey
    <3>. QED
      BY <1>1, <2>1, <3>1, KnowsReached
  <2>. QED
    BY <2>5, <2>8, <2>9 DEF Knows
<1>. QED
  BY <1>2, <1>3

\* A stab behind the trees.
LEMMA AfterMoves ==
  ASSUME NEW f, ContentInv(f), NEW v, NEW c, NEW x, NEW z, Going(f, v, c, x, z),
         ~BeforeTrees(f, v), ~InTrees(f, v), NEW h, Knows(f, h, x), h.out = <<>>
  PROVE  Moved(f, AfterTrees(f, h, v, c), v, c, z) /\ AfterTrees(f, h, v, c).policy = h.policy
<1>1. ForestInv(f) /\ v \in Int /\ c \in Int /\ f.events \in Seq(Event)
  BY DEF ContentInv, ForestInv, Shape, Typed, Going
<1>3. PICK g : g = TreesBehind(f, h, v, c)
  OBVIOUS
<1>4. /\ Knows(f, g, z) /\ Forwards(g.out, FlattenSeq(RightCopies(f, v)), c)
      /\ g.policy = h.policy
  BY <1>3, TreesPassed
<1>5. PICK i, t : i = SearchTail(f, v, c).next /\ t = SearchTail(f, v, c).out
  OBVIOUS
<1>6. Forwards(t, SearchTail(f, v, 0).out, c) /\ i = StartsAfter(f.events, v)
  BY <1>1, <1>5, TailForwards, TailActive
<1>7. i \in 1..(Len(f.events) + 1) /\ t \in Seq(Event)
  BY <1>1, <1>6, StartsCut DEF Forwards
<1>8. PICK a : a = AfterTrees(f, h, v, c)
  OBVIOUS
<1>9. a = Emit(ItAt(g, i), t)
  BY <1>3, <1>5, <1>8 DEF AfterTrees, TreesBehind, FirstTree, ItAt
<1>10. /\ a \in Helpers(f) /\ a.it = i /\ a.out = g.out \o t /\ a.visited = g.visited
       /\ a.startAt = g.startAt /\ a.firstLeft = g.firstLeft /\ a.policy = g.policy
  BY <1>4, <1>7, <1>9, EmitsAt DEF Knows
<1>11. Knows(f, a, z)
  BY <1>4, <1>10 DEF Knows
<1>12. Forwards(a.out, FlattenSeq(RightCopies(f, v)) \o SearchTail(f, v, 0).out, c)
  BY <1>4, <1>6, <1>10, ForwardsBoth
<1>13. Holds(FlattenSeq(RightCopies(f, v)) \o SearchTail(f, v, 0).out, f.events, Active(v))
  <2>1. /\ f.events = Indexed(f) \o EventTail(f)
        /\ Indexed(f) \in Seq(Event) /\ EventTail(f) \in Seq(Event)
    BY <1>1, WholeList
  <2>2. Holds(FlattenSeq(RightCopies(f, v)) \o SearchTail(f, v, 0).out, Indexed(f) \o EventTail(f), Active(v))
    BY <1>1, <2>1, IndexActive, TailActive, HoldsJoined
  <2>. QED
    BY <2>1, <2>2
<1>14. Answers(f, a.out, v, c)
  BY <1>1, <1>12, <1>13, AnswersForward
<1>. QED
  BY <1>4, <1>6, <1>8, <1>10, <1>11, <1>14 DEF Moved

---------------------------------------------------------------------------------
(* stab_forward with the index. *)

\* What a stab in front of the trees writes.
LEMMA BeforeWrites ==
  ASSUME NEW f, NEW h \in Helpers(f), NEW v, NEW c, NEW r, r = CopyStartAsc(f.events, h.it, v, c),
         r.next \in 1..(Len(f.events) + 1), r.out \in Seq(Event),
         NEW g, g = BeforeAllTrees(f, h, v, c)
  PROVE  /\ g \in Helpers(f) /\ g.it = r.next /\ g.visited = h.visited
         /\ g.startAt = h.startAt /\ g.firstLeft = h.firstLeft /\ (h.out = <<>> => g.out = r.out)
         /\ g.policy = h.policy
<1>1. PICK j, t : j = r.next /\ t = r.out
  OBVIOUS
<1>2. j \in 1..(Len(f.events) + 1) /\ t \in Seq(Event)
  BY <1>1
<1>3. g = Emit(ItAt(h, j), t)
  BY <1>1 DEF BeforeAllTrees, ItAt
<1>4. /\ g \in Helpers(f) /\ g.it = j /\ g.out = h.out \o t /\ g.visited = h.visited
      /\ g.startAt = h.startAt /\ g.firstLeft = h.firstLeft /\ g.policy = h.policy
  BY <1>2, <1>3, EmitsAt, SMTT(60)
<1>5. ASSUME h.out = <<>> PROVE g.out = t
  <2>1. <<>> \o t = t
    BY <1>2
  <2>. QED
    BY <1>4, <1>5, <2>1
<1>. QED
  BY <1>1, <1>4, <1>5

\* A stab in front of the trees.
LEMMA BeforeMoves ==
  ASSUME NEW f, ContentInv(f), NEW v, NEW c, NEW x, NEW z, Going(f, v, c, x, z), BeforeTrees(f, v),
         NEW h, Knows(f, h, x), h.out = <<>>, \A k \in 1..(h.it - 1) : f.events[k].start <= x
  PROVE  Moved(f, BeforeAllTrees(f, h, v, c), v, c, z) /\ BeforeAllTrees(f, h, v, c).policy = h.policy
<1>1. /\ Shape(f) /\ f.events \in Seq(Event) /\ Ordered(f.events)
      /\ v \in Int /\ c \in Int /\ x \in Int /\ z \in Int /\ x < v /\ x <= z
  BY DEF ContentInv, ForestInv, EventsOK, Shape, Typed, Going
<1>2. PICK i \in 1..(Len(f.events) + 1) : i = h.it
  BY DEF Knows, Helpers
<1>3. ASSUME NEW k \in 1..Len(f.events)
      PROVE  /\ f.events[k].start \in Int
             /\ f.events[k].start <= x <=> f.events[k].start < c
  <2>1. PICK e \in Event : e = f.events[k]
    BY <1>1
  <2>2. Occurrences(f.events, e) # 0
    <3>1. Len(f.events) \in Nat
      BY <1>1
    <3>. QED
      BY <2>1, <3>1, OccNat
  <2>3. e.start <= x <=> e.start < c
    BY <2>2 DEF Going
  <2>. QED
    BY <2>1, <2>3, EventTimes
<1>4. PICK r : r = CopyStartAsc(f.events, i, v, c)
  OBVIOUS
<1>5. /\ r.next = StartsAfter(f.events, v)
      /\ Forwards(r.out, CopyStartAsc(f.events, 1, v, 0).out, c)
  <2>1. ASSUME NEW k \in 1..(i - 1) PROVE f.events[k].start < c
    <3>1. k \in 1..Len(f.events) /\ k \in 1..(h.it - 1)
      BY <1>2
    <3>. QED
      BY <1>3, <3>1
  <2>2. ASSUME NEW k \in 1..Len(f.events), f.events[k].start < c PROVE f.events[k].start <= v
    <3>1. f.events[k].start \in Int /\ f.events[k].start <= x
      BY <1>3, <2>2
    <3>. QED
      BY <1>1, <3>1
  <2>. QED
    BY <1>1, <1>4, <2>1, <2>2, CopyStartForwards
<1>6. PICK g : g = BeforeAllTrees(f, h, v, c)
  OBVIOUS
<1>7. r.next \in 1..(Len(f.events) + 1) /\ r.out \in Seq(Event) /\ h \in Helpers(f)
  BY <1>1, <1>5, StartsCut DEF Forwards, Knows
<1>8. /\ g \in Helpers(f) /\ g.it = r.next /\ g.visited = h.visited
      /\ g.startAt = h.startAt /\ g.firstLeft = h.firstLeft /\ g.out = r.out
      /\ g.policy = h.policy
  <2>1. r = CopyStartAsc(f.events, h.it, v, c)
    BY <1>2, <1>4
  <2>. QED
    BY <1>6, <1>7, <2>1, BeforeWrites
<1>9. Knows(f, g, z)
  <2>1. KnowsLeft(f, g.firstLeft, z)
    BY <1>1, <1>8, KnowsMore DEF Knows
  <2>2. \A a \in Heights(f) : Remembers(f, g.visited[a], g.startAt[a], z)
    BY <1>1, <1>8, RemembersMore DEF Knows
  <2>. QED
    BY <1>8, <2>1, <2>2 DEF Knows
<1>11. Holds(CopyStartAsc(f.events, 1, v, 0).out, f.events, Active(v))
  <2>1. Exact(f, v) /\ StabSearch(f, v) = CopyStartAsc(f.events, 1, v, 0)
    BY <1>1, BeforeExact, SearchCases
  <2>. QED
    BY <2>1 DEF Exact
<1>12. Answers(f, g.out, v, c)
  BY <1>1, <1>5, <1>8, <1>11, AnswersForward
<1>. QED
  BY <1>5, <1>6, <1>8, <1>9, <1>12 DEF Moved

\* stab_forward with the index, wherever it looks.
LEMMA IndexStabMoves ==
  ASSUME NEW f, ContentInv(f), NEW v, NEW x, NEW z, NEW h0, Knows(f, h0, x), h0.out = <<>>,
         NEW c, c = StartAtAfter(f, h0), Going(f, v, c, x, z),
         \A k \in 1..(h0.it - 1) : f.events[k].start <= x
  PROVE  Moved(f, IndexStabForward(f, h0, v), v, c, z) /\ IndexStabForward(f, h0, v).policy = h0.policy
<1>1. PICK h : h = [h0 EXCEPT !.wentLeft = FALSE]
  OBVIOUS
<1>2. /\ Knows(f, h, x) /\ h.out = <<>> /\ ~h.wentLeft /\ h.it = h0.it /\ h.firstLeft = h0.firstLeft
      /\ h.policy = h0.policy
  <2>1. h0 \in Helpers(f)
    BY DEF Knows
  <2>2. /\ h \in Helpers(f) /\ h.out = h0.out /\ h.wentLeft = FALSE /\ h.it = h0.it
        /\ h.firstLeft = h0.firstLeft /\ h.visited = h0.visited /\ h.startAt = h0.startAt
        /\ h.policy = h0.policy
    BY <1>1, <2>1 DEF Helpers
  <2>. QED
    BY <2>2 DEF Knows
<1>3. c = StartAtAfter(f, h)
  BY <1>2 DEF StartAtAfter, CurrentStart
<1>4. /\ Shape(f) /\ f.index \in Seq(PointRecord)
      /\ v \in Int /\ c \in Int /\ x \in Int /\ x < v
  BY DEF ContentInv, ForestInv, Shape, Typed, Going
<1>5. CASE h.firstLeft = Null /\ BeforeTrees(f, v)
  <2>1. IndexStabForward(f, h0, v) = BeforeAllTrees(f, h, v, c)
    BY <1>1, <1>3, <1>5 DEF IndexStabForward, InTrees
  <2>. QED
    BY <1>2, <1>5, <2>1, BeforeMoves
<1>6. CASE h.firstLeft = Null /\ InTrees(f, v)
  <2>1. IndexStabForward(f, h0, v) = Navigate(f, h, Point(1), v, c)
    BY <1>1, <1>3, <1>6 DEF IndexStabForward, InTrees
  <2>2. PICK m \in Nat, n \in Nat : m = Len(f.index) /\ m > 0 /\ n = Len(f.nodes)
    <3>1. f.index # <<>> /\ Len(f.nodes) \in Nat
      BY <1>4, <1>6, UnderNat DEF InTrees
    <3>. QED
      BY <1>4, <3>1
  <2>3. /\ n > 0 /\ Last(f.index).dkey = f.nodes[n].dkey /\ f.nodes[1].nkey = f.minKey
        /\ f.minKey \in Int /\ f.nodes[n].dkey \in Int
    BY <1>4, <2>2, IndexEnds
  <2>4. 1 \in 1..Len(f.index) /\ FirstKey(f, 1) = f.minKey
    <3>1. 1 \in 1..m /\ 1 - 1 = 0 /\ 0 + 1 = 1
      BY <2>2
    <3>. QED
      BY <2>2, <2>3, <3>1 DEF FirstKey, Under
  <2>5. f.minKey <= v /\ v <= f.nodes[n].dkey
    BY <1>4, <1>6, <2>3 DEF InTrees, BeforeTrees
  <2>6. \A e \in Event : Occurrences(f.events, e) # 0 /\ c < e.start => FirstKey(f, 1) <= e.start
    BY <2>4, WhereEventsStart
  <2>. QED
    BY <1>2, <2>1, <2>2, <2>4, <2>5, <2>6, NavigateMoves DEF HasPolicy
<1>7. CASE h.firstLeft # Null /\ v <= Last(f.index).dkey
  <2>1. IndexStabForward(f, h0, v) = Navigate(f, h, h.firstLeft, v, c)
    BY <1>1, <1>3, <1>7 DEF IndexStabForward
  <2>2. PICK k \in 1..Len(f.index) : h.firstLeft = Point(k) /\ FirstKey(f, k) <= x + 1
    BY <1>2, <1>7 DEF Knows, KnowsLeft
  <2>3. PICK m \in Nat, n \in Nat : m = Len(f.index) /\ m > 0 /\ n = Len(f.nodes)
    <3>1. Len(f.nodes) \in Nat /\ Len(f.index) \in Nat
      BY <1>4, UnderNat
    <3>. QED
      BY <2>2, <3>1
  <2>4. Last(f.index).dkey = f.nodes[n].dkey
    BY <1>4, <2>3, IndexEnds
  <2>5. PICK y \in Int : y = FirstKey(f, k)
    BY <1>4, FirstKeyNode
  <2>6. FirstKey(f, k) <= v /\ v <= f.nodes[Len(f.nodes)].dkey
    BY <1>4, <1>7, <2>2, <2>3, <2>4, <2>5
  <2>7. ASSUME NEW e \in Event, Occurrences(f.events, e) # 0 /\ c < e.start PROVE FirstKey(f, k) <= e.start
    <3>1. e.start <= x <=> e.start < c
      BY <2>7 DEF Going
    <3>2. e.start \in Int
      BY EventTimes
    <3>. QED
      BY <1>4, <2>2, <2>5, <2>7, <3>1, <3>2
  <2>8. Moved(f, Navigate(f, h, Point(k), v, c), v, c, z) /\ Navigate(f, h, Point(k), v, c).policy = h.policy
    BY <1>2, <2>6, <2>7, NavigateMoves DEF HasPolicy
  <2>. QED
    BY <1>2, <2>1, <2>2, <2>8
<1>8. CASE /\ ~(h.firstLeft = Null /\ BeforeTrees(f, v))
           /\ ~(h.firstLeft = Null /\ InTrees(f, v))
           /\ ~(h.firstLeft # Null /\ v <= Last(f.index).dkey)
  <2>1. IndexStabForward(f, h0, v) = AfterTrees(f, h, v, c)
    BY <1>1, <1>3, <1>8 DEF IndexStabForward
  <2>2. ~BeforeTrees(f, v) /\ ~InTrees(f, v)
    <3>1. CASE h.firstLeft = Null
      BY <1>8, <3>1
    <3>2. CASE h.firstLeft # Null
      <4>1. ~(v <= Last(f.index).dkey)
        BY <1>8, <3>2
      <4>2. \E k \in 1..Len(f.index) : h.firstLeft = Point(k)
        BY <1>2, <3>2 DEF Knows, KnowsLeft
      <4>3. PICK m \in Nat, n \in Nat : m = Len(f.index) /\ m > 0 /\ n = Len(f.nodes)
        <5>1. Len(f.nodes) \in Nat /\ Len(f.index) \in Nat
          BY <1>4, UnderNat
        <5>. QED
          BY <4>2, <5>1
      <4>4. /\ n > 0 /\ Last(f.index).dkey = f.nodes[n].dkey /\ f.nodes[1].nkey = f.minKey
            /\ f.minKey \in Int /\ f.nodes[n].dkey \in Int
        BY <1>4, <4>3, IndexEnds
      <4>5. f.nodes[1].nkey <= f.nodes[n].dkey
        <5>1. 1 \in 1..n /\ n \in 1..n /\ 1 <= n
          BY <4>4
        <5>. QED
          BY <1>4, <4>3, <5>1, KeysReach
      <4>6. ~(v <= f.minKey)
        BY <1>4, <4>1, <4>4, <4>5
      <4>. QED
        BY <4>1, <4>6 DEF BeforeTrees, InTrees
    <3>. QED
      BY <3>1, <3>2
  <2>. QED
    BY <1>2, <2>1, <2>2, AfterMoves
<1>. QED
  BY <1>5, <1>6, <1>7, <1>8

---------------------------------------------------------------------------------
(* stab_forward along the list. *)

\* Where a stab along the list goes on, what it writes, and what it should write.
NextFrom(s, i, v) == Skip(s, i, LAMBDA e : e.start <= v)
ListWrites(s, i, v) == Selected(SubSeq(s, i, NextFrom(s, i, v) - 1), LAMBDA e : v <= e.end)
ExpectedOf(s, i, v) == Selected(SubSeq(s, i, Len(s)), LAMBDA e : ActiveAt(e, v))

\* It is the first position from i on of an event that starts after v.
LEMMA NextFirst ==
  ASSUME NEW s \in Seq(Event), NEW i \in 1..(Len(s) + 1), NEW v \in Int
  PROVE  FirstFrom(s, i, NextFrom(s, i, v), Started(v))
<1>. DEFINE b == NextFrom(s, i, v)
            J == {k \in i..Len(s) : ~(s[k].start <= v)}
            q == IF J # {} THEN CHOOSE x \in J : \A y \in J : x <= y ELSE 0
<1>1. b = IF q = 0 THEN Len(s) + 1 ELSE q
  BY DEF NextFrom, Skip, SelectInSubSeq, Min
<1>2. PICK n \in Nat : n = Len(s) /\ i \in 1..(n + 1) /\ \A k \in 1..n : s[k] \in Event
  OBVIOUS
<1>3. J = {k \in i..n : s[k] \notin Started(v)}
  <2>1. \A k \in i..n : s[k] \in Event
    BY <1>2
  <2>. QED
    BY <1>2, <2>1 DEF Started
<1>4. J \in SUBSET (1..n)
  BY <1>2
<1>. HIDE DEF J, b
<1>5. (J = {} => b = n + 1) /\ (J # {} => b \in J /\ \A y \in J : b <= y)
  BY <1>1, <1>2, <1>4, LeastPlace
<1>. HIDE DEF q
<1>6. FirstFrom(s, i, b, Started(v))
  BY <1>2, <1>3, <1>5, SkipFrom
<1>. QED
  BY <1>6 DEF b

\* The first event after v is the same from any position before it.
LEMMA NextPlace ==
  ASSUME NEW s \in Seq(Event), Ordered(s), NEW i \in 1..(Len(s) + 1), NEW v \in Int,
         \A k \in 1..(i - 1) : s[k].start <= v
  PROVE  /\ NextFrom(s, i, v) = StartsAfter(s, v)
         /\ i <= StartsAfter(s, v) /\ StartsAfter(s, v) \in 1..(Len(s) + 1)
         /\ \A k \in 1..Len(s) : s[k].start <= v <=> k < StartsAfter(s, v)
<1>1. PICK b : b = NextFrom(s, i, v)
  OBVIOUS
<1>2. PICK n \in Nat : n = Len(s) /\ i \in 1..(n + 1) /\ \A k \in 1..n : s[k] \in Event
  OBVIOUS
<1>3. FirstFrom(s, i, b, Started(v))
  BY <1>1, NextFirst
<1>4. /\ b \in i..(n + 1)
      /\ b <= n => s[b] \notin Started(v)
      /\ \A k \in i..(b - 1) : s[k] \in Started(v)
  BY <1>2, <1>3 DEF FirstFrom
<1>5. b \in Int /\ i <= b /\ b \in 1..(n + 1)
  BY <1>2, <1>4
<1>6. ASSUME NEW k \in 1..n PROVE s[k].start <= v <=> k < b
  <2>1. CASE k < i
    <3>1. k \in 1..(i - 1)
      BY <1>2, <2>1
    <3>. QED
      BY <1>2, <1>5, <2>1, <3>1
  <2>2. CASE i <= k /\ k < b
    <3>1. k \in i..(b - 1)
      BY <1>2, <1>5, <2>2
    <3>. QED
      BY <1>4, <2>2, <3>1 DEF Started
  <2>3. CASE b <= k
    <3>1. b \in 1..n /\ b <= n
      BY <1>2, <1>5, <2>3
    <3>2. s[b] \in Event /\ s[b] \notin Started(v)
      BY <1>2, <1>4, <3>1
    <3>3. s[b].start \in Int /\ s[k].start \in Int /\ s[b].start <= s[k].start
      BY <1>2, <2>3, <3>1, StartsUp
    <3>4. ~(s[b].start <= v)
      BY <3>2 DEF Started
    <3>5. ~(s[k].start <= v)
      BY <3>3, <3>4
    <3>. QED
      BY <1>5, <2>3, <3>5
  <2>. QED
    BY <1>2, <1>5, <2>1, <2>2, <2>3
<1>7. StartsAfter(s, v) = b
  BY <1>2, <1>5, <1>6, StartsCutOnly
<1>. QED
  BY <1>1, <1>2, <1>5, <1>6, <1>7

\* What starts after x.
Past(x) == {e \in Event : x < e.start}

\* Keeping what has not ended, or what is active.
LEMMA SelectedHolds ==
  ASSUME NEW s, NEW all, NEW C, Holds(s, all, C), NEW v
  PROVE  /\ Holds(Selected(s, LAMBDA e : v <= e.end), all, C \cap Lasting(v))
         /\ Holds(Selected(s, LAMBDA e : ActiveAt(e, v)), all, C \cap Active(v))
<1>1. s \in Seq(Event) /\ \A i \in DOMAIN s : s[i] \in Event
  BY DEF Holds
<1>2. Holds(Selected(s, LAMBDA e : v <= e.end), all, C \cap Lasting(v))
  <2>1. PICK kept : kept = {i \in DOMAIN s : s[i] \in Lasting(v)}
    OBVIOUS
  <2>2. kept = {i \in DOMAIN s : v <= s[i].end}
    BY <1>1, <2>1 DEF Lasting
  <2>3. Selected(s, LAMBDA e : v <= e.end) = ElementsAt(s, kept)
    BY <2>2 DEF Selected
  <2>4. Holds(ElementsAt(s, kept), all, C \cap Lasting(v))
    BY <2>1, HoldsKept
  <2>. QED
    BY <2>3, <2>4
<1>3. Holds(Selected(s, LAMBDA e : ActiveAt(e, v)), all, C \cap Active(v))
  <2>1. PICK kept : kept = {i \in DOMAIN s : s[i] \in Active(v)}
    OBVIOUS
  <2>2. kept = {i \in DOMAIN s : ActiveAt(s[i], v)}
    BY <1>1, <2>1 DEF Active
  <2>3. Selected(s, LAMBDA e : ActiveAt(e, v)) = ElementsAt(s, kept)
    BY <2>2 DEF Selected
  <2>4. Holds(ElementsAt(s, kept), all, C \cap Active(v))
    BY <2>1, HoldsKept
  <2>. QED
    BY <2>3, <2>4
<1>. QED
  BY <1>2, <1>3

\* From the position behind what starts by x, a stab along the list writes what it should:
\* what starts later and is active.
LEMMA ListHolds ==
  ASSUME NEW s \in Seq(Event), Ordered(s), NEW i \in 1..(Len(s) + 1), NEW v \in Int, NEW x \in Int, x < v,
         \A k \in 1..Len(s) : s[k].start <= x <=> k < i
  PROVE  /\ NextFrom(s, i, v) = StartsAfter(s, v)
         /\ Holds(ListWrites(s, i, v), s, Active(v) \cap Past(x))
         /\ Holds(ExpectedOf(s, i, v), s, Active(v) \cap Past(x))
<1>1. PICK n \in Nat : n = Len(s) /\ i \in 1..(n + 1) /\ \A k \in 1..n : s[k] \in Event
  OBVIOUS
<1>2. \A k \in 1..n : s[k].start \in Int
  BY <1>1, StartsUp
<1>3. PICK b : b = NextFrom(s, i, v)
  OBVIOUS
<1>4. b = StartsAfter(s, v) /\ i <= b /\ b \in 1..(n + 1) /\ \A k \in 1..n : s[k].start <= v <=> k < b
  <2>1. ASSUME NEW k \in 1..(i - 1) PROVE s[k].start <= v
    <3>1. k \in 1..n /\ k < i
      BY <1>1, <2>1
    <3>2. s[k].start <= x /\ s[k].start \in Int
      BY <1>1, <1>2, <3>1
    <3>. QED
      BY <3>2
  <2>. QED
    BY <1>1, <1>3, <2>1, NextPlace
<1>5. i \in Nat /\ b \in Nat /\ n + 1 \in Nat /\ 1 <= i /\ i <= n + 1 /\ b <= n + 1
  BY <1>1, <1>4
<1>6. Holds(ListWrites(s, i, v), s, Active(v) \cap Past(x))
  <2>1. PICK D : D = Started(v) \cap Past(x)
    OBVIOUS
  <2>2. ASSUME NEW k \in 1..n PROVE s[k] \in D <=> i <= k /\ k < b
    <3>1. s[k] \in Event /\ s[k].start \in Int /\ (s[k].start <= x <=> k < i) /\ (s[k].start <= v <=> k < b)
      BY <1>1, <1>2, <1>4
    <3>2. x < s[k].start <=> i <= k
      BY <1>5, <3>1
    <3>. QED
      BY <2>1, <3>1, <3>2 DEF Started, Past
  <2>3. Holds(SubSeq(s, i, b - 1), s, D)
    <3>1. /\ SubSeq(s, i, b - 1) \in Seq(Event)
          /\ \A e \in Event : Occurrences(SubSeq(s, i, b - 1), e) = IF e \in D THEN Occurrences(s, e) ELSE 0
      <4>1. b <= Len(s) + 1 /\ \A k \in 1..Len(s) : s[k] \in D <=> i <= k /\ k < b
        BY <1>1, <1>5, <2>2
      <4>. QED
        BY <1>4, <1>5, <4>1, PartCount
    <3>. QED
      BY <3>1 DEF Holds
  <2>4. PICK t : t = SubSeq(s, i, b - 1)
    OBVIOUS
  <2>5. Holds(Selected(t, LAMBDA e : v <= e.end), s, D \cap Lasting(v))
    BY <2>3, <2>4, SelectedHolds
  <2>6. D \cap Lasting(v) = Active(v) \cap Past(x)
    BY <2>1 DEF Started, Past, Lasting, Active, ActiveAt
  <2>7. ListWrites(s, i, v) = Selected(t, LAMBDA e : v <= e.end)
    BY <1>3, <2>4 DEF ListWrites
  <2>. QED
    BY <2>5, <2>6, <2>7
<1>7. Holds(ExpectedOf(s, i, v), s, Active(v) \cap Past(x))
  <2>1. ASSUME NEW k \in 1..n PROVE s[k] \in Past(x) <=> i <= k /\ k < n + 1
    <3>1. s[k] \in Event /\ s[k].start \in Int /\ (s[k].start <= x <=> k < i)
      BY <1>1, <1>2
    <3>2. (x < s[k].start <=> i <= k) /\ k < n + 1
      BY <1>5, <3>1
    <3>. QED
      BY <3>1, <3>2 DEF Past
  <2>2. PICK m \in Nat : m = n + 1
    BY <1>5
  <2>3. Holds(SubSeq(s, i, m - 1), s, Past(x))
    <3>1. /\ SubSeq(s, i, m - 1) \in Seq(Event)
          /\ \A e \in Event : Occurrences(SubSeq(s, i, m - 1), e) = IF e \in Past(x) THEN Occurrences(s, e) ELSE 0
      <4>1. m <= Len(s) + 1 /\ i <= m /\ \A k \in 1..Len(s) : s[k] \in Past(x) <=> i <= k /\ k < m
        BY <1>1, <1>5, <2>1, <2>2
      <4>. QED
        BY <1>5, <4>1, PartCount
    <3>. QED
      BY <3>1 DEF Holds
  <2>4. PICK t : t = SubSeq(s, i, Len(s))
    OBVIOUS
  <2>5. t = SubSeq(s, i, m - 1)
    <3>1. m - 1 = n
      BY <2>2
    <3>. QED
      BY <1>1, <2>4, <3>1
  <2>6. Holds(Selected(t, LAMBDA e : ActiveAt(e, v)), s, Past(x) \cap Active(v))
    BY <2>3, <2>5, SelectedHolds
  <2>7. Past(x) \cap Active(v) = Active(v) \cap Past(x)
    OBVIOUS
  <2>8. ExpectedOf(s, i, v) = Selected(t, LAMBDA e : ActiveAt(e, v))
    BY <2>4 DEF ExpectedOf
  <2>. QED
    BY <2>6, <2>7, <2>8
<1>. QED
  BY <1>3, <1>4, <1>6, <1>7

\* What a stab along the list makes of the helper.
LEMMA ListWritten ==
  ASSUME NEW f, NEW h \in Helpers(f), NEW v,
         NEW j \in 1..(Len(f.events) + 1), NextFrom(f.events, h.it, v) = j,
         NEW t \in Seq(Event), ListWrites(f.events, h.it, v) = t,
         NEW g, g = ListStabForward(f, h, v)
  PROVE  /\ g \in Helpers(f) /\ g.it = j /\ g.visited = h.visited
         /\ g.startAt = h.startAt /\ g.firstLeft = h.firstLeft /\ g.policy = h.policy
         /\ (h.out = <<>> => g.out = t)
<1>1. g = Emit(ItAt(h, j), t)
  BY DEF ListStabForward, ListWrites, NextFrom, ItAt
<1>2. /\ g \in Helpers(f) /\ g.it = j /\ g.out = h.out \o t /\ g.visited = h.visited
      /\ g.startAt = h.startAt /\ g.firstLeft = h.firstLeft /\ g.policy = h.policy
  BY <1>1, EmitsAt
<1>3. ASSUME h.out = <<>> PROVE g.out = t
  <2>1. <<>> \o t = t
    OBVIOUS
  <2>. QED
    BY <1>2, <1>3, <2>1
<1>. QED
  BY <1>2, <1>3

\* What is written of what should be: all but, perhaps, what starts where the stab began.
Right(f, t, i, v) ==
  LET due == ExpectedOf(f.events, i, v)
  IN \A e \in Event : /\ Occurrences(t, e) <= Occurrences(due, e)
                      /\ Occurrences(t, e) # Occurrences(due, e) => e.start = f.events[i].start

\* A stab along the list.
LEMMA ListMoves ==
  ASSUME NEW f, ContentInv(f), NEW h, NEW x, Knows(f, h, x), h.out = <<>>, NEW i, i = h.it,
         NEW v \in Int, x \in Int, x < v, \A k \in 1..Len(f.events) : f.events[k].start <= x <=> k < i,
         NEW z \in Int, x <= z
  PROVE  LET g == ListStabForward(f, h, v)
         IN /\ Knows(f, g, z) /\ g.it = StartsAfter(f.events, v) /\ Right(f, g.out, i, v)
            /\ g.policy = h.policy
<1>1. PICK g : g = ListStabForward(f, h, v)
  OBVIOUS
<1>2. /\ f.events \in Seq(Event) /\ Ordered(f.events) /\ i \in 1..(Len(f.events) + 1)
      /\ h \in Helpers(f)
  <2>1. f.events \in Seq(Event) /\ Ordered(f.events)
    BY DEF ContentInv, ForestInv, EventsOK, Shape, Typed
  <2>. QED
    BY <2>1 DEF Knows, Helpers
<1>3. PICK t, u : t = ListWrites(f.events, i, v) /\ u = ExpectedOf(f.events, i, v)
  OBVIOUS
<1>4. /\ NextFrom(f.events, i, v) = StartsAfter(f.events, v)
      /\ Holds(t, f.events, Active(v) \cap Past(x)) /\ Holds(u, f.events, Active(v) \cap Past(x))
  BY <1>2, <1>3, ListHolds
<1>5. StartsAfter(f.events, v) \in 1..(Len(f.events) + 1) /\ t \in Seq(Event)
  BY <1>2, <1>4, StartsCut DEF Holds
<1>6. /\ g \in Helpers(f) /\ g.it = StartsAfter(f.events, v) /\ g.visited = h.visited
      /\ g.startAt = h.startAt /\ g.firstLeft = h.firstLeft /\ g.out = t
      /\ g.policy = h.policy
  <2>1. PICK j \in 1..(Len(f.events) + 1) : j = StartsAfter(f.events, v)
    BY <1>5
  <2>2. NextFrom(f.events, h.it, v) = j /\ ListWrites(f.events, h.it, v) = t
    BY <1>3, <1>4, <2>1
  <2>3. /\ g \in Helpers(f) /\ g.it = j /\ g.visited = h.visited
        /\ g.startAt = h.startAt /\ g.firstLeft = h.firstLeft /\ (h.out = <<>> => g.out = t)
        /\ g.policy = h.policy
    BY <1>1, <1>2, <1>5, <2>2, ListWritten
  <2>. QED
    BY <2>1, <2>3
<1>7. Knows(f, g, z)
  <2>1. KnowsLeft(f, g.firstLeft, z)
    <3>1. Shape(f)
      BY DEF ContentInv, ForestInv
    <3>. QED
      BY <1>6, <3>1, KnowsMore DEF Knows
  <2>2. \A a \in Heights(f) : Remembers(f, g.visited[a], g.startAt[a], z)
    BY <1>6, RemembersMore DEF Knows
  <2>. QED
    BY <1>6, <2>1, <2>2 DEF Knows
<1>8. Right(f, t, i, v)
  <2>1. ASSUME NEW e \in Event PROVE Occurrences(t, e) = Occurrences(u, e) /\ Occurrences(t, e) \in Nat
    <3>1. Occurrences(t, e) = Occurrences(u, e)
      BY <1>4 DEF Holds
    <3>2. Len(t) \in Nat
      BY <1>5
    <3>. QED
      BY <3>1, <3>2, OccNat
  <2>2. ASSUME NEW e \in Event PROVE Occurrences(t, e) <= Occurrences(u, e)
    BY <2>1
  <2>. QED
    BY <1>3, <2>1, <2>2 DEF Right
<1>. QED
  BY <1>1, <1>6, <1>7, <1>8

---------------------------------------------------------------------------------
(* stab_forward. *)

\* What answers a stab from c on is right, c being the start at the helper's position.
LEMMA AnswersRight ==
  ASSUME NEW f, f.events \in Seq(Event), NEW v, NEW c, NEW x, NEW z, Going(f, v, c, x, z),
         NEW t, Answers(f, t, v, c), NEW i, c = -1 \/ c = f.events[i].start,
         Holds(ExpectedOf(f.events, i, v), f.events, Active(v) \cap Past(x))
  PROVE  Right(f, t, i, v)
<1>1. PICK u : u = ExpectedOf(f.events, i, v)
  OBVIOUS
<1>2. ASSUME NEW e \in Event
      PROVE  /\ Occurrences(t, e) <= Occurrences(u, e)
             /\ Occurrences(t, e) # Occurrences(u, e) => e.start = f.events[i].start
  <2>1. PICK m, n, l : m = Occurrences(t, e) /\ n = Occurrences(u, e) /\ l = Occurrences(f.events, e)
    OBVIOUS
  <2>2. m \in Nat /\ l \in Nat
    <3>1. Len(t) \in Nat /\ Len(f.events) \in Nat
      BY DEF Answers
    <3>. QED
      BY <2>1, <3>1, OccNat
  <2>3. /\ e.start < c => m = 0
        /\ e \in Active(v) => m <= l /\ (c < e.start => m = l)
        /\ e \notin Active(v) => m <= 0
    BY <2>1 DEF Answers
  <2>4. n = IF e \in Active(v) \cap Past(x) THEN l ELSE 0
    BY <1>1, <2>1 DEF Holds
  <2>5. e.start \in Int /\ e.start >= 0 /\ c \in Int /\ x \in Int
    <3>1. e.start \in Timestamp /\ MaxTime \in Nat
      BY EventFields
    <3>2. e.start \in Int /\ e.start >= 0
      BY <3>1 DEF Timestamp
    <3>. QED
      BY <3>2 DEF Going
  <2>6. l # 0 => (e.start <= x <=> e.start < c)
    BY <2>1 DEF Going
  <2>7. e \in Past(x) <=> ~(e.start <= x)
    BY <2>5 DEF Past
  <2>8. m <= n /\ (m # n => e.start = c)
    <3>1. CASE l = 0
      BY <2>2, <2>3, <2>4, <3>1
    <3>2. CASE l # 0 /\ e \notin Active(v)
      BY <2>2, <2>3, <2>4, <3>2
    <3>3. CASE l # 0 /\ e \in Active(v) /\ e.start < c
      BY <2>2, <2>3, <2>4, <2>6, <2>7, <3>3
    <3>4. CASE l # 0 /\ e \in Active(v) /\ ~(e.start < c)
      <4>1. n = l
        BY <2>4, <2>6, <2>7, <3>4
      <4>. QED
        BY <2>2, <2>3, <2>5, <3>4, <4>1
    <3>. QED
      BY <3>1, <3>2, <3>3, <3>4
  <2>9. CASE c = -1
    BY <2>1, <2>5, <2>8, <2>9
  <2>10. CASE c = f.events[i].start
    BY <2>1, <2>8, <2>10
  <2>. QED
    BY <2>9, <2>10
<1>. QED
  BY <1>1, <1>2 DEF Right

\* stab_forward_check's threshold is a number of events.
LEMMA ThresholdNat ==
  ASSUME NEW f, Shape(f)
  PROVE  Threshold(f) \in Nat
<1>1. IndexHeight(f) \in Nat
  <2>1. CASE f.index = <<>>
    BY <2>1 DEF IndexHeight
  <2>2. CASE f.index # <<>>
    <3>1. f.index \in Seq(PointRecord)
      BY DEF Shape, Typed
    <3>2. f.index[1] \in PointRecord
      BY <2>2, <3>1
    <3>3. f.index[1].height \in Nat
      BY <3>2 DEF PointRecord
    <3>. QED
      BY <2>2, <3>1, <3>3 DEF IndexHeight
  <2>. QED
    BY <2>1, <2>2
<1>2. Max({1, IndexHeight(f)}) \in Nat
  <2>1. PICK y \in Nat : y = IndexHeight(f)
    BY <1>1
  <2>2. PICK S : S = {1, y}
    OBVIOUS
  <2>3. \E a \in S : \A b \in S : a >= b
    BY <2>1, <2>2
  <2>4. Max(S) \in S
    BY <2>3 DEF Max
  <2>. QED
    BY <2>1, <2>2, <2>4
<1>3. PICK y \in Nat : y = Max({1, IndexHeight(f)})
  BY <1>2
<1>4. Factor \in Nat
  BY PolicyAssumption
<1>5. Factor * y \in Nat
  BY <1>3, <1>4
<1>. QED
  BY <1>3, <1>5 DEF Threshold

\* The helper a stab begins with: what the last one wrote is gone.
Fresh(h0) == [h0 EXCEPT !.out = <<>>]

\* It is a helper, ...
LEMMA FreshHelper ==
  ASSUME NEW f, NEW h0 \in Helpers(f), NEW h, h = Fresh(h0)
  PROVE  /\ h \in Helpers(f) /\ h.out = <<>> /\ h.it = h0.it /\ h.policy = h0.policy
         /\ h.firstLeft = h0.firstLeft /\ h.visited = h0.visited /\ h.startAt = h0.startAt
<1>1. PICK t : t = <<>> /\ t \in Seq(Event)
  <2>1. <<>> \in Seq(Event)
    OBVIOUS
  <2>. QED
    BY <2>1
<1>2. h = [h0 EXCEPT !.out = t]
  BY <1>1 DEF Fresh
<1>3. /\ h \in Helpers(f) /\ h.out = t /\ h.it = h0.it /\ h.policy = h0.policy
      /\ h.firstLeft = h0.firstLeft /\ h.visited = h0.visited /\ h.startAt = h0.startAt
  <2>1. t \in Seq(Event)
    BY <1>1
  <2>. QED
    BY <1>2, <2>1 DEF Helpers
<1>. QED
  BY <1>1, <1>3

\* ... and remembers what the one before it did.
LEMMA FreshKnows ==
  ASSUME NEW f, NEW h0, NEW x, Knows(f, h0, x), NEW h, h = Fresh(h0)
  PROVE  Knows(f, h, x) /\ h.out = <<>> /\ h.it = h0.it /\ h.policy = h0.policy
<1>1. h0 \in Helpers(f)
  BY DEF Knows
<1>2. /\ h \in Helpers(f) /\ h.out = <<>> /\ h.it = h0.it /\ h.policy = h0.policy
      /\ h.firstLeft = h0.firstLeft /\ h.visited = h0.visited /\ h.startAt = h0.startAt
  BY <1>1, FreshHelper
<1>3. /\ \A a \in Heights(f) : Remembers(f, h.visited[a], h.startAt[a], x)
      /\ KnowsLeft(f, h.firstLeft, x)
  BY <1>2 DEF Knows
<1>. HIDE DEF Fresh
<1>. QED
  BY <1>2, <1>3 DEF Knows

\* The caller's side of stab_forward, of a helper at i.
MayAsk(f, i, policy, v) ==
  /\ v \in Timestamp
  /\ i > 1 => v > f.events[i - 1].start /\ (i <= Len(f.events) => f.events[i].start # f.events[i - 1].start)
  /\ i > Len(f.events) => policy # "index"

\* A helper that is asked has passed what starts by x, and nothing else.
LEMMA AskedPassed ==
  ASSUME NEW f, ContentInv(f), NEW i \in 1..(Len(f.events) + 1), NEW policy, NEW v, MayAsk(f, i, policy, v),
         NEW x, x = Passed(f, i), NEW z, z = Passed(f, StartsAfter(f.events, v))
  PROVE  /\ x \in Int /\ x < v /\ z \in Int /\ x <= z
         /\ \A k \in 1..Len(f.events) : f.events[k].start <= x <=> k < i
<1>1. f.events \in Seq(Event) /\ Ordered(f.events)
  BY DEF ContentInv, ForestInv, EventsOK, Shape, Typed
<1>2. v \in Int /\ v >= 0
  <2>1. \A t \in Timestamp : t \in Int /\ t >= 0
    BY EventFields DEF Timestamp
  <2>. QED
    BY <2>1 DEF MayAsk
<1>3. i > 1 /\ i <= Len(f.events) => f.events[i].start # f.events[i - 1].start
  BY DEF MayAsk
<1>4. x \in Int /\ \A k \in 1..Len(f.events) : f.events[k].start <= x <=> k < i
  BY <1>1, <1>3, PassedIs
<1>5. x < v
  <2>1. CASE i = 1
    <3>1. x = -1
      BY <2>1 DEF Passed
    <3>. QED
      BY <1>2, <3>1
  <2>2. CASE i # 1
    <3>1. i > 1 /\ x = f.events[i - 1].start
      BY <2>2 DEF Passed
    <3>2. v > x
      BY <3>1 DEF MayAsk
    <3>. QED
      BY <1>2, <1>4, <3>2
  <2>. QED
    BY <2>1, <2>2
<1>6. i <= StartsAfter(f.events, v) /\ StartsAfter(f.events, v) \in 1..(Len(f.events) + 1)
  <2>1. ASSUME NEW k \in 1..(i - 1) PROVE f.events[k].start <= v
    <3>1. PICK l \in Nat : l = Len(f.events)
      BY <1>1
    <3>2. k \in 1..l /\ k < i
      BY <2>1, <3>1
    <3>3. f.events[k].start \in Int /\ f.events[k].start <= x
      BY <1>1, <1>4, <3>1, <3>2, StartsUp
    <3>. QED
      BY <1>2, <1>4, <1>5, <3>3
  <2>. QED
    BY <1>1, <1>2, <2>1, NextPlace
<1>7. z \in Int /\ x <= z
  <2>1. PICK k \in 1..(Len(f.events) + 1) : k = StartsAfter(f.events, v)
    BY <1>6
  <2>2. i <= k /\ z = Passed(f, k)
    BY <1>6, <2>1
  <2>. QED
    BY <1>1, <2>2, PassedMore
<1>. QED
  BY <1>4, <1>5, <1>7

\* A helper that looks into the index is not at the end.
LEMMA LooksAhead ==
  ASSUME NEW f, Shape(f), NEW h \in Helpers(f), NEW i \in 1..(Len(f.events) + 1), i = h.it, NEW v,
         i > Len(f.events) => h.policy # "index",
         ~(h.policy = "list" \/ (h.policy = "check" /\ NearEnough(f, h, v)))
  PROVE  i <= Len(f.events)
<1>1. PICK l \in Nat : l = Len(f.events)
  BY DEF Shape, Typed
<1>2. h.policy \in {"index", "list", "check"}
  BY PolicyAssumption DEF Helpers
<1>3. CASE h.policy = "index"
  BY <1>1, <1>3
<1>4. CASE h.policy # "index"
  <2>1. ~NearEnough(f, h, v)
    BY <1>2, <1>4
  <2>2. PICK y \in Nat : y = Threshold(f)
    BY ThresholdNat
  <2>3. ~(l + 1 - i <= y)
    BY <1>1, <2>1, <2>2 DEF NearEnough
  <2>. QED
    BY <1>1, <2>2, <2>3
<1>. QED
  BY <1>3, <1>4

\* stab_forward under each policy: the helper keeps its policy and stays one that knows what it
\* has passed, it is where the next start is, and what it wrote is right.
LEMMA StabAhead ==
  ASSUME NEW f, ContentInv(f), NEW h0, NEW i, i = h0.it, NEW x, x = Passed(f, i), Knows(f, h0, x),
         NEW v, MayAsk(f, i, h0.policy, v), NEW g, g = StabForwardOp(f, h0, v)
  PROVE  /\ Knows(f, g, Passed(f, g.it)) /\ g.it = StartsAfter(f.events, v) /\ Right(f, g.out, i, v)
         /\ g.policy = h0.policy
<1>1. PICK h : h = Fresh(h0)
  OBVIOUS
<1>2. Knows(f, h, x) /\ h.out = <<>> /\ h.it = h0.it /\ h.policy = h0.policy
  BY <1>1, FreshKnows
<1>3. /\ Shape(f) /\ f.events \in Seq(Event) /\ Ordered(f.events) /\ h \in Helpers(f)
      /\ i \in 1..(Len(f.events) + 1) /\ i = h.it
  <2>1. Shape(f) /\ f.events \in Seq(Event) /\ Ordered(f.events)
    BY DEF ContentInv, ForestInv, EventsOK, Shape, Typed
  <2>2. h \in Helpers(f) /\ i = h.it
    BY <1>2 DEF Knows
  <2>3. h.it \in 1..(Len(f.events) + 1)
    BY <2>2 DEF Helpers
  <2>. QED
    BY <2>1, <2>2, <2>3
<1>4. PICK z : z = Passed(f, StartsAfter(f.events, v))
  OBVIOUS
<1>5. /\ x \in Int /\ x < v /\ z \in Int /\ x <= z
      /\ \A k \in 1..Len(f.events) : f.events[k].start <= x <=> k < i
  BY <1>3, <1>4, AskedPassed
<1>6. v \in Int /\ v \in Timestamp
  <2>1. \A t \in Timestamp : t \in Int
    BY EventFields DEF Timestamp
  <2>. QED
    BY <2>1 DEF MayAsk
<1>7. /\ Knows(f, g, z) /\ g.it = StartsAfter(f.events, v) /\ Right(f, g.out, i, v)
      /\ g.policy = h0.policy
  <2>. DEFINE Along == h.policy = "list" \/ (h.policy = "check" /\ NearEnough(f, h, v))
  <2>1. CASE Along
    <3>1. g = ListStabForward(f, h, v)
      BY <1>1, <2>1 DEF StabForwardOp, Fresh
    <3>. QED
      BY <1>2, <1>3, <1>5, <1>6, <3>1, ListMoves
  <2>2. CASE ~Along
    <3>1. g = IndexStabForward(f, h, v)
      BY <1>1, <2>2 DEF StabForwardOp, Fresh
    <3>2. i <= Len(f.events)
      <4>1. i > Len(f.events) => h.policy # "index"
        BY <1>2 DEF MayAsk
      <4>. QED
        BY <1>3, <2>2, <4>1, LooksAhead
    <3>3. PICK c : c = StartAtAfter(f, h)
      OBVIOUS
    <3>4. (c = -1 /\ i = 1) \/ c = f.events[i].start
      BY <1>3, <3>3 DEF StartAtAfter, CurrentStart, Absent
    <3>5. MayGo(f, i, v, c)
      BY <1>3, <1>6, <3>2, <3>4 DEF MayGo, MayAsk
    <3>6. Going(f, v, c, x, z)
      BY <1>4, <3>5, GoingHolds
    <3>7. \A k \in 1..(h.it - 1) : f.events[k].start <= x
      <4>1. PICK l \in Nat : l = Len(f.events)
        BY <1>3
      <4>2. ASSUME NEW k \in 1..(i - 1) PROVE k \in 1..l /\ k < i
        BY <1>3, <4>1
      <4>. QED
        BY <1>3, <1>5, <4>1, <4>2
    <3>8. Moved(f, IndexStabForward(f, h, v), v, c, z) /\ IndexStabForward(f, h, v).policy = h.policy
      BY <1>2, <3>3, <3>6, <3>7, IndexStabMoves
    <3>9. Holds(ExpectedOf(f.events, i, v), f.events, Active(v) \cap Past(x))
      BY <1>3, <1>5, <1>6, ListHolds
    <3>10. Knows(f, g, z) /\ g.it = StartsAfter(f.events, v) /\ Answers(f, g.out, v, c)
      BY <3>1, <3>8 DEF Moved
    <3>11. Right(f, g.out, i, v)
      BY <1>3, <3>4, <3>6, <3>9, <3>10, AnswersRight
    <3>12. g.policy = h0.policy
      BY <1>2, <3>1, <3>8
    <3>. QED
      BY <3>10, <3>11, <3>12
  <2>. QED
    BY <2>1, <2>2
<1>. QED
  BY <1>4, <1>7

---------------------------------------------------------------------------------
(* The helper's states. *)

\* What every state of the specification is in: the lists of the forest hold what they should,
\* the helper's memory misleads no later stab, and the last stab wrote what is right.
FInv ==
  /\ ContentInv(forest)
  /\ helper = NoHelper => stab = NoStab
  /\ helper # NoHelper => Knows(forest, helper, Passed(forest, helper.it))
  /\ helper # NoHelper /\ stab # NoStab => Right(forest, helper.out, stab.from, stab.value)

\* A helper is no NoHelper.
LEMMA KnowsSome ==
  ASSUME NEW f, f.events \in Seq(Event), NEW h, NEW x, Knows(f, h, x)
  PROVE  h # NoHelper /\ h.it \in 1..(Len(f.events) + 1)
<1>1. h.it \in 1..(Len(f.events) + 1)
  BY DEF Knows, Helpers
<1>2. h.it # 0
  BY <1>1
<1>3. NoHelper.it = 0
  BY DEF NoHelper
<1>. QED
  BY <1>1, <1>2, <1>3

\* A new helper has passed nothing.
LEMMA NewKnows ==
  ASSUME NEW f, f.events \in Seq(Event), NEW policy \in Policies, NEW h, h = NewHelper(f, policy)
  PROVE  Knows(f, h, Passed(f, h.it))
<1>1. PICK H : H = Heights(f)
  OBVIOUS
<1>2. PICK vs, sa : vs = [a \in H |-> Null] /\ sa = [a \in H |-> 0]
  OBVIOUS
<1>3. vs \in [H -> Pointer] /\ sa \in [H -> Nat]
  <2>1. Null \in Pointer
    BY DEF Pointer, Null
  <2>. QED
    BY <1>2, <2>1
<1>4. PICK o : o = <<>> /\ o \in Seq(Event)
  <2>1. <<>> \in Seq(Event)
    OBVIOUS
  <2>. QED
    BY <2>1
<1>5. h = [policy |-> policy, it |-> 1, out |-> o, wentLeft |-> FALSE, firstLeft |-> Null,
           visited |-> vs, startAt |-> sa]
  BY <1>1, <1>2, <1>4 DEF NewHelper, Heights
<1>6. 1 \in 1..(Len(f.events) + 1)
  <2>1. PICK l \in Nat : l = Len(f.events)
    OBVIOUS
  <2>. QED
    BY <2>1
<1>7. h \in Helpers(f)
  <2>1. o \in Seq(Event) /\ Null \in Pointer
    BY <1>4 DEF Pointer, Null
  <2>. QED
    BY <1>1, <1>3, <1>5, <1>6, <2>1 DEF Helpers
<1>8. h.firstLeft = Null /\ h.visited = vs /\ h.startAt = sa /\ h.it = 1
  BY <1>5
<1>9. \A a \in Heights(f) : Remembers(f, h.visited[a], h.startAt[a], Passed(f, h.it))
  BY <1>1, <1>2, <1>8 DEF Remembers
<1>10. KnowsLeft(f, h.firstLeft, Passed(f, h.it))
  BY <1>8 DEF KnowsLeft
<1>. QED
  BY <1>7, <1>9, <1>10 DEF Knows

\* An event further on, as much is known.
LEMMA StepKnows ==
  ASSUME NEW f, ContentInv(f), NEW h, Knows(f, h, Passed(f, h.it)), h.it <= Len(f.events),
         NEW g, g = ItAt(h, h.it + 1)
  PROVE  Knows(f, g, Passed(f, g.it)) /\ g.out = h.out
<1>1. Shape(f) /\ f.events \in Seq(Event) /\ Ordered(f.events)
  BY DEF ContentInv, ForestInv, EventsOK, Shape, Typed
<1>2. h \in Helpers(f) /\ h.it \in 1..(Len(f.events) + 1)
  BY <1>1, KnowsSome DEF Knows
<1>3. PICK l \in Nat : l = Len(f.events)
  BY <1>1
<1>4. PICK i \in 1..(l + 1), j \in 1..(l + 1) : i = h.it /\ j = h.it + 1 /\ i <= j
  BY <1>2, <1>3
<1>5. PICK x, z : x = Passed(f, i) /\ z = Passed(f, j)
  OBVIOUS
<1>6. x \in Int /\ z \in Int /\ x <= z
  BY <1>1, <1>3, <1>4, <1>5, PassedMore
<1>7. /\ g \in Helpers(f) /\ g.it = j /\ g.out = h.out /\ g.visited = h.visited
      /\ g.startAt = h.startAt /\ g.firstLeft = h.firstLeft
  <2>1. g = [h EXCEPT !.it = j]
    BY <1>4 DEF ItAt
  <2>2. j \in 1..(Len(f.events) + 1)
    BY <1>3
  <2>. QED
    BY <1>2, <2>1, <2>2 DEF Helpers
<1>8. Knows(f, h, x)
  BY <1>4, <1>5
<1>9. Knows(f, g, z)
  <2>1. KnowsLeft(f, g.firstLeft, z)
    BY <1>1, <1>6, <1>7, <1>8, KnowsMore DEF Knows
  <2>2. \A a \in Heights(f) : Remembers(f, g.visited[a], g.startAt[a], z)
    BY <1>6, <1>7, <1>8, RemembersMore DEF Knows
  <2>. QED
    BY <1>7, <2>1, <2>2 DEF Knows
<1>. QED
  BY <1>5, <1>7, <1>9

\* The empty forest is one.
LEMMA ContentInit == Init => ContentInv(forest)
BY EmptyContent DEF Init

\* An event appended, the lists still hold what they should.
LEMMA FillContent ==
  ASSUME ContentInv(forest), NEW e \in Event, Append_event(e)
  PROVE  ContentInv(forest')
<1>1. forest' = AppendEvent(forest, e) /\ (forest.events # <<>> => AtOrBefore(Last(forest.events), e))
  BY DEF Append_event
<1>. QED
  BY <1>1, AppendContent

\* A stab of a helper in such a state.
LEMMA StabOne ==
  ASSUME FInv, NEW v \in Timestamp, Stab_forward(v)
  PROVE  /\ helper # NoHelper /\ Knows(forest, helper', Passed(forest, helper'.it))
         /\ helper'.it = StartsAfter(forest.events, v)
         /\ Right(forest, helper'.out, helper.it, v)
<1>1. helper # NoHelper /\ MayStab(v) /\ helper' = StabForwardOp(forest, helper, v)
  BY DEF Stab_forward
<1>2. ContentInv(forest) /\ Knows(forest, helper, Passed(forest, helper.it))
  BY <1>1 DEF FInv
<1>3. forest.events \in Seq(Event)
  BY <1>2 DEF ContentInv, ForestInv, Shape, Typed
<1>4. PICK i \in 1..(Len(forest.events) + 1) : i = helper.it
  BY <1>2, <1>3, KnowsSome
<1>5. PICK l \in Nat : l = Len(forest.events)
  BY <1>3
<1>6. MayAsk(forest, i, helper.policy, v)
  <2>1. i > 1 => v > forest.events[i - 1].start /\ (~(i > l) => forest.events[i].start # forest.events[i - 1].start)
    BY <1>1, <1>4, <1>5 DEF MayStab, AtEnd, CurrentStart
  <2>2. i > l => helper.policy # "index"
    BY <1>1, <1>4, <1>5 DEF MayStab, AtEnd
  <2>3. i <= l => ~(i > l)
    BY <1>4, <1>5
  <2>. QED
    BY <1>5, <2>1, <2>2, <2>3 DEF MayAsk
<1>7. PICK g : g = helper'
  OBVIOUS
<1>8. Knows(forest, g, Passed(forest, g.it)) /\ g.it = StartsAfter(forest.events, v) /\ Right(forest, g.out, i, v)
  BY <1>1, <1>2, <1>4, <1>6, <1>7, StabAhead
<1>. QED
  BY <1>1, <1>4, <1>7, <1>8

\* One step of the specification.
LEMMA FInvNext == FInv /\ [FNext]_fvars => FInv'
<1>. SUFFICES ASSUME FInv, [FNext]_fvars PROVE FInv'
  OBVIOUS
<1>1. ASSUME NEW e \in Event, Fill(e) PROVE FInv'
  <2>1. helper = NoHelper /\ helper' = NoHelper /\ stab' = stab /\ Append_event(e)
    BY <1>1 DEF Fill
  <2>2. ContentInv(forest')
    BY <2>1, FillContent DEF FInv
  <2>. QED
    BY <2>1, <2>2 DEF FInv
<1>2. ASSUME NEW policy \in Policies, Stab_forward_search(policy) PROVE FInv'
  <2>1. /\ helper = NoHelper /\ helper' = NewHelper(forest, policy) /\ stab' = stab /\ forest' = forest
        /\ stab = NoStab /\ ContentInv(forest)
    BY <1>2 DEF Stab_forward_search, FInv
  <2>2. forest.events \in Seq(Event)
    BY <2>1 DEF ContentInv, ForestInv, Shape, Typed
  <2>3. PICK h : h = helper'
    OBVIOUS
  <2>4. Knows(forest, h, Passed(forest, h.it))
    BY <2>1, <2>2, <2>3, NewKnows
  <2>5. h # NoHelper
    BY <2>2, <2>4, KnowsSome
  <2>. QED
    BY <2>1, <2>3, <2>4, <2>5 DEF FInv
<1>3. CASE Increment
  <2>1. /\ helper # NoHelper /\ ~AtEnd /\ helper' = [helper EXCEPT !.it = @ + 1]
        /\ stab' = stab /\ forest' = forest
    BY <1>3 DEF Increment
  <2>2. ContentInv(forest) /\ Knows(forest, helper, Passed(forest, helper.it))
    BY <2>1 DEF FInv
  <2>3. forest.events \in Seq(Event)
    BY <2>2 DEF ContentInv, ForestInv, Shape, Typed
  <2>4. helper.it <= Len(forest.events)
    <3>1. helper.it \in 1..(Len(forest.events) + 1) /\ Len(forest.events) \in Nat
      BY <2>2, <2>3, KnowsSome
    <3>2. ~(helper.it > Len(forest.events))
      BY <2>1 DEF AtEnd
    <3>. QED
      BY <3>1, <3>2
  <2>5. PICK h : h = helper'
    OBVIOUS
  <2>6. h = ItAt(helper, helper.it + 1)
    BY <2>1, <2>5 DEF ItAt
  <2>7. Knows(forest, h, Passed(forest, h.it)) /\ h.out = helper.out
    BY <2>2, <2>4, <2>6, StepKnows
  <2>8. h # NoHelper
    BY <2>3, <2>7, KnowsSome
  <2>9. stab # NoStab => Right(forest, h.out, stab.from, stab.value)
    <3>1. stab # NoStab => Right(forest, helper.out, stab.from, stab.value)
      BY <2>1 DEF FInv
    <3>2. h.out = helper.out
      BY <2>7
    <3>. QED
      BY <3>1, <3>2
  <2>10. /\ forest' = forest /\ stab' = stab /\ helper' = h
    BY <2>1, <2>5
  <2>. QED
    BY <2>2, <2>7, <2>8, <2>9, <2>10 DEF FInv
<1>4. ASSUME NEW v \in Timestamp, Stab_forward(v) PROVE FInv'
  <2>1. forest' = forest /\ stab' = [from |-> helper.it, value |-> v]
    BY <1>4 DEF Stab_forward
  <2>2. PICK h : h = helper'
    OBVIOUS
  <2>3. Knows(forest, h, Passed(forest, h.it)) /\ Right(forest, h.out, helper.it, v)
    BY <1>4, <2>2, StabOne
  <2>4. ContentInv(forest)
    BY DEF FInv
  <2>5. h # NoHelper
    BY <2>3, <2>4, KnowsSome DEF ContentInv, ForestInv, Shape, Typed
  <2>6. stab'.from = helper.it /\ stab'.value = v
    BY <2>1
  <2>7. Right(forest, h.out, stab'.from, stab'.value)
    BY <2>3, <2>6
  <2>. QED
    BY <2>1, <2>2, <2>3, <2>4, <2>5, <2>7 DEF FInv
<1>5. CASE UNCHANGED fvars
  <2>1. forest' = forest /\ helper' = helper /\ stab' = stab
    BY <1>5 DEF fvars
  <2>. QED
    BY <2>1 DEF FInv
<1>. QED
  BY <1>1, <1>2, <1>3, <1>4, <1>5 DEF FNext

\* The helper's memory never misleads it, in any state.
THEOREM ForwardInvHolds == FSpec => []FInv
<1>1. FInit => FInv
  <2>. SUFFICES ASSUME FInit PROVE FInv
    OBVIOUS
  <2>1. Init /\ helper = NoHelper /\ stab = NoStab
    BY DEF FInit
  <2>2. ContentInv(forest)
    BY <2>1, ContentInit
  <2>. QED
    BY <2>1, <2>2 DEF FInv
<1>2. FInv /\ [FNext]_fvars => FInv'
  BY FInvNext
<1>. QED
  BY <1>1, <1>2, PTL DEF FSpec

\* A stab writes no event twice, none that is not active at its value and none that the
\* helper had passed (stab_forward, under each jump policy).
THEOREM ForwardWritesOnlyExpected == FSpec => []WritesOnlyExpected
<1>1. FInv => WritesOnlyExpected
  BY DEF FInv, Right, WritesOnlyExpected, Expected, ExpectedOf
<1>. QED
  BY <1>1, ForwardInvHolds, PTL

\* An event that a stab should write and does not starts exactly where the event did that the
\* helper was at.
THEOREM ForwardLosesOnlyCurrentStart == FSpec => []LosesOnlyCurrentStart
<1>1. FInv => LosesOnlyCurrentStart
  BY DEF FInv, Right, LosesOnlyCurrentStart, Expected, ExpectedOf
<1>. QED
  BY <1>1, ForwardInvHolds, PTL

\* A stab leaves the helper at the first event that starts after its value.
THEOREM ForwardStopsAfterValue == FSpec => StopsAfterValue
<1>1. FInv /\ [FNext]_fvars =>
        [\A v \in Timestamp : Stab_forward(v) =>
           helper'.it = Skip(forest.events, 1, LAMBDA e : e.start <= v)]_fvars
  <2>. SUFFICES ASSUME FInv, NEW v \in Timestamp, Stab_forward(v)
                PROVE  helper'.it = Skip(forest.events, 1, LAMBDA e : e.start <= v)
    OBVIOUS
  <2>1. helper'.it = StartsAfter(forest.events, v)
    BY StabOne
  <2>. QED
    BY <2>1 DEF StartsAfter
<1>. QED
  BY <1>1, ForwardInvHolds, PTL DEF FSpec, StopsAfterValue
=================================================================================
